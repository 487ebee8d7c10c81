-------------------------- MODULE DispatcherProofs --------------------------
(* Proofs about Dispatcher, for any tasks, loops and channel capacities.   *)
EXTENDS Dispatcher, SequenceTheorems, TLAPS

(* Where a task is, without its position.                                  *)
In(q, t) == \E i \in 1..Len(q) : q[i] = t
Distinct(q) == \A i, j \in 1..Len(q) : q[i] = q[j] => i = j
On(s, t, place) == \E i \in 1..Len(s) : s[i].task = t /\ s[i].at = place
TasksOnce(s) ==
  \A i, j \in 1..Len(s) : s[i].task = s[j].task /\ s[i].task # None => i = j

Fresh == {"idle", "sending"}
Closing == {"drain", "closing", "closed", "stopped"}

----------------------------------------------------------------------------
(* Channels as sequences.                                                  *)

(* A send puts one task into a channel, behind the others, and keeps the   *)
(* tasks of a channel distinct.                                            *)
LEMMA InAppend ==
  ASSUME NEW S, NEW q \in Seq(S), NEW t \in S
  PROVE  /\ Append(q, t) \in Seq(S) /\ Len(Append(q, t)) = Len(q) + 1
         /\ \A u : In(Append(q, t), u) <=> In(q, u) \/ u = t
         /\ Distinct(q) /\ ~In(q, t) => Distinct(Append(q, t))
  <1> DEFINE a == Append(q, t)
  <1>1. a \in Seq(S) /\ Len(a) = Len(q) + 1 /\ Len(q) \in Nat
    OBVIOUS
  <1>2. (\A i \in 1..Len(q) : a[i] = q[i]) /\ a[Len(q) + 1] = t
    OBVIOUS
  <1>3. 1..Len(a) = 1..Len(q) \cup {Len(q) + 1} /\ Len(q) + 1 \notin 1..Len(q)
    BY <1>1
  <1> HIDE DEF a
  <1>4. \A u : In(a, u) <=> In(q, u) \/ u = t
    BY <1>2, <1>3 DEF In
  <1>5. Distinct(q) /\ ~In(q, t) => Distinct(a)
    BY <1>2, <1>3 DEF Distinct, In
  <1> QED BY <1>1, <1>4, <1>5 DEF a

(* A receive takes one task, the first, out of a channel of distinct       *)
(* tasks.                                                                  *)
LEMMA InTail ==
  ASSUME NEW S, NEW q \in Seq(S), q # << >>, Distinct(q)
  PROVE  /\ Tail(q) \in Seq(S) /\ Len(Tail(q)) = Len(q) - 1
         /\ Head(q) \in S /\ In(q, Head(q))
         /\ \A u : In(Tail(q), u) <=> In(q, u) /\ u # Head(q)
         /\ Distinct(Tail(q))
  <1> DEFINE r == Tail(q)
  <1>1. r \in Seq(S) /\ Len(r) = Len(q) - 1 /\ Len(q) \in Nat \ {0} /\ Head(q) = q[1]
    OBVIOUS
  <1>2. \A i \in 1..Len(r) : r[i] = q[i + 1]
    OBVIOUS
  <1>3. /\ 1 \in 1..Len(q)
        /\ \A i \in 1..Len(r) : i + 1 \in 1..Len(q) /\ i + 1 # 1
        /\ \A i \in 1..Len(q) : i # 1 => i - 1 \in 1..Len(r) /\ (i - 1) + 1 = i
    BY <1>1
  <1>4. Head(q) \in S
    BY <1>1, <1>3
  <1> HIDE DEF r
  <1>5. ASSUME NEW u, In(r, u) PROVE In(q, u) /\ u # q[1]
    <2>1. PICK i \in 1..Len(r) : r[i] = u
      BY <1>5 DEF In
    <2>2. q[i + 1] = u /\ i + 1 \in 1..Len(q) /\ i + 1 # 1
      BY <1>2, <1>3, <2>1
    <2> QED BY <1>3, <2>2 DEF In, Distinct
  <1>6. ASSUME NEW u, In(q, u), u # q[1] PROVE In(r, u)
    <2>1. PICK i \in 1..Len(q) : q[i] = u
      BY <1>6 DEF In
    <2>2. i # 1
      BY <1>6, <2>1
    <2>3. i - 1 \in 1..Len(r) /\ (i - 1) + 1 = i
      BY <1>3, <2>2
    <2> QED BY <1>2, <2>1, <2>3 DEF In
  <1>7. Distinct(r)
    <2> SUFFICES ASSUME NEW i \in 1..Len(r), NEW j \in 1..Len(r), r[i] = r[j] PROVE i = j
      BY DEF Distinct
    <2>1. i + 1 \in 1..Len(q) /\ j + 1 \in 1..Len(q) /\ q[i + 1] = q[j + 1]
      BY <1>2, <1>3
    <2>2. i + 1 = j + 1
      BY <2>1 DEF Distinct
    <2> QED BY <1>1, <2>2
  <1>8. In(q, q[1])
    BY <1>3 DEF In
  <1> QED BY <1>1, <1>4, <1>5, <1>6, <1>7, <1>8 DEF r

----------------------------------------------------------------------------
(* The stack of frames.                                                    *)

(* What is on the stack after a push.                                      *)
LEMMA OnPush ==
  ASSUME NEW s \in Seq(Frame), NEW f \in Frame
  PROVE  /\ Append(s, f) \in Seq(Frame) /\ Append(s, f) # << >>
         /\ \A t, p : On(Append(s, f), t, p) <=> On(s, t, p) \/ (f.task = t /\ f.at = p)
         /\ (TasksOnce(s) /\ \A p : ~On(s, f.task, p)) => TasksOnce(Append(s, f))
         /\ TasksOnce(s) /\ f.task = None => TasksOnce(Append(s, f))
  <1> DEFINE a == Append(s, f)
  <1>1. a \in Seq(Frame) /\ Len(a) = Len(s) + 1 /\ Len(s) \in Nat /\ a # << >>
    OBVIOUS
  <1>2. (\A i \in 1..Len(s) : a[i] = s[i]) /\ a[Len(s) + 1] = f
    OBVIOUS
  <1>3. 1..Len(a) = 1..Len(s) \cup {Len(s) + 1} /\ Len(s) + 1 \notin 1..Len(s)
    BY <1>1
  <1> HIDE DEF a
  <1>4. \A t, p : On(a, t, p) <=> On(s, t, p) \/ (f.task = t /\ f.at = p)
    BY <1>2, <1>3 DEF On
  <1>5. ASSUME TasksOnce(s), \A i \in 1..Len(s) : s[i].task # f.task \/ f.task = None
        PROVE  TasksOnce(a)
    BY <1>2, <1>3, <1>5 DEF TasksOnce
  <1>6. (\A p : ~On(s, f.task, p)) => \A i \in 1..Len(s) : s[i].task # f.task
    BY DEF On
  <1> QED BY <1>1, <1>4, <1>5, <1>6 DEF a

(* The stack is its top on the frames below it.                            *)
LEMMA Split ==
  ASSUME stack \in Seq(Frame), stack # << >>
  PROVE  /\ Depth \in Nat \ {0} /\ Len(stack) = Depth
         /\ Pop \in Seq(Frame) /\ Len(Pop) = Depth - 1
         /\ \A i \in 1..(Depth - 1) : Pop[i] = stack[i]
         /\ 1..Depth = 1..(Depth - 1) \cup {Depth} /\ Depth \notin 1..(Depth - 1)
         /\ Top \in Frame /\ Top = stack[Depth]
  <1>1. Depth \in Nat \ {0} /\ Len(stack) = Depth
    BY DEF Depth
  <1>2. \A i \in 1..(Depth - 1) : stack[i] \in Frame
    BY <1>1
  <1>3. /\ SubSeq(stack, 1, Depth - 1) \in Seq(Frame)
        /\ Len(SubSeq(stack, 1, Depth - 1)) = IF 1 <= Depth - 1 THEN Depth - 1 - 1 + 1 ELSE 0
        /\ \A i \in 1..(Depth - 1 - 1 + 1) : SubSeq(stack, 1, Depth - 1)[i] = stack[1 + i - 1]
    BY <1>1, <1>2, SubSeqProperties
  <1>4. Len(Pop) = Depth - 1 /\ Pop \in Seq(Frame)
    BY <1>1, <1>3 DEF Pop
  <1>5. \A i \in 1..(Depth - 1) : Pop[i] = stack[i]
    <2> DEFINE p == SubSeq(stack, 1, Depth - 1)
    <2>1. \A i \in 1..(Depth - 1) : 1 + i - 1 = i /\ i \in 1..(Depth - 1 - 1 + 1)
      BY <1>1
    <2>2. \A i \in 1..(Depth - 1) : p[i] = stack[i]
      BY <1>3, <2>1
    <2> QED BY <2>2 DEF Pop
  <1>6. 1..Depth = 1..(Depth - 1) \cup {Depth} /\ Depth \notin 1..(Depth - 1)
    BY <1>1
  <1>7. Top \in Frame /\ Top = stack[Depth]
    BY <1>1 DEF Top
  <1> QED BY <1>1, <1>4, <1>5, <1>6, <1>7

(* What is on the stack after a pop.                                       *)
LEMMA OnPop ==
  ASSUME stack \in Seq(Frame), stack # << >>
  PROVE  /\ Pop \in Seq(Frame) /\ Top \in Frame /\ On(stack, Top.task, Top.at)
         /\ \A t, p : On(Pop, t, p) => On(stack, t, p)
         /\ \A t, p : On(stack, t, p) => On(Pop, t, p) \/ (t = Top.task /\ p = Top.at)
         /\ TasksOnce(stack) /\ Top.task # None =>
              \A p : ~On(Pop, Top.task, p)
         /\ TasksOnce(stack) => TasksOnce(Pop)
  <1>1. /\ Depth \in Nat \ {0} /\ Pop \in Seq(Frame) /\ Len(Pop) = Depth - 1
        /\ \A i \in 1..(Depth - 1) : Pop[i] = stack[i]
    BY Split
  <1>2. 1..Depth = 1..(Depth - 1) \cup {Depth} /\ Depth \notin 1..(Depth - 1)
    BY Split
  <1>3. Top \in Frame /\ Top = stack[Depth] /\ Len(stack) = Depth
    BY Split
  <1> HIDE DEF Pop, Top, Depth
  <1>4. On(stack, Top.task, Top.at)
    BY <1>2, <1>3 DEF On
  <1>5. \A t, p : On(Pop, t, p) => On(stack, t, p)
    BY <1>1, <1>2, <1>3 DEF On
  <1>6. \A t, p : On(stack, t, p) => On(Pop, t, p) \/ (t = Top.task /\ p = Top.at)
    BY <1>1, <1>2, <1>3 DEF On
  <1>7. TasksOnce(stack) /\ Top.task # None => \A p : ~On(Pop, Top.task, p)
    BY <1>1, <1>2, <1>3 DEF On, TasksOnce
  <1>8. TasksOnce(stack) => TasksOnce(Pop)
    BY <1>1, <1>2, <1>3 DEF TasksOnce
  <1> QED BY <1>1, <1>3, <1>4, <1>5, <1>6, <1>7, <1>8

(* What is on the stack after its top has moved to another place.          *)
LEMMA OnAt ==
  ASSUME stack \in Seq(Frame), stack # << >>,
         NEW place \in {"taken", "running", "ended", "check", "pump"}
  PROVE  /\ At(place) \in Seq(Frame) /\ At(place) # << >>
         /\ \A t, p : On(At(place), t, p) <=>
              On(Pop, t, p) \/ (t = Top.task /\ p = place)
         /\ TasksOnce(stack) => TasksOnce(At(place))
  <1> DEFINE a == At(place)
  <1>1. /\ Depth \in Nat \ {0} /\ Pop \in Seq(Frame) /\ Len(Pop) = Depth - 1
        /\ \A i \in 1..(Depth - 1) : Pop[i] = stack[i]
    BY Split
  <1>2. 1..Depth = 1..(Depth - 1) \cup {Depth} /\ Depth \notin 1..(Depth - 1)
    BY Split
  <1>3. Top \in Frame /\ Top = stack[Depth] /\ Len(stack) = Depth
    BY Split
  <1>4. [Top EXCEPT !.at = place] \in Frame /\ [Top EXCEPT !.at = place].at = place
        /\ [Top EXCEPT !.at = place].task = Top.task
    BY <1>3 DEF Frame
  <1>5. a = [stack EXCEPT ![Depth] = [Top EXCEPT !.at = place]]
    BY <1>1, <1>3 DEF At, Top
  <1>6. a \in Seq(Frame) /\ Len(a) = Depth
    BY <1>1, <1>2, <1>3, <1>4, <1>5
  <1>7. a[Depth] = [Top EXCEPT !.at = place] /\ \A i \in 1..(Depth - 1) : a[i] = stack[i]
    <2> DEFINE top == [Top EXCEPT !.at = place]
    <2>1. DOMAIN stack = 1..Depth
      BY <1>3
    <2> HIDE DEF top, Depth
    <2>2. a[Depth] = top
      BY <1>2, <1>5, <2>1 DEF top
    <2>3. \A i \in 1..(Depth - 1) : i \in DOMAIN stack /\ i # Depth
      BY <1>2, <2>1
    <2> QED BY <1>5, <2>2, <2>3 DEF top
  <1> HIDE DEF a, Pop, Top, Depth
  <1>8. \A t, p : On(a, t, p) <=> On(Pop, t, p) \/ (t = Top.task /\ p = place)
    <2> SUFFICES ASSUME NEW t, NEW p
                 PROVE  On(a, t, p) <=> On(Pop, t, p) \/ (t = Top.task /\ p = place)
      OBVIOUS
    <2>1. On(a, t, p) <=> \/ \E i \in 1..(Depth - 1) : a[i].task = t /\ a[i].at = p
                          \/ a[Depth].task = t /\ a[Depth].at = p
      BY <1>2, <1>6 DEF On
    <2>2. On(Pop, t, p) <=> \E i \in 1..(Depth - 1) : a[i].task = t /\ a[i].at = p
      BY <1>1, <1>7 DEF On
    <2>3. a[Depth].task = Top.task /\ a[Depth].at = place
      BY <1>4, <1>7
    <2> QED BY <2>1, <2>2, <2>3
  <1>9. TasksOnce(stack) => TasksOnce(a)
    <2>1. \A i \in 1..Depth : a[i].task = stack[i].task
      BY <1>2, <1>3, <1>4, <1>7
    <2> QED BY <1>3, <1>6, <2>1 DEF TasksOnce
  <1>10. a # << >>
    BY <1>1, <1>6
  <1> QED BY <1>6, <1>8, <1>9, <1>10 DEF a
----------------------------------------------------------------------------
(* The inductive invariant: where a task is says how far its story is.     *)

InQueue(t) == In(taskChan, t) \/ In(fastChan, t)
OnStack(t) == \E p \in {"taken", "running", "ended"} : On(stack, t, p)

Typed == TypeOK /\ (loop \in {"serveFast", "serveTask"} => rounds \in 1..2)

(* No task is twice in a channel or on the stack, a frame of the stack is  *)
(* a task's or a PumpUntil's, and nothing is executed while the loop ends. *)
Order ==
  /\ Distinct(taskChan) /\ Distinct(fastChan) /\ TasksOnce(stack)
  /\ \A p \in {"taken", "running", "ended"} : ~On(stack, None, p)
  /\ \A t \in Tasks, p \in {"check", "pump"} : ~On(stack, t, p)
  /\ stack # << >> => loop \notin Closing

Refusals == {<<"shutdown">>, <<"cancelled">>}

Story(t) ==
  /\ ~(In(taskChan, t) /\ In(fastChan, t))
  /\ InQueue(t) => ~OnStack(t)
  /\ caller[t] \in Fresh => /\ ~InQueue(t) /\ ~OnStack(t)
                            /\ runs[t] = 0 /\ reply[t] = << >> /\ told[t] = "none"
  /\ InQueue(t) \/ On(stack, t, "taken") => runs[t] = 0 /\ reply[t] = << >>
  /\ On(stack, t, "running") => runs[t] = 1 /\ reply[t] = << >>
  /\ runs[t] \in {0, 1}
  /\ reply[t] # << >> => IF runs[t] = 1 THEN reply[t] = <<"done">>
                                       ELSE reply[t] \in Refusals
  /\ told[t] # "none" => \/ reply[t] = <<told[t]>>
                         \/ told[t] = "shutdown" /\ Stopped /\ runs[t] = 0
                            /\ reply[t] = << >>
  /\ t \in SyncTasks /\ runs[t] = 1 /\ reply[t] = << >> => On(stack, t, "running")
  /\ caller[t] = "recheck" => Stopped
  /\ caller[t] \in {"waiting", "recheck"} => t \in SyncTasks

Inv == Typed /\ Order /\ \A t \in Tasks : Story(t)

(* The invariant says of every caller what AnswersAreTrue says: what its   *)
(* task's story tells it is what happened to the task.                     *)
THEOREM AnswersFromInv == Inv => AnswersAreTrue
  <1> SUFFICES ASSUME Inv, NEW t \in Tasks
               PROVE  /\ runs[t] <= 1
                      /\ Answer(t) = "done" => runs[t] = 1
                      /\ Answer(t) \in {"shutdown", "cancelled"} => runs[t] = 0
    BY DEF AnswersAreTrue
  <1>1. Story(t) /\ runs[t] \in {0, 1}
    BY DEF Inv, Story
  <1>2. /\ \A o : <<o>> # << >> /\ <<o>>[1] = o
        /\ "done" # "shutdown" /\ "done" # "cancelled" /\ "done" # "none"
    OBVIOUS
  <1>3. \/ reply[t] = << >>
        \/ reply[t] = <<"done">> /\ runs[t] = 1
        \/ reply[t] \in Refusals /\ runs[t] = 0
    BY <1>1 DEF Story
  <1>4. CASE t \in SyncTasks
    <2>1. Answer(t) = told[t]
      BY <1>4 DEF Answer
    <2>2. told[t] = "none" \/ reply[t] = <<told[t]>> \/ (told[t] = "shutdown" /\ runs[t] = 0)
      BY <1>1 DEF Story
    <2>3. reply[t] = <<told[t]>> => reply[t][1] = told[t] /\ reply[t] # << >>
      BY <1>2
    <2> QED BY <1>1, <1>2, <1>3, <2>1, <2>2, <2>3 DEF Refusals
  <1>5. CASE t \notin SyncTasks
    BY <1>1, <1>2, <1>3, <1>5 DEF Answer, Refusals
  <1> QED BY <1>4, <1>5

(* Nothing is submitted, queued or running at first.                       *)
LEMMA InvInit == ASSUME Init PROVE Inv
  <1>1. /\ \A t : ~In(<< >>, t) /\ \A p : ~On(<< >>, t, p)
        /\ Distinct(<< >>) /\ TasksOnce(<< >>)
    BY DEF In, On, Distinct, TasksOnce
  <1>2. Typed
    <2>1. << >> \in Seq(Tasks) /\ << >> \in Seq(Frame) /\ Len(<< >>) = 0
      OBVIOUS
    <2>2. Len(<< >>) <= TaskCapacity /\ Len(<< >>) <= FastCapacity
      BY <2>1, DispatcherAssumption
    <2>3. /\ loop \in LoopPlaces /\ rounds \in 0..2 /\ loop \notin {"serveFast", "serveTask"}
          /\ "idle" \in CallerPlaces
      BY DispatcherAssumption DEF Init, LoopPlaces, CallerPlaces
    <2>4. /\ ctxDone \in [Tasks -> BOOLEAN] /\ fast \in [Tasks -> BOOLEAN]
          /\ caller \in [Tasks -> CallerPlaces] /\ told \in [Tasks -> Outcome \cup {"none"}]
          /\ reply \in [Tasks -> {<< >>} \cup {<<o>> : o \in Outcome}]
          /\ runs \in [Tasks -> Nat] /\ overtaken \in [Tasks -> Nat]
      BY <2>3 DEF Init
    <2> QED BY <2>1, <2>2, <2>3, <2>4 DEF Init, Typed, TypeOK
  <1>3. Order
    BY <1>1 DEF Init, Order
  <1>4. ASSUME NEW t \in Tasks PROVE Story(t)
    <2>1. /\ caller[t] = "idle" /\ reply[t] = << >> /\ told[t] = "none" /\ runs[t] = 0
          /\ "idle" # "recheck"
      BY DEF Init
    <2>2. ~InQueue(t) /\ ~OnStack(t) /\ ~In(taskChan, t) /\ \A p : ~On(stack, t, p)
      BY <1>1 DEF Init, InQueue, OnStack
    <2> QED BY <2>1, <2>2 DEF Story
  <1> QED BY <1>2, <1>3, <1>4 DEF Inv

----------------------------------------------------------------------------
(* Steps of the callers and the contexts: channels and stack stay.         *)

(* A step that leaves channels, stack, callers and answers alone.          *)
LEMMA StillStep ==
  ASSUME Inv, UNCHANGED <<chanVars, stack, caller, reply, told, runs>>,
         stack # << >> => loop' \notin Closing, Stopped => Stopped'
  PROVE  Order' /\ \A t \in Tasks : Story(t)'
  <1>1. Order'
    BY DEF Inv, Order, chanVars
  <1>2. ASSUME NEW t \in Tasks PROVE Story(t)'
    <2>1. Story(t)
      BY DEF Inv
    <2>2. InQueue(t)' = InQueue(t) /\ OnStack(t)' = OnStack(t)
      BY DEF InQueue, OnStack, chanVars
    <2> QED BY <2>1, <2>2 DEF Story, chanVars
  <1> QED BY <1>1, <1>2

(* A step of one caller or context only has that caller's story to tell.   *)
LEMMA CallerStep ==
  ASSUME Inv, NEW t \in Tasks, Story(t)',
         UNCHANGED <<chanVars, stack, runs, loop>>,
         \A u \in Tasks \ {t} : /\ caller'[u] = caller[u] /\ reply'[u] = reply[u]
                                /\ told'[u] = told[u]
  PROVE  Order' /\ \A u \in Tasks : Story(u)'
  <1>1. Order'
    BY DEF Inv, Order, chanVars
  <1>2. ASSUME NEW u \in Tasks \ {t} PROVE Story(u)'
    <2>1. Story(u)
      BY DEF Inv
    <2>2. InQueue(u)' = InQueue(u) /\ OnStack(u)' = OnStack(u) /\ Stopped' = Stopped
      BY DEF InQueue, OnStack, chanVars, Stopped
    <2>3. caller'[u] = caller[u] /\ reply'[u] = reply[u] /\ told'[u] = told[u]
      OBVIOUS
    <2> QED BY <2>1, <2>2, <2>3 DEF Story, chanVars
  <1> QED BY <1>1, <1>2

(* RunOnMain, RunOnMainFast and the async calls, up to their select.       *)
LEMMA SubmitStep ==
  ASSUME Inv, NEW t \in Tasks, NEW isFast \in BOOLEAN, Submit(t, isFast)
  PROVE  Inv'
  <1>1. /\ caller[t] = "idle" /\ runs[t] = 0 /\ reply[t] = << >> /\ told[t] = "none"
        /\ ~InQueue(t) /\ ~OnStack(t) /\ ~On(stack, t, "taken") /\ ~On(stack, t, "running")
    <2>1. Story(t) /\ caller[t] = "idle"
      BY DEF Inv, Submit
    <2> QED BY <2>1 DEF Story, Fresh, OnStack
  <1>2. Typed'
    <2>1. caller' \in [Tasks -> CallerPlaces] /\ fast' \in [Tasks -> BOOLEAN]
      BY DEF Inv, Typed, TypeOK, Submit, Goes, CallerPlaces
    <2>2. Append(<< >>, "cancelled") = <<"cancelled">>
      OBVIOUS
    <2>3. reply' \in [Tasks -> {<< >>} \cup {<<o>> : o \in Outcome}]
      BY <1>1, <2>2 DEF Inv, Typed, TypeOK, Submit, Send, Outcome
    <2> QED BY <2>1, <2>3 DEF Inv, Typed, TypeOK, Submit, chanVars, fdVars, loopVars, ctxVars
  <1>3. Story(t)'
    <2>1. InQueue(t)' = InQueue(t) /\ OnStack(t)' = OnStack(t)
      BY DEF Submit, InQueue, OnStack, chanVars
    <2>2. runs' = runs /\ told' = told /\ stack' = stack /\ taskChan' = taskChan /\ fastChan' = fastChan
      BY DEF Submit, chanVars
    <2>3. \/ caller'[t] = "sending" /\ reply'[t] = << >>
          \/ caller'[t] = "returned" /\ reply'[t] = <<"cancelled">>
      BY <1>1 DEF Submit, Goes, Send, Inv, Typed, TypeOK
    <2>4. <<"cancelled">> # << >> /\ "returned" \notin Fresh /\ "returned" # "recheck" /\ "sending" # "recheck"
      BY DEF Fresh
    <2>5. ~In(taskChan, t) /\ runs[t] \in {0, 1} /\ <<"cancelled">> \in Refusals
      BY <1>1 DEF InQueue, Refusals
    <2> QED BY <1>1, <2>1, <2>2, <2>3, <2>4, <2>5 DEF Story
  <1>4. \A u \in Tasks \ {t} : /\ caller'[u] = caller[u] /\ reply'[u] = reply[u]
                               /\ told'[u] = told[u]
    BY DEF Submit, Goes, Send, Inv, Typed, TypeOK
  <1>5. UNCHANGED <<chanVars, stack, runs, loop>>
    BY DEF Submit, loopVars
  <1> QED BY <1>2, <1>3, <1>4, <1>5, CallerStep DEF Inv

(* The select of a submission takes stopped or the context.                *)
LEMMA RefuseStep ==
  ASSUME Inv, NEW t \in Tasks, Refuse(t)
  PROVE  Inv'
  <1>1. /\ caller[t] = "sending" /\ runs[t] = 0 /\ reply[t] = << >> /\ told[t] = "none"
        /\ ~InQueue(t) /\ ~OnStack(t) /\ ~On(stack, t, "taken") /\ ~On(stack, t, "running")
        /\ ~In(taskChan, t)
    <2>1. Story(t) /\ caller[t] = "sending"
      BY DEF Inv, Refuse
    <2> QED BY <2>1 DEF Story, Fresh, OnStack, InQueue
  <1>2. /\ caller \in [Tasks -> CallerPlaces] /\ told \in [Tasks -> Outcome \cup {"none"}]
        /\ reply \in [Tasks -> {<< >>} \cup {<<o>> : o \in Outcome}]
    BY DEF Inv, Typed, TypeOK
  <1>3. /\ Append(<< >>, "cancelled") = <<"cancelled">> /\ <<"cancelled">> # << >>
        /\ Append(<< >>, "shutdown") = <<"shutdown">> /\ <<"shutdown">> # << >>
        /\ <<"cancelled">> \in Refusals /\ <<"shutdown">> \in Refusals
    BY DEF Refusals
  <1>4. /\ caller' = [caller EXCEPT ![t] = "returned"]
        /\ \/ reply' = reply /\ told' = [told EXCEPT ![t] = "shutdown"] /\ Stopped
           \/ told' = told /\ reply' = [reply EXCEPT ![t] = <<"shutdown">>]
           \/ told' = told /\ reply' = [reply EXCEPT ![t] = <<"cancelled">>]
    BY <1>1, <1>2, <1>3 DEF Refuse, Return, Goes, Send
  <1>5. Typed'
    <2>1. caller' \in [Tasks -> CallerPlaces] /\ told' \in [Tasks -> Outcome \cup {"none"}]
      BY <1>2, <1>4 DEF CallerPlaces, Outcome
    <2>2. reply' \in [Tasks -> {<< >>} \cup {<<o>> : o \in Outcome}]
      BY <1>2, <1>4 DEF Outcome
    <2> QED BY <2>1, <2>2 DEF Inv, Typed, TypeOK, Refuse, chanVars, fdVars, loopVars, ctxVars
  <1>6. Story(t)'
    <2>1. /\ InQueue(t)' = InQueue(t) /\ OnStack(t)' = OnStack(t) /\ Stopped' = Stopped
          /\ runs' = runs /\ stack' = stack /\ taskChan' = taskChan /\ fastChan' = fastChan
      BY DEF Refuse, InQueue, OnStack, Stopped, chanVars, loopVars
    <2>2. /\ caller'[t] = "returned" /\ "returned" \notin Fresh /\ "returned" # "recheck"
          /\ \/ reply'[t] = << >> /\ told'[t] = "shutdown" /\ Stopped
             \/ told'[t] = "none" /\ reply'[t] = <<"shutdown">>
             \/ told'[t] = "none" /\ reply'[t] = <<"cancelled">>
      BY <1>1, <1>2, <1>4 DEF Fresh
    <2> QED BY <1>1, <1>3, <2>1, <2>2 DEF Story
  <1>7. \A u \in Tasks \ {t} : /\ caller'[u] = caller[u] /\ reply'[u] = reply[u]
                               /\ told'[u] = told[u]
    BY <1>2, <1>4
  <1>8. UNCHANGED <<chanVars, stack, runs, loop>>
    BY DEF Refuse, loopVars
  <1> QED BY <1>5, <1>6, <1>7, <1>8, CallerStep DEF Inv

(* A caller that waits, wakes up the loop, or gets its answer.             *)
LEMMA WaitStep ==
  ASSUME Inv, NEW t \in Tasks, NEW place \in CallerPlaces \ Fresh,
         caller[t] \notin Fresh, Goes(t, place), place = "recheck" => Stopped,
         place = "waiting" \/ place = "recheck" => t \in SyncTasks,
         UNCHANGED <<chanVars, loopVars, ctxVars, stack, fast, reply, runs, overtaken>>,
         shutdownFD' = shutdownFD, taskFD' \in BOOLEAN, waker' = waker,
         quiet' \in SUBSET Tasks,
         \/ told' = told
         \/ /\ reply[t] # << >>
            /\ told' = [told EXCEPT ![t] = Head(reply[t])]
         \/ /\ told' = [told EXCEPT ![t] = "shutdown"]
            /\ Stopped /\ t \in SyncTasks /\ reply[t] = << >>
  PROVE  Inv'
  <1>1. Story(t) /\ Order
    BY DEF Inv
  <1>2. /\ caller \in [Tasks -> CallerPlaces] /\ told \in [Tasks -> Outcome \cup {"none"}]
        /\ reply \in [Tasks -> {<< >>} \cup {<<o>> : o \in Outcome}]
    BY DEF Inv, Typed, TypeOK
  <1>3. ASSUME reply[t] # << >>
        PROVE  Head(reply[t]) \in Outcome /\ reply[t] = <<Head(reply[t])>>
    <2>1. PICK o \in Outcome : reply[t] = <<o>>
      BY <1>2, <1>3
    <2> QED BY <2>1
  <1>4. caller' = [caller EXCEPT ![t] = place]
    BY DEF Goes
  <1>5. Typed'
    <2>1. caller' \in [Tasks -> CallerPlaces]
      BY <1>2, <1>4
    <2>2. told' \in [Tasks -> Outcome \cup {"none"}]
      BY <1>2, <1>3 DEF Outcome
    <2> QED BY <2>1, <2>2 DEF Inv, Typed, TypeOK, chanVars, loopVars, ctxVars
  <1>6. Story(t)'
    <2>1. /\ InQueue(t)' = InQueue(t) /\ OnStack(t)' = OnStack(t) /\ Stopped' = Stopped
          /\ runs' = runs /\ stack' = stack /\ taskChan' = taskChan /\ fastChan' = fastChan
          /\ reply' = reply
      BY DEF InQueue, OnStack, Stopped, chanVars, loopVars
    <2>2. caller'[t] = place
      BY <1>2, <1>4
    <2>3. CASE told' = told
      BY <1>1, <2>1, <2>2, <2>3 DEF Story
    <2>4. CASE reply[t] # << >> /\ told' = [told EXCEPT ![t] = Head(reply[t])]
      <3>1. reply'[t] = <<told'[t]>>
        BY <1>2, <1>3, <2>1, <2>4
      <3> QED BY <1>1, <2>1, <2>2, <3>1 DEF Story
    <2>5. CASE /\ told' = [told EXCEPT ![t] = "shutdown"]
               /\ Stopped /\ t \in SyncTasks /\ reply[t] = << >>
      <3>1. told'[t] = "shutdown"
        BY <1>2, <2>5
      <3>2. ~On(stack, t, "running")
        <4>1. Len(stack) = 0 => ~On(stack, t, "running")
          BY DEF On
        <4> QED BY <1>1, <2>5, <4>1 DEF Order, Stopped, Closing
      <3>3. runs[t] = 0
        BY <1>1, <2>5, <3>2 DEF Story
      <3> QED BY <1>1, <2>1, <2>2, <2>5, <3>1, <3>3 DEF Story
    <2> QED BY <2>3, <2>4, <2>5
  <1>7. \A u \in Tasks \ {t} : /\ caller'[u] = caller[u] /\ reply'[u] = reply[u]
                               /\ told'[u] = told[u]
    BY <1>2, <1>4
  <1>8. UNCHANGED <<chanVars, stack, runs, loop>>
    BY DEF loopVars
  <1> QED BY <1>5, <1>6, <1>7, <1>8, CallerStep DEF Inv

(* The four steps of a caller after it has enqueued its task.              *)
LEMMA CallWaitsStep ==
  ASSUME Inv, NEW t \in Tasks,
         ReadWaker(t) \/ WriteTaskFD(t) \/ Await(t) \/ Recheck(t)
  PROVE  Inv'
  <1>1. /\ Inv /\ caller \in [Tasks -> CallerPlaces] /\ quiet \in SUBSET Tasks
        /\ taskFD \in BOOLEAN
        /\ {"writing", "waiting", "recheck", "returned"} \subseteq CallerPlaces \ Fresh
        /\ {"waking", "writing", "waiting", "recheck"} \cap Fresh = {}
    BY DEF Inv, Typed, TypeOK, CallerPlaces, Fresh
  <1>2. CASE ReadWaker(t)
    <2>1. PICK place \in CallerPlaces \ Fresh :
            /\ Goes(t, place) /\ place # "recheck"
            /\ place = "waiting" => t \in SyncTasks
      BY <1>1, <1>2 DEF ReadWaker, Parked
    <2>2. quiet' \in SUBSET Tasks
      BY <1>1, <1>2 DEF ReadWaker
    <2>3. /\ UNCHANGED <<chanVars, loopVars, ctxVars, stack, fast, reply, runs, overtaken>>
          /\ shutdownFD' = shutdownFD /\ taskFD' \in BOOLEAN /\ waker' = waker /\ told' = told
          /\ caller[t] \notin Fresh
      BY <1>1, <1>2 DEF ReadWaker, fdVars
    <2> QED BY <2>1, <2>2, <2>3, WaitStep
  <1>3. CASE WriteTaskFD(t)
    <2>1. PICK place \in CallerPlaces \ Fresh :
            /\ Goes(t, place) /\ place # "recheck"
            /\ place = "waiting" => t \in SyncTasks
      BY <1>1, <1>3 DEF WriteTaskFD, Parked
    <2>2. taskFD' \in BOOLEAN
      BY <1>1, <1>3 DEF WriteTaskFD, Stopped
    <2>3. /\ UNCHANGED <<chanVars, loopVars, ctxVars, stack, fast, reply, runs, overtaken>>
          /\ shutdownFD' = shutdownFD /\ quiet' \in SUBSET Tasks /\ waker' = waker /\ told' = told
          /\ caller[t] \notin Fresh
      BY <1>1, <1>3 DEF WriteTaskFD, fdVars
    <2> QED BY <2>1, <2>2, <2>3, WaitStep
  <1>4. CASE Await(t)
    <2>1. /\ UNCHANGED <<chanVars, loopVars, ctxVars, stack, fast, reply, runs, overtaken>>
          /\ shutdownFD' = shutdownFD /\ quiet' \in SUBSET Tasks /\ waker' = waker
          /\ taskFD' \in BOOLEAN /\ caller[t] \notin Fresh
      BY <1>1, <1>4 DEF Await, fdVars
    <2>2. CASE reply[t] # << >> /\ Return(t, Head(reply[t]))
      <3>1. /\ Goes(t, "returned") /\ "returned" \in CallerPlaces \ Fresh /\ "returned" # "recheck"
            /\ told' = [told EXCEPT ![t] = Head(reply[t])] /\ "returned" # "waiting"
        BY <1>1, <2>2 DEF Return
      <3> QED BY <2>1, <2>2, <3>1, WaitStep
    <2>3. CASE Stopped /\ Goes(t, "recheck") /\ UNCHANGED told
      <3>1. "recheck" \in CallerPlaces \ Fresh /\ t \in SyncTasks
        BY <1>1, <1>4 DEF Await, Inv, Story
      <3> QED BY <2>1, <2>3, <3>1, WaitStep
    <2> QED BY <1>4, <2>2, <2>3 DEF Await
  <1>5. CASE Recheck(t) /\ t \in SyncTasks
    <2>1. /\ UNCHANGED <<chanVars, loopVars, ctxVars, stack, fast, reply, runs, overtaken>>
          /\ shutdownFD' = shutdownFD /\ quiet' \in SUBSET Tasks /\ waker' = waker
          /\ taskFD' \in BOOLEAN /\ caller[t] \notin Fresh
          /\ Goes(t, "returned") /\ "returned" \in CallerPlaces \ Fresh /\ "returned" # "recheck"
          /\ "returned" # "waiting"
      BY <1>1, <1>5 DEF Recheck, Return, fdVars
    <2>2. Stopped
      BY <1>5 DEF Inv, Story, Recheck
    <2>3. \/ reply[t] # << >> /\ told' = [told EXCEPT ![t] = Head(reply[t])]
          \/ reply[t] = << >> /\ told' = [told EXCEPT ![t] = "shutdown"]
      BY <1>5 DEF Recheck, Return
    <2> QED BY <1>5, <2>1, <2>2, <2>3, WaitStep
  <1>6. Recheck(t) => t \in SyncTasks
    BY DEF Inv, Story, Recheck
  <1> QED BY <1>2, <1>3, <1>4, <1>5, <1>6

(* A step that touches one task only has that task's story to tell.        *)
LEMMA OneTaskStep ==
  ASSUME Inv, NEW t \in Tasks, Story(t)', Stopped => Stopped',
         \A u \in Tasks \ {t} :
           /\ In(taskChan', u) <=> In(taskChan, u)
           /\ In(fastChan', u) <=> In(fastChan, u)
           /\ \A p \in {"taken", "running", "ended"} : On(stack', u, p) <=> On(stack, u, p)
           /\ caller'[u] = caller[u] /\ reply'[u] = reply[u]
           /\ told'[u] = told[u] /\ runs'[u] = runs[u]
  PROVE  \A u \in Tasks : Story(u)'
  <1> SUFFICES ASSUME NEW u \in Tasks \ {t} PROVE Story(u)'
    OBVIOUS
  <1>1. Story(u)
    BY DEF Inv
  <1>2. (InQueue(u)' <=> InQueue(u)) /\ (OnStack(u)' <=> OnStack(u))
    BY DEF InQueue, OnStack
  <1> QED BY <1>1, <1>2 DEF Story

(* The select of a submission puts the task into its channel.              *)
LEMMA EnqueueStep ==
  ASSUME Inv, NEW t \in Tasks, Enqueue(t)
  PROVE  Inv'
  <1>1. /\ caller[t] = "sending" /\ runs[t] = 0 /\ reply[t] = << >> /\ told[t] = "none"
        /\ ~In(taskChan, t) /\ ~In(fastChan, t)
        /\ \A p \in {"taken", "running", "ended"} : ~On(stack, t, p)
    <2>1. Story(t) /\ caller[t] = "sending"
      BY DEF Inv, Enqueue
    <2> QED BY <2>1 DEF Story, Fresh, OnStack, InQueue
  <1>2. /\ taskChan \in Seq(Tasks) /\ fastChan \in Seq(Tasks) /\ Distinct(taskChan)
        /\ Distinct(fastChan) /\ Len(taskChan) <= TaskCapacity /\ Len(fastChan) <= FastCapacity
        /\ caller \in [Tasks -> CallerPlaces]
    BY DEF Inv, Typed, TypeOK, Order
  <1>3. /\ taskChan' \in Seq(Tasks) /\ fastChan' \in Seq(Tasks)
        /\ Distinct(taskChan') /\ Distinct(fastChan')
        /\ Len(taskChan') <= TaskCapacity /\ Len(fastChan') <= FastCapacity
        /\ \A u \in Tasks \ {t} : /\ In(taskChan', u) <=> In(taskChan, u)
                                  /\ In(fastChan', u) <=> In(fastChan, u)
        /\ ~In(taskChan', t) \/ ~In(fastChan', t)
    <2>1. CASE /\ fastChan' = Append(fastChan, t) /\ Len(fastChan) < FastCapacity
               /\ UNCHANGED taskChan
      <3>1. /\ fastChan' \in Seq(Tasks) /\ Len(fastChan') = Len(fastChan) + 1
            /\ \A u : In(fastChan', u) <=> In(fastChan, u) \/ u = t
            /\ Distinct(fastChan')
        BY <1>1, <1>2, <2>1, InAppend
      <3>2. Len(fastChan') <= FastCapacity
        BY <1>2, <2>1, <3>1, DispatcherAssumption
      <3> QED BY <1>1, <1>2, <2>1, <3>1, <3>2
    <2>2. CASE /\ taskChan' = Append(taskChan, t) /\ Len(taskChan) < TaskCapacity
               /\ UNCHANGED fastChan
      <3>1. /\ taskChan' \in Seq(Tasks) /\ Len(taskChan') = Len(taskChan) + 1
            /\ \A u : In(taskChan', u) <=> In(taskChan, u) \/ u = t
            /\ Distinct(taskChan')
        BY <1>1, <1>2, <2>2, InAppend
      <3>2. Len(taskChan') <= TaskCapacity
        BY <1>2, <2>2, <3>1, DispatcherAssumption
      <3> QED BY <1>1, <1>2, <2>2, <3>1, <3>2
    <2> QED BY <2>1, <2>2 DEF Enqueue
  <1>4. /\ caller' = [caller EXCEPT ![t] = "waking"] /\ caller'[t] = "waking"
        /\ caller' \in [Tasks -> CallerPlaces]
        /\ \A u \in Tasks \ {t} : caller'[u] = caller[u]
    BY <1>2 DEF Enqueue, Goes, CallerPlaces
  <1>5. Typed'
    BY <1>3, <1>4 DEF Inv, Typed, TypeOK, Enqueue, fdVars, loopVars, ctxVars
  <1>6. Order'
    BY <1>3 DEF Inv, Order, Enqueue, loopVars
  <1>7. Story(t)'
    <2>1. /\ runs' = runs /\ reply' = reply /\ told' = told /\ stack' = stack
          /\ "waking" \notin Fresh \cup {"recheck", "waiting"}
      BY DEF Enqueue, Fresh
    <2>2. ~OnStack(t)' /\ ~On(stack', t, "taken") /\ ~On(stack', t, "running")
      BY <1>1, <2>1 DEF OnStack
    <2> QED BY <1>1, <1>3, <1>4, <2>1, <2>2 DEF Story
  <1>8. \A u \in Tasks : Story(u)'
    <2>1. Stopped' = Stopped /\ stack' = stack /\ runs' = runs /\ reply' = reply /\ told' = told
      BY DEF Enqueue, Stopped, loopVars
    <2> QED BY <1>3, <1>4, <1>7, <2>1, OneTaskStep
  <1> QED BY <1>5, <1>6, <1>8 DEF Inv

(* A context is cancelled, or its goroutine wakes up the loop.             *)
LEMMA ContextStep ==
  ASSUME Inv, (\E t \in AsyncTasks : CancelTask(t)) \/ Cancel \/ WriteShutdownFD
  PROVE  Inv'
  <1>1. /\ UNCHANGED <<chanVars, stack, caller, reply, told, runs, loop>>
        /\ UNCHANGED <<fast, quiet, overtaken, rounds, taskFD, waker>>
    BY DEF CancelTask, Cancel, WriteShutdownFD, chanVars, fdVars, callVars, loopVars
  <1>2. /\ cancelled' \in BOOLEAN /\ ctxDone' \in [Tasks -> BOOLEAN]
        /\ shutdownFD' \in BOOLEAN
    BY DEF CancelTask, Cancel, WriteShutdownFD, fdVars, ctxVars, Inv, Typed, TypeOK
  <1>3. Typed'
    BY <1>1, <1>2 DEF Inv, Typed, TypeOK, chanVars
  <1>4. (stack # << >> => loop' \notin Closing) /\ (Stopped => Stopped')
    BY <1>1 DEF Inv, Order, Stopped
  <1> QED BY <1>1, <1>3, <1>4, StillStep DEF Inv

----------------------------------------------------------------------------
(* Steps of the Golden Thread: a receive, an execution, the loops.         *)

(* What a receive from channel q does.                                     *)
LEMMA ReceiveStep ==
  ASSUME Inv, NEW frames \in Seq(Frame), TasksOnce(frames),
         \A t \in Tasks, p \in {"taken", "running", "ended", "check", "pump"} :
            On(frames, t, p) <=> On(stack, t, p),
         \A p \in {"taken", "running", "ended"} : ~On(frames, None, p),
         TakeFast(frames) \/ TakeTask(frames),
         loop' \notin Closing, Stopped => Stopped',
         UNCHANGED <<caller, reply, told, runs>>
  PROVE  /\ taskChan' \in Seq(Tasks) /\ Len(taskChan') <= TaskCapacity
         /\ fastChan' \in Seq(Tasks) /\ Len(fastChan') <= FastCapacity
         /\ stack' \in Seq(Frame)
         /\ overtaken' \in [Tasks -> Nat]
         /\ Order' /\ \A t \in Tasks : Story(t)'
  <1>1. /\ taskChan \in Seq(Tasks) /\ fastChan \in Seq(Tasks) /\ Distinct(taskChan)
        /\ Distinct(fastChan) /\ Len(taskChan) <= TaskCapacity /\ Len(fastChan) <= FastCapacity
        /\ overtaken \in [Tasks -> Nat]
    BY DEF Inv, Typed, TypeOK, Order
  <1>2. PICK t \in Tasks :
          /\ InQueue(t) /\ ~In(taskChan', t) /\ ~In(fastChan', t)
          /\ \A u \in Tasks \ {t} : /\ In(taskChan', u) <=> In(taskChan, u)
                                    /\ In(fastChan', u) <=> In(fastChan, u)
          /\ taskChan' \in Seq(Tasks) /\ Len(taskChan') <= TaskCapacity
          /\ fastChan' \in Seq(Tasks) /\ Len(fastChan') <= FastCapacity
          /\ Distinct(taskChan') /\ Distinct(fastChan')
          /\ stack' = Append(frames, [task |-> t, at |-> "taken", for |-> None])
          /\ overtaken' \in [Tasks -> Nat]
    <2>1. CASE TakeFast(frames)
      <3>1. /\ fastChan # << >> /\ fastChan' = Tail(fastChan) /\ taskChan' = taskChan
            /\ overtaken' = overtaken
            /\ stack' = Append(frames, [task |-> Head(fastChan), at |-> "taken", for |-> None])
        BY <2>1 DEF TakeFast, Push
      <3>2. /\ fastChan' \in Seq(Tasks) /\ Len(fastChan') = Len(fastChan) - 1
            /\ Head(fastChan) \in Tasks /\ In(fastChan, Head(fastChan))
            /\ \A u : In(fastChan', u) <=> In(fastChan, u) /\ u # Head(fastChan)
            /\ Distinct(fastChan')
        BY <1>1, <3>1, InTail
      <3>3. Len(fastChan') <= FastCapacity
        BY <1>1, <3>2, DispatcherAssumption
      <3>4. ~In(taskChan, Head(fastChan))
        BY <3>2 DEF Inv, Story
      <3> QED BY <1>1, <3>1, <3>2, <3>3, <3>4 DEF InQueue
    <2>2. CASE TakeTask(frames)
      <3>1. /\ taskChan # << >> /\ taskChan' = Tail(taskChan) /\ fastChan' = fastChan
            /\ stack' = Append(frames, [task |-> Head(taskChan), at |-> "taken", for |-> None])
        BY <2>2 DEF TakeTask, Push
      <3>2. /\ taskChan' \in Seq(Tasks) /\ Len(taskChan') = Len(taskChan) - 1
            /\ Head(taskChan) \in Tasks /\ In(taskChan, Head(taskChan))
            /\ \A u : In(taskChan', u) <=> In(taskChan, u) /\ u # Head(taskChan)
            /\ Distinct(taskChan')
        BY <1>1, <3>1, InTail
      <3>3. Len(taskChan') <= TaskCapacity
        BY <1>1, <3>2, DispatcherAssumption
      <3>4. ~In(fastChan, Head(taskChan))
        BY <3>2 DEF Inv, Story
      <3>5. overtaken' \in [Tasks -> Nat]
        <4> DEFINE more(t) == IF /\ stack = << >>
                                 /\ \E i \in 1..Len(fastChan) : fastChan[i] = t
                              THEN 1 ELSE 0
        <4>1. overtaken' = [t \in Tasks |-> overtaken[t] + more(t)]
          BY <2>2 DEF TakeTask
        <4>2. \A t \in Tasks : more(t) \in Nat /\ overtaken[t] \in Nat
          BY <1>1
        <4> HIDE DEF more
        <4>3. \A t \in Tasks : overtaken[t] + more(t) \in Nat
          BY <4>2
        <4> QED BY <4>1, <4>3
      <3> QED BY <1>1, <3>1, <3>2, <3>3, <3>4, <3>5 DEF InQueue
    <2> QED BY <2>1, <2>2
  <1>3. [task |-> t, at |-> "taken", for |-> None] \in Frame /\ t # None
    BY DispatcherAssumption DEF Frame
  <1>4. /\ \A p \in {"taken", "running", "ended"} : ~On(stack, t, p)
        /\ runs[t] = 0 /\ reply[t] = << >> /\ Story(t)
    BY <1>2 DEF Inv, Story, OnStack
  <1>5. /\ stack' \in Seq(Frame) /\ stack' # << >>
        /\ \A u, p : On(stack', u, p) <=> On(frames, u, p) \/ (t = u /\ "taken" = p)
    BY <1>2, <1>3, OnPush
  <1>6. TasksOnce(stack')
    <2>1. \A p : ~On(frames, t, p)
      <3>1. \A p \in {"taken", "running", "ended", "check", "pump"} : ~On(frames, t, p)
        BY <1>4 DEF Inv, Order
      <3>2. \A p : On(frames, t, p) => p \in {"taken", "running", "ended", "check", "pump"}
        <4>1. \A i \in 1..Len(frames) : frames[i] \in Frame
          OBVIOUS
        <4>2. \A f \in Frame : f.at \in {"taken", "running", "ended", "check", "pump"}
          BY DEF Frame
        <4> QED BY <4>1, <4>2 DEF On
      <3> QED BY <3>1, <3>2
    <2> QED BY <1>2, <1>3, <2>1, OnPush
  <1>7. Order'
    <2>1. /\ \A p \in {"taken", "running", "ended"} : ~On(stack', None, p)
          /\ \A u \in Tasks, p \in {"check", "pump"} : ~On(stack', u, p)
      BY <1>3, <1>5 DEF Inv, Order
    <2> QED BY <1>2, <1>6, <2>1 DEF Order
  <1>8. Story(t)'
    <2>1. On(stack', t, "taken") /\ ~On(stack', t, "running") /\ ~InQueue(t)'
      BY <1>2, <1>4, <1>5 DEF InQueue
    <2>2. caller[t] \notin Fresh
      BY <1>2, <1>4 DEF Story
    <2> QED BY <1>2, <1>4, <2>1, <2>2 DEF Story
  <1>9. \A u \in Tasks : Story(u)'
    <2>1. \A u \in Tasks \ {t}, p \in {"taken", "running", "ended"} :
            On(stack', u, p) <=> On(stack, u, p)
      BY <1>5
    <2> QED BY <1>2, <1>8, <2>1, OneTaskStep
  <1> QED BY <1>2, <1>5, <1>7, <1>9

(* The loops' receives put a frame on an empty stack, PumpUntil's on a     *)
(* waiting one.                                                            *)
LEMMA LoopReceiveStep ==
  ASSUME Inv, TakeFast(stack) \/ TakeTask(stack), loop \notin Closing, loop' \notin Closing,
         loop' \in LoopPlaces, rounds' = rounds,
         loop' \in {"serveFast", "serveTask"} => loop \in {"serveFast", "serveTask"},
         UNCHANGED loopFrame
  PROVE  Inv'
  <1>1. stack \in Seq(Frame) /\ TasksOnce(stack)
        /\ \A p \in {"taken", "running", "ended"} : ~On(stack, None, p)
    BY DEF Inv, Typed, TypeOK, Order
  <1>2. ~Stopped /\ UNCHANGED <<caller, reply, told, runs>>
    BY DEF Stopped, Closing, loopFrame, callVars
  <1>3. /\ taskChan' \in Seq(Tasks) /\ Len(taskChan') <= TaskCapacity
        /\ fastChan' \in Seq(Tasks) /\ Len(fastChan') <= FastCapacity
        /\ stack' \in Seq(Frame)
        /\ overtaken' \in [Tasks -> Nat]
        /\ Order' /\ \A t \in Tasks : Story(t)'
    BY <1>1, <1>2, ReceiveStep
  <1>4. Typed'
    BY <1>3 DEF Inv, Typed, TypeOK, loopFrame, fdVars, callVars, ctxVars
  <1> QED BY <1>3, <1>4 DEF Inv

(* Whose the innermost frame is.                                           *)
LEMMA TopOwner ==
  ASSUME Inv, stack # << >>
  PROVE  /\ stack \in Seq(Frame) /\ Top \in Frame /\ loop \notin Closing
         /\ Top.at \in {"taken", "running", "ended"} => Top.task \in Tasks
         /\ Top.at \in {"check", "pump"} => Top.task = None
         /\ On(stack, Top.task, Top.at)
  <1>1. stack \in Seq(Frame) /\ Order
    BY DEF Inv, Typed, TypeOK
  <1>2. Top \in Frame /\ On(stack, Top.task, Top.at)
    BY <1>1, OnPop
  <1>3. Top.task \in Tasks \cup {None}
    BY <1>2 DEF Frame
  <1> QED BY <1>1, <1>2, <1>3 DEF Order

(* Removing or moving the innermost frame leaves the others alone.         *)
LEMMA PopStep ==
  ASSUME Inv, stack # << >>, stack' = Pop
  PROVE  /\ stack' \in Seq(Frame) /\ TasksOnce(stack')
         /\ \A p \in {"taken", "running", "ended"} : ~On(stack', None, p)
         /\ \A u \in Tasks, p \in {"check", "pump"} : ~On(stack', u, p)
         /\ \A u \in Tasks : \A p : u # Top.task => (On(stack', u, p) <=> On(stack, u, p))
         /\ Top.task # None => \A p : ~On(stack', Top.task, p)
  <1>1. stack \in Seq(Frame) /\ Order
    BY DEF Inv, Typed, TypeOK
  <1>2. /\ Pop \in Seq(Frame)
        /\ \A t, p : On(Pop, t, p) => On(stack, t, p)
        /\ \A t, p : On(stack, t, p) => On(Pop, t, p) \/ (t = Top.task /\ p = Top.at)
        /\ Top.task # None => \A p : ~On(Pop, Top.task, p)
        /\ TasksOnce(Pop)
    BY <1>1, OnPop DEF Order
  <1> QED BY <1>1, <1>2 DEF Order

(* The innermost frame goes to another place.                              *)
LEMMA AtStep ==
  ASSUME Inv, stack # << >>,
         NEW place \in {"taken", "running", "ended", "check", "pump"}, stack' = At(place),
         Top.task = None <=> place \in {"check", "pump"}
  PROVE  /\ stack' \in Seq(Frame) /\ TasksOnce(stack') /\ stack' # << >>
         /\ \A p \in {"taken", "running", "ended"} : ~On(stack', None, p)
         /\ \A u \in Tasks, p \in {"check", "pump"} : ~On(stack', u, p)
         /\ \A u \in Tasks : \A p : u # Top.task => (On(stack', u, p) <=> On(stack, u, p))
         /\ Top.task # None => \A p : On(stack', Top.task, p) <=> p = place
  <1>1. stack \in Seq(Frame) /\ Order
    BY DEF Inv, Typed, TypeOK
  <1>2. /\ \A t, p : On(Pop, t, p) => On(stack, t, p)
        /\ \A t, p : On(stack, t, p) => On(Pop, t, p) \/ (t = Top.task /\ p = Top.at)
        /\ Top.task # None => \A p : ~On(Pop, Top.task, p)
    BY <1>1, OnPop DEF Order
  <1>3. /\ At(place) \in Seq(Frame) /\ TasksOnce(At(place)) /\ At(place) # << >>
        /\ \A t, p : On(At(place), t, p) <=> On(Pop, t, p) \/ (t = Top.task /\ p = place)
    BY <1>1, OnAt DEF Order
  <1>4. stack' = At(place)
    OBVIOUS
  <1> HIDE DEF At, Pop, Top
  <1>5. /\ \A p \in {"taken", "running", "ended"} : ~On(stack', None, p)
        /\ \A u \in Tasks, p \in {"check", "pump"} : ~On(stack', u, p)
    <2>1. {"taken", "running", "ended"} \cap {"check", "pump"} = {} /\ None \notin Tasks
      BY DispatcherAssumption
    <2> QED BY <1>1, <1>2, <1>3, <1>4, <2>1 DEF Order
  <1> QED BY <1>1, <1>2, <1>3, <1>4, <1>5

(* executeTask looks at the task's context, and runs or rejects it.        *)
LEMMA StartStep ==
  ASSUME Inv, Start
  PROVE  Inv'
  <1>0. PICK t \in Tasks : t = Top.task
    BY TopOwner DEF Start
  <1>1. /\ stack # << >> /\ Top.at = "taken" /\ t \in Tasks /\ t # None
        /\ On(stack, t, "taken") /\ loop \notin Closing /\ ~Stopped
    BY <1>0, TopOwner, DispatcherAssumption DEF Start, Stopped, Closing
  <1>2. /\ Story(t) /\ runs[t] = 0 /\ reply[t] = << >> /\ told[t] = "none"
        /\ ~InQueue(t) /\ caller[t] \notin Fresh
    <2>1. Story(t) /\ OnStack(t)
      BY <1>1 DEF Inv, OnStack
    <2>2. runs[t] = 0 /\ reply[t] = << >> /\ ~InQueue(t) /\ caller[t] \notin Fresh
      BY <1>1, <2>1 DEF Story
    <2>3. told[t] = "none"
      <3>1. << >> # <<told[t]>>
        OBVIOUS
      <3> QED BY <1>1, <2>1, <2>2, <3>1 DEF Story
    <2> QED BY <2>1, <2>2, <2>3
  <1>3. /\ runs \in [Tasks -> Nat] /\ reply \in [Tasks -> {<< >>} \cup {<<o>> : o \in Outcome}]
    BY DEF Inv, Typed, TypeOK
  <1>4. /\ UNCHANGED <<taskChan, fastChan, loop, rounds, caller, told, overtaken>>
        /\ Stopped' = Stopped
    BY DEF Start, chanVars, loopVars, callVars, Stopped
  <1>5. \/ /\ stack' = Pop /\ runs' = runs
           /\ reply' = [reply EXCEPT ![t] = <<"cancelled">>]
        \/ /\ stack' = At("running") /\ reply' = reply
           /\ runs' = [runs EXCEPT ![t] = 1]
    <2>1. Append(<< >>, "cancelled") = <<"cancelled">> /\ 0 + 1 = 1
      OBVIOUS
    <2> QED BY <1>0, <1>2, <1>3, <2>1 DEF Start, Send
  <1>6. /\ stack' \in Seq(Frame) /\ TasksOnce(stack')
        /\ \A p \in {"taken", "running", "ended"} : ~On(stack', None, p)
        /\ \A u \in Tasks, p \in {"check", "pump"} : ~On(stack', u, p)
        /\ \A u \in Tasks : \A p : u # t => (On(stack', u, p) <=> On(stack, u, p))
        /\ stack' = Pop => \A p : ~On(stack', t, p)
        /\ stack' = At("running") => \A p : On(stack', t, p) <=> p = "running"
    <2>1. Top.task = None <=> "running" \in {"check", "pump"}
      BY <1>0, <1>1
    <2> QED BY <1>0, <1>1, <1>5, <2>1, PopStep, AtStep
  <1>7. /\ runs' \in [Tasks -> Nat] /\ reply' \in [Tasks -> {<< >>} \cup {<<o>> : o \in Outcome}]
        /\ \A u \in Tasks \ {t} : runs'[u] = runs[u] /\ reply'[u] = reply[u]
    BY <1>3, <1>5 DEF Outcome
  <1>8. Typed'
    BY <1>4, <1>6, <1>7 DEF Inv, Typed, TypeOK, Start, fdVars, callVars, ctxVars
  <1>9. Order'
    BY <1>1, <1>4, <1>6 DEF Inv, Order
  <1>10. Story(t)'
    <2>1. ~In(taskChan', t) /\ ~In(fastChan', t)
      BY <1>2, <1>4 DEF InQueue
    <2>2. ~InQueue(t)' /\ caller'[t] \notin Fresh /\ told'[t] = "none"
      BY <1>2, <1>4, <2>1 DEF InQueue
    <2>3. caller'[t] = caller[t] /\ Stopped' = Stopped
      BY <1>4
    <2>4. CASE stack' = Pop /\ runs' = runs /\ reply' = [reply EXCEPT ![t] = <<"cancelled">>]
      <3>1. reply'[t] = <<"cancelled">> /\ runs'[t] = 0 /\ \A p : ~On(stack', t, p)
        BY <1>1, <1>2, <1>3, <1>6, <2>4
      <3>2. <<"cancelled">> \in Refusals
        BY DEF Refusals
      <3> QED BY <1>2, <2>1, <2>2, <2>3, <3>1, <3>2 DEF Story
    <2>5. CASE stack' = At("running") /\ reply' = reply /\ runs' = [runs EXCEPT ![t] = 1]
      <3>1. reply'[t] = << >> /\ runs'[t] = 1 /\ \A p : On(stack', t, p) <=> p = "running"
        BY <1>1, <1>2, <1>3, <1>6, <2>5
      <3> QED BY <1>2, <2>1, <2>2, <2>3, <3>1 DEF Story
    <2> QED BY <1>5, <2>4, <2>5
  <1>11. \A u \in Tasks : Story(u)'
    BY <1>1, <1>4, <1>6, <1>7, <1>10, OneTaskStep
  <1> QED BY <1>8, <1>9, <1>11 DEF Inv

(* The task's function returns or panics, and its caller is answered.      *)
LEMMA FinishStep ==
  ASSUME Inv, Finish
  PROVE  Inv'
  <1>0. PICK t \in Tasks : t = Top.task
    BY TopOwner DEF Finish
  <1>1. /\ stack # << >> /\ Top.at = "running" /\ t \in Tasks /\ t # None
        /\ On(stack, t, "running") /\ loop \notin Closing /\ ~Stopped
    BY <1>0, TopOwner, DispatcherAssumption DEF Finish, Stopped, Closing
  <1>2. /\ Story(t) /\ runs[t] = 1 /\ reply[t] = << >> /\ told[t] = "none"
        /\ ~InQueue(t) /\ caller[t] \notin Fresh
    <2>1. Story(t) /\ OnStack(t)
      BY <1>1 DEF Inv, OnStack
    <2>2. runs[t] = 1 /\ reply[t] = << >> /\ ~InQueue(t) /\ caller[t] \notin Fresh
      BY <1>1, <2>1 DEF Story
    <2>3. told[t] = "none"
      <3>1. << >> # <<told[t]>>
        OBVIOUS
      <3> QED BY <1>1, <2>1, <2>2, <3>1 DEF Story
    <2> QED BY <2>1, <2>2, <2>3
  <1>3. reply \in [Tasks -> {<< >>} \cup {<<o>> : o \in Outcome}]
    BY DEF Inv, Typed, TypeOK
  <1>4. /\ UNCHANGED <<taskChan, fastChan, loop, rounds, caller, told, overtaken, runs>>
        /\ Stopped' = Stopped /\ stack' = At("ended")
    BY DEF Finish, chanVars, loopVars, callVars, Stopped
  <1>5. \/ reply' = [reply EXCEPT ![t] = <<"done">>]
        \/ t \in AsyncTasks /\ reply' = reply
    <2>1. Append(<< >>, "done") = <<"done">>
      OBVIOUS
    <2> QED BY <1>0, <1>2, <1>3, <2>1 DEF Finish, Send
  <1>6. /\ stack' \in Seq(Frame) /\ TasksOnce(stack')
        /\ \A p \in {"taken", "running", "ended"} : ~On(stack', None, p)
        /\ \A u \in Tasks, p \in {"check", "pump"} : ~On(stack', u, p)
        /\ \A u \in Tasks : \A p : u # t => (On(stack', u, p) <=> On(stack, u, p))
        /\ \A p : On(stack', t, p) <=> p = "ended"
    <2>1. Top.task = None <=> "ended" \in {"check", "pump"}
      BY <1>0, <1>1
    <2> QED BY <1>0, <1>1, <1>4, <2>1, AtStep
  <1>7. /\ reply' \in [Tasks -> {<< >>} \cup {<<o>> : o \in Outcome}]
        /\ \A u \in Tasks \ {t} : reply'[u] = reply[u]
    BY <1>3, <1>5 DEF Outcome
  <1>8. Typed'
    BY <1>4, <1>6, <1>7 DEF Inv, Typed, TypeOK, Finish, fdVars, callVars, ctxVars
  <1>9. Order'
    BY <1>1, <1>4, <1>6 DEF Inv, Order
  <1>10. Story(t)'
    <2>1. ~In(taskChan', t) /\ ~In(fastChan', t)
      BY <1>2, <1>4 DEF InQueue
    <2>2. /\ ~InQueue(t)' /\ caller'[t] \notin Fresh /\ told'[t] = "none" /\ runs'[t] = 1
          /\ caller'[t] = caller[t]
      BY <1>2, <1>4, <2>1 DEF InQueue
    <2>3. ~On(stack', t, "taken") /\ ~On(stack', t, "running")
      BY <1>6
    <2>4. reply'[t] = <<"done">> \/ (t \notin SyncTasks /\ reply'[t] = << >>)
      BY <1>1, <1>2, <1>3, <1>5, DispatcherAssumption
    <2> QED BY <1>2, <1>4, <2>1, <2>2, <2>3, <2>4 DEF Story
  <1>11. \A u \in Tasks : Story(u)'
    BY <1>1, <1>4, <1>6, <1>7, <1>10, OneTaskStep
  <1> QED BY <1>8, <1>9, <1>11 DEF Inv

(* A frame that is left, or moves, and belongs to nobody's story.          *)
LEMMA FrameStep ==
  ASSUME Inv,
         UNCHANGED <<chanVars, fdVars, loopVars, callVars, ctxVars, reply, runs, overtaken>>,
         stack' \in Seq(Frame), TasksOnce(stack'), stack' # << >> => loop \notin Closing,
         \A p \in {"taken", "running", "ended"} : ~On(stack', None, p),
         \A u \in Tasks, p \in {"check", "pump"} : ~On(stack', u, p),
         \A u \in Tasks, p \in {"taken", "running"} : On(stack', u, p) <=> On(stack, u, p),
         \A u \in Tasks : On(stack', u, "ended") => On(stack, u, "ended")
  PROVE  Inv'
  <1>1. Typed'
    BY DEF Inv, Typed, TypeOK, chanVars, fdVars, loopVars, callVars, ctxVars
  <1>2. Order'
    BY DEF Inv, Order, chanVars, loopVars
  <1>3. ASSUME NEW u \in Tasks PROVE Story(u)'
    <2>1. Story(u)
      BY DEF Inv
    <2>2. /\ taskChan' = taskChan /\ fastChan' = fastChan /\ InQueue(u)' = InQueue(u)
          /\ OnStack(u)' => OnStack(u)
      BY DEF chanVars, InQueue, OnStack
    <2>3. Stopped' = Stopped /\ UNCHANGED <<caller, told, reply, runs>>
      BY DEF Stopped, loopVars, callVars
    <2>4. On(stack', u, "taken") <=> On(stack, u, "taken")
      OBVIOUS
    <2>5. On(stack', u, "running") <=> On(stack, u, "running")
      OBVIOUS
    <2> QED BY <2>1, <2>2, <2>3, <2>4, <2>5 DEF Story
  <1> QED BY <1>1, <1>2, <1>3 DEF Inv

(* OnTaskEnd, and the frame of the task is left.                           *)
LEMMA EndStep ==
  ASSUME Inv, End
  PROVE  Inv'
  <1>1. /\ stack # << >> /\ stack' = Pop /\ Top.at = "ended" /\ Top.task \in Tasks
        /\ loop \notin Closing /\ Top.task # None /\ On(stack, Top.task, "ended")
    BY TopOwner, DispatcherAssumption DEF End
  <1>2. ~On(stack, Top.task, "taken") /\ ~On(stack, Top.task, "running")
    <2>1. stack \in Seq(Frame) /\ TasksOnce(stack)
      BY DEF Inv, Typed, TypeOK, Order
    <2>2. \A p : On(stack, Top.task, p) => p = Top.at
      BY <1>1, <2>1, OnPop
    <2> QED BY <1>1, <2>2
  <1>3. /\ stack' \in Seq(Frame) /\ TasksOnce(stack')
        /\ \A p \in {"taken", "running", "ended"} : ~On(stack', None, p)
        /\ \A u \in Tasks, p \in {"check", "pump"} : ~On(stack', u, p)
        /\ \A u \in Tasks : \A p : u # Top.task => (On(stack', u, p) <=> On(stack, u, p))
        /\ \A p : ~On(stack', Top.task, p)
    BY <1>1, PopStep
  <1>4. UNCHANGED <<chanVars, fdVars, loopVars, callVars, ctxVars, reply, runs, overtaken>>
    BY DEF End
  <1>5. \A u \in Tasks, p \in {"taken", "running"} : On(stack', u, p) <=> On(stack, u, p)
    BY <1>2, <1>3
  <1>6. \A u \in Tasks : On(stack', u, "ended") => On(stack, u, "ended")
    BY <1>3
  <1> QED BY <1>1, <1>3, <1>4, <1>5, <1>6, FrameStep

(* A running task waits for a goroutine it has spawned.                    *)
LEMMA PumpUntilStep ==
  ASSUME Inv, NEW u \in Spawned, PumpUntil(u)
  PROVE  Inv'
  <1> DEFINE f == [task |-> None, at |-> "check", for |-> u]
  <1>1. f \in Frame /\ f.task = None /\ f.at = "check" /\ None \notin Tasks
    BY DispatcherAssumption DEF Frame, Tasks
  <1>2. stack \in Seq(Frame) /\ Order
    BY DEF Inv, Typed, TypeOK
  <1>3. stack' = Append(stack, f)
    BY DEF PumpUntil, Push
  <1>4. loop \notin Closing
    BY <1>2 DEF PumpUntil, Order, Closing
  <1> HIDE DEF f
  <1>5. /\ stack' \in Seq(Frame) /\ TasksOnce(stack')
        /\ \A t, p : On(stack', t, p) <=> On(stack, t, p) \/ (f.task = t /\ f.at = p)
    BY <1>1, <1>2, <1>3, OnPush DEF Order
  <1>6. UNCHANGED <<chanVars, fdVars, loopVars, callVars, ctxVars, reply, runs, overtaken>>
    BY DEF PumpUntil
  <1>7. /\ \A p \in {"taken", "running", "ended"} : ~On(stack', None, p)
        /\ \A t \in Tasks : \A p : On(stack', t, p) <=> On(stack, t, p)
    BY <1>1, <1>2, <1>5 DEF Order
  <1>8. \A t \in Tasks, p \in {"check", "pump"} : ~On(stack', t, p)
    BY <1>2, <1>7 DEF Order
  <1> QED BY <1>4, <1>5, <1>6, <1>7, <1>8, FrameStep

(* A turn of PumpUntil: it is over, or it receives, or it sleeps.          *)
LEMMA PumpStep ==
  ASSUME Inv, PumpCheck \/ PumpSelect
  PROVE  Inv'
  <1>1. /\ stack # << >> /\ Top.at \in {"check", "pump"} /\ Top.task = None
        /\ loop \notin Closing /\ None \notin Tasks
    BY TopOwner, DispatcherAssumption DEF PumpCheck, PumpSelect
  <1>2. CASE /\ stack' = Pop \/ stack' = At("pump")
             /\ UNCHANGED <<chanVars, fdVars, loopVars, callVars, ctxVars, reply, runs,
                            overtaken>>
    <2>1. /\ stack' \in Seq(Frame) /\ TasksOnce(stack')
          /\ \A p \in {"taken", "running", "ended"} : ~On(stack', None, p)
          /\ \A u \in Tasks, p \in {"check", "pump"} : ~On(stack', u, p)
          /\ \A u \in Tasks : \A p : u # Top.task => (On(stack', u, p) <=> On(stack, u, p))
      BY <1>1, <1>2, PopStep, AtStep
    <2> QED BY <1>1, <1>2, <2>1, FrameStep
  <1>3. ASSUME NEW frames, frames = At("check"), TakeFast(frames) \/ TakeTask(frames),
               UNCHANGED <<fdVars, loopVars, callVars, ctxVars, reply, runs>>
        PROVE  Inv'
    <2>1. stack \in Seq(Frame) /\ Order
      BY DEF Inv, Typed, TypeOK
    <2>2. /\ \A t, p : On(Pop, t, p) => On(stack, t, p)
          /\ \A t, p : On(stack, t, p) => On(Pop, t, p) \/ (t = Top.task /\ p = Top.at)
          /\ frames \in Seq(Frame) /\ TasksOnce(frames)
          /\ \A t, p : On(frames, t, p) <=> On(Pop, t, p) \/ (t = Top.task /\ p = "check")
      BY <1>1, <1>3, <2>1, OnPop, OnAt DEF Order
    <2>3. /\ \A p \in {"taken", "running", "ended"} : ~On(frames, None, p)
          /\ \A t \in Tasks : \A p : On(frames, t, p) <=> On(stack, t, p)
      BY <1>1, <2>1, <2>2 DEF Order
    <2>4. /\ loop' \notin Closing /\ (Stopped => Stopped')
          /\ UNCHANGED <<caller, reply, told, runs>>
      BY <1>1, <1>3 DEF loopVars, callVars, Stopped
    <2>5. /\ taskChan' \in Seq(Tasks) /\ Len(taskChan') <= TaskCapacity
          /\ fastChan' \in Seq(Tasks) /\ Len(fastChan') <= FastCapacity
          /\ stack' \in Seq(Frame)
          /\ overtaken' \in [Tasks -> Nat]
          /\ Order' /\ \A t \in Tasks : Story(t)'
      BY <1>3, <2>2, <2>3, <2>4, ReceiveStep
    <2>6. Typed'
      BY <1>3, <2>5 DEF Inv, Typed, TypeOK, fdVars, loopVars, callVars, ctxVars
    <2> QED BY <2>5, <2>6 DEF Inv
  <1>4. CASE PumpCheck
    BY <1>2, <1>4 DEF PumpCheck
  <1>5. CASE PumpSelect
    <2>1. CASE caller[Top.for] = "returned" /\ stack' = Pop /\ UNCHANGED <<chanVars, overtaken>>
      BY <1>2, <1>5, <2>1 DEF PumpSelect
    <2>2. CASE TakeFast(At("check")) \/ TakeTask(At("check"))
      BY <1>3, <1>5, <2>2 DEF PumpSelect
    <2> QED BY <1>5, <2>1, <2>2 DEF PumpSelect
  <1> QED BY <1>4, <1>5

(* The shutdown drain rejects a task that is still queued.                 *)
LEMMA DrainRejectStep ==
  ASSUME Inv, DrainReject
  PROVE  Inv'
  <1>1. /\ taskChan \in Seq(Tasks) /\ fastChan \in Seq(Tasks) /\ Distinct(taskChan)
        /\ Distinct(fastChan) /\ Len(taskChan) <= TaskCapacity /\ Len(fastChan) <= FastCapacity
        /\ stack = << >> /\ loop = "drain" /\ ~Stopped
        /\ reply \in [Tasks -> {<< >>} \cup {<<o>> : o \in Outcome}]
    BY DEF Inv, Typed, TypeOK, Order, DrainReject, InLoop, Stopped
  <1>2. PICK t \in Tasks :
          /\ InQueue(t) /\ ~In(taskChan', t) /\ ~In(fastChan', t) /\ Send(t, "shutdown")
          /\ \A u \in Tasks \ {t} : /\ In(taskChan', u) <=> In(taskChan, u)
                                    /\ In(fastChan', u) <=> In(fastChan, u)
          /\ taskChan' \in Seq(Tasks) /\ Len(taskChan') <= TaskCapacity
          /\ fastChan' \in Seq(Tasks) /\ Len(fastChan') <= FastCapacity
          /\ Distinct(taskChan') /\ Distinct(fastChan')
    <2>1. CASE /\ fastChan # << >> /\ fastChan' = Tail(fastChan)
               /\ Send(Head(fastChan), "shutdown") /\ UNCHANGED taskChan
      <3>1. /\ fastChan' \in Seq(Tasks) /\ Len(fastChan') = Len(fastChan) - 1
            /\ Head(fastChan) \in Tasks /\ In(fastChan, Head(fastChan))
            /\ \A u : In(fastChan', u) <=> In(fastChan, u) /\ u # Head(fastChan)
            /\ Distinct(fastChan')
        BY <1>1, <2>1, InTail
      <3>2. Len(fastChan') <= FastCapacity
        BY <1>1, <3>1, DispatcherAssumption
      <3>3. ~In(taskChan, Head(fastChan))
        BY <3>1 DEF Inv, Story
      <3> QED BY <1>1, <2>1, <3>1, <3>2, <3>3 DEF InQueue
    <2>2. CASE /\ taskChan # << >> /\ taskChan' = Tail(taskChan)
               /\ Send(Head(taskChan), "shutdown") /\ UNCHANGED fastChan
      <3>1. /\ taskChan' \in Seq(Tasks) /\ Len(taskChan') = Len(taskChan) - 1
            /\ Head(taskChan) \in Tasks /\ In(taskChan, Head(taskChan))
            /\ \A u : In(taskChan', u) <=> In(taskChan, u) /\ u # Head(taskChan)
            /\ Distinct(taskChan')
        BY <1>1, <2>2, InTail
      <3>2. Len(taskChan') <= TaskCapacity
        BY <1>1, <3>1, DispatcherAssumption
      <3>3. ~In(fastChan, Head(taskChan))
        BY <3>1 DEF Inv, Story
      <3> QED BY <1>1, <2>2, <3>1, <3>2, <3>3 DEF InQueue
    <2> QED BY <2>1, <2>2 DEF DrainReject
  <1>3. /\ runs[t] = 0 /\ reply[t] = << >> /\ Story(t) /\ caller[t] \notin Fresh
        /\ told[t] = "none"
    <2>1. Story(t) /\ runs[t] = 0 /\ reply[t] = << >> /\ caller[t] \notin Fresh
      BY <1>2 DEF Inv, Story
    <2>2. << >> # <<told[t]>>
      OBVIOUS
    <2> QED BY <1>1, <2>1, <2>2 DEF Story
  <1>4. /\ UNCHANGED <<loop, rounds, caller, told, runs, stack, overtaken>>
        /\ Stopped' = Stopped
    BY DEF DrainReject, loopVars, callVars, Stopped
  <1>5. /\ reply' = [reply EXCEPT ![t] = <<"shutdown">>] /\ reply'[t] = <<"shutdown">>
        /\ reply' \in [Tasks -> {<< >>} \cup {<<o>> : o \in Outcome}]
    <2>1. Append(<< >>, "shutdown") = <<"shutdown">>
      OBVIOUS
    <2>2. reply' = [reply EXCEPT ![t] = <<"shutdown">>]
      BY <1>1, <1>2, <1>3, <2>1 DEF Send
    <2> QED BY <1>1, <2>2 DEF Outcome
  <1>6. Typed'
    BY <1>2, <1>4, <1>5 DEF Inv, Typed, TypeOK, DrainReject, fdVars, callVars, ctxVars
  <1>7. Order'
    BY <1>2, <1>4 DEF Inv, Order
  <1>8. Story(t)'
    <2>1. \A p : ~On(stack', t, p)
      <3>1. Len(stack') = 0
        BY <1>1, <1>4
      <3> QED BY <3>1 DEF On
    <2>2. <<"shutdown">> \in Refusals /\ ~InQueue(t)'
      BY <1>2 DEF Refusals, InQueue
    <2> QED BY <1>2, <1>3, <1>4, <1>5, <2>1, <2>2 DEF Story
  <1>9. \A u \in Tasks : Story(u)'
    BY <1>1, <1>2, <1>4, <1>5, <1>8, OneTaskStep
  <1> QED BY <1>6, <1>7, <1>9 DEF Inv

(* A step of a loop that takes nothing from a channel.                     *)
LEMMA TurnStep ==
  ASSUME Inv, stack = << >>, ~Stopped, loop' \in LoopPlaces, rounds' \in 0..2,
         loop' \in {"serveFast", "serveTask"} => rounds' \in 1..2,
         shutdownFD' = shutdownFD, taskFD' \in BOOLEAN, waker' \in BOOLEAN,
         UNCHANGED <<chanVars, stack, overtaken, callVars, ctxVars, reply, runs>>
  PROVE  Inv'
  <1>1. UNCHANGED <<chanVars, stack, caller, reply, told, runs>>
    BY DEF callVars
  <1>2. Order' /\ \A t \in Tasks : Story(t)'
    BY <1>1, StillStep
  <1>3. Typed'
    BY DEF Inv, Typed, TypeOK, chanVars, callVars, ctxVars
  <1> QED BY <1>2, <1>3 DEF Inv

(* A turn of one of the three loops, or of the drain.                      *)
LEMMA LoopStep ==
  ASSUME Inv, Loop
  PROVE  Inv'
  <1>1. /\ loop \in LoopPlaces /\ rounds \in 0..2 /\ taskFD \in BOOLEAN /\ waker \in BOOLEAN
        /\ shutdownFD \in BOOLEAN
        /\ loop \in {"serveFast", "serveTask"} => rounds \in 1..2
    BY DEF Inv, Typed, TypeOK
  <1>2. CASE RunTop
    BY <1>1, <1>2, TurnStep
    DEF RunTop, InLoop, LoopTo, loopFrame, LoopPlaces, Stopped, fdVars
  <1>3. CASE RunDrainFast
    <2>1. CASE TakeFast(stack) /\ LoopTo("fastMore")
      <3>1. /\ loop \notin Closing /\ loop' \notin Closing /\ loop' \in LoopPlaces
            /\ rounds' = rounds /\ loop' \notin {"serveFast", "serveTask"} /\ UNCHANGED loopFrame
        BY <1>3, <2>1 DEF RunDrainFast, InLoop, LoopTo, LoopPlaces, Closing
      <3> QED BY <2>1, <3>1, LoopReceiveStep
    <2>2. CASE /\ LoopTo(IF loop = "fastMore" THEN "top" ELSE "select")
               /\ UNCHANGED <<chanVars, stack, overtaken>>
      BY <1>1, <1>3, <2>2, TurnStep
      DEF RunDrainFast, InLoop, LoopTo, loopFrame, LoopPlaces, Stopped, fdVars
    <2> QED BY <1>3, <2>1, <2>2 DEF RunDrainFast
  <1>4. CASE RunSelectTask
    <2>1. /\ loop \notin Closing /\ loop' \notin Closing /\ loop' \in LoopPlaces
          /\ rounds' = rounds /\ loop' \notin {"serveFast", "serveTask"} /\ UNCHANGED loopFrame
          /\ TakeFast(stack) \/ TakeTask(stack)
      BY <1>4 DEF RunSelectTask, InLoop, LoopTo, LoopPlaces, Closing
    <2> QED BY <2>1, LoopReceiveStep
  <1>5. CASE RunSelectOther
    BY <1>1, <1>5, TurnStep
    DEF RunSelectOther, InLoop, LoopTo, loopFrame, LoopPlaces, Stopped, fdVars
  <1>6. CASE EpollInstall
    BY <1>1, <1>6, TurnStep DEF EpollInstall, InLoop, LoopTo, LoopPlaces, Stopped
  <1>7. CASE EpollWait
    <2>1. /\ loop' \in LoopPlaces /\ rounds' \in 0..2 /\ taskFD' \in BOOLEAN
          /\ loop' \in {"serveFast", "serveTask"} => rounds' \in 1..2
      <3>1. \/ loop' = "drain" /\ rounds' = 0
            \/ loop' = "serveFast" /\ (rounds' = 1 \/ rounds' = 2)
        BY <1>7, Zenon DEF EpollWait
      <3>2. taskFD' = FALSE
        BY <1>7 DEF EpollWait
      <3>3. loop' \in LoopPlaces
        BY <3>1 DEF LoopPlaces
      <3>4. rounds' \in 0..2 /\ (loop' \in {"serveFast", "serveTask"} => rounds' \in 1..2)
        BY <3>1
      <3> QED BY <3>2, <3>3, <3>4
    <2>2. /\ stack = << >> /\ ~Stopped /\ shutdownFD' = shutdownFD /\ waker' \in BOOLEAN
          /\ UNCHANGED <<chanVars, stack, overtaken, callVars, ctxVars, reply, runs>>
      BY <1>1, <1>7 DEF EpollWait, InLoop, Stopped
    <2> QED BY <2>1, <2>2, TurnStep
  <1>8. CASE EpollServeFast
    <2>1. CASE TakeFast(stack) /\ LoopTo("serveFast")
      <3>1. /\ loop \notin Closing /\ loop' \notin Closing /\ loop' \in LoopPlaces
            /\ rounds' = rounds /\ loop = "serveFast" /\ UNCHANGED loopFrame
        BY <1>8, <2>1 DEF EpollServeFast, InLoop, LoopTo, LoopPlaces, Closing
      <3> QED BY <2>1, <3>1, LoopReceiveStep
    <2>2. CASE LoopTo("serveTask") /\ UNCHANGED <<chanVars, stack, overtaken>>
      BY <1>1, <1>8, <2>2, TurnStep
      DEF EpollServeFast, InLoop, LoopTo, loopFrame, LoopPlaces, Stopped, fdVars
    <2> QED BY <1>8, <2>1, <2>2 DEF EpollServeFast
  <1>9. CASE EpollServeTask
    <2>1. CASE TakeTask(stack) /\ LoopTo("serveFast")
      <3>1. /\ loop \notin Closing /\ loop' \notin Closing /\ loop' \in LoopPlaces
            /\ rounds' = rounds /\ loop = "serveTask" /\ UNCHANGED loopFrame
        BY <1>9, <2>1 DEF EpollServeTask, InLoop, LoopTo, LoopPlaces, Closing
      <3> QED BY <2>1, <3>1, LoopReceiveStep
    <2>2. CASE /\ rounds' = rounds - 1
               /\ loop' = IF rounds > 1 THEN "serveFast" ELSE "wait"
               /\ UNCHANGED <<chanVars, stack, overtaken>>
      <3>1. rounds \in 1..2
        BY <1>1, <1>9 DEF EpollServeTask, InLoop
      <3>2. rounds' \in 0..2 /\ (loop' \in {"serveFast", "serveTask"} => rounds' \in 1..2)
        BY <2>2, <3>1
      <3>3. loop' \in LoopPlaces
        BY <2>2 DEF LoopPlaces
      <3> QED BY <1>1, <1>9, <2>2, <3>2, <3>3, TurnStep
              DEF EpollServeTask, InLoop, loopFrame, Stopped, fdVars
    <2> QED BY <1>9, <2>1, <2>2 DEF EpollServeTask
  <1>10. CASE DrainReject
    BY <1>10, DrainRejectStep
  <1>11. CASE DrainEnd
    BY <1>1, <1>11, TurnStep
    DEF DrainEnd, InLoop, LoopTo, loopFrame, LoopPlaces, Stopped, fdVars
  <1>12. CASE ClearWaker
    BY <1>1, <1>12, TurnStep DEF ClearWaker, InLoop, LoopTo, LoopPlaces, Stopped
  <1>13. CASE Stop
    BY <1>1, <1>13, TurnStep DEF Stop, InLoop, LoopTo, LoopPlaces, Stopped
  <1>14. CASE PumpOnceFast
    <2>1. CASE TakeFast(stack) /\ LoopTo("host")
      <3>1. /\ loop \notin Closing /\ loop' \notin Closing /\ loop' \in LoopPlaces
            /\ rounds' = rounds /\ loop' \notin {"serveFast", "serveTask"} /\ UNCHANGED loopFrame
        BY <1>14, <2>1 DEF PumpOnceFast, InLoop, LoopTo, LoopPlaces, Closing
      <3> QED BY <2>1, <3>1, LoopReceiveStep
    <2>2. CASE LoopTo("hostSelect") /\ UNCHANGED <<chanVars, stack, overtaken>>
      BY <1>1, <1>14, <2>2, TurnStep
      DEF PumpOnceFast, InLoop, LoopTo, loopFrame, LoopPlaces, Stopped, fdVars
    <2> QED BY <1>14, <2>1, <2>2 DEF PumpOnceFast
  <1>15. CASE PumpOnceSelect
    <2>1. /\ loop \notin Closing /\ loop' \notin Closing /\ loop' \in LoopPlaces
          /\ rounds' = rounds /\ loop' \notin {"serveFast", "serveTask"} /\ UNCHANGED loopFrame
          /\ TakeFast(stack) \/ TakeTask(stack)
      BY <1>15 DEF PumpOnceSelect, InLoop, LoopTo, LoopPlaces, Closing
    <2> QED BY <2>1, LoopReceiveStep
  <1>16. CASE PumpOnceTimeout
    BY <1>1, <1>16, TurnStep
    DEF PumpOnceTimeout, InLoop, LoopTo, loopFrame, LoopPlaces, Stopped, fdVars
  <1> QED BY <1>2, <1>3, <1>4, <1>5, <1>6, <1>7, <1>8, <1>9, <1>10, <1>11, <1>12, <1>13,
             <1>14, <1>15, <1>16 DEF Loop

----------------------------------------------------------------------------
(* Every step keeps the invariant.                                         *)
LEMMA InvNext ==
  ASSUME Inv, [Next]_vars
  PROVE  Inv'
  <1>1. CASE UNCHANGED vars
    <2>1. /\ UNCHANGED <<chanVars, stack, caller, reply, told, runs, loop>>
          /\ UNCHANGED <<fast, quiet, overtaken, rounds, fdVars, ctxVars>>
      BY <1>1 DEF vars, chanVars, fdVars, callVars, loopVars, ctxVars
    <2>2. Typed'
      BY <2>1 DEF Inv, Typed, TypeOK, chanVars, fdVars, ctxVars
    <2>3. (stack # << >> => loop' \notin Closing) /\ (Stopped => Stopped')
      BY <2>1 DEF Inv, Order, Stopped
    <2> QED BY <2>1, <2>2, <2>3, StillStep DEF Inv
  <1>2. ASSUME NEW t \in Tasks, Call(t) PROVE Inv'
    BY <1>2, SubmitStep, EnqueueStep, RefuseStep, CallWaitsStep DEF Call
  <1>3. CASE (\E t \in AsyncTasks : CancelTask(t)) \/ Cancel \/ WriteShutdownFD
    BY <1>3, ContextStep
  <1>4. CASE Execute
    BY <1>4, StartStep, FinishStep, EndStep, PumpStep DEF Execute
  <1>5. CASE \E u \in Spawned : PumpUntil(u)
    BY <1>5, PumpUntilStep
  <1> QED BY <1>1, <1>2, <1>3, <1>4, <1>5, LoopStep DEF Next

(* The inductive invariant holds in every reachable state: the channels,   *)
(* the stack and the callers tell one story about every task.              *)
THEOREM Invariance == Spec => []Inv
  BY InvInit, InvNext, PTL DEF Spec

(* The channels never hold more than their capacity, no caller's channel   *)
(* of capacity one is ever sent a second value, the loop never runs a      *)
(* drain round it does not have.                                           *)
THEOREM TypeCorrect == Spec => []TypeOK
  <1>1. Inv => TypeOK
    BY DEF Inv, Typed
  <1> QED BY <1>1, Invariance, PTL

(* Every answer RunOnMain, RunOnMainFast or runAsync has given is the      *)
(* truth about the task, in every loop and however executions nest: what   *)
(* was refused never runs, what was reported done has run once.            *)
THEOREM AnswersStayTrue == Spec => []AnswersAreTrue
  BY AnswersFromInv, Invariance, PTL

----------------------------------------------------------------------------
(* Wakeups and the order of the channels: a second invariant beside the    *)
(* first one.                                                              *)

Covered(t) == taskFD \/ t \in quiet \/ caller[t] \in {"waking", "writing"}

(* Before RunEpoll has set wakeupFunc nobody can signal; while it sleeps   *)
(* every queued task is covered, and before its select so is every fast    *)
(* one, since the fast channel was empty after the eventfd was read.       *)
Signals ==
  /\ loop = "install" => /\ ~waker
                         /\ \A t \in Tasks : InQueue(t) => t \in quiet \/ caller[t] = "waking"
  /\ loop = "wait" => \A t \in Tasks : InQueue(t) => Covered(t)
  /\ loop = "serveTask" => \A t \in Tasks : In(fastChan, t) => Covered(t)

(* Where a loop takes from both channels, having found the fast one empty. *)
Choosing == {"select", "serveTask", "hostSelect"}

(* No fast task is passed before it is queued, nor before the choice that  *)
(* may pass it.                                                            *)
Overtakes ==
  \A t \in Tasks :
    /\ overtaken[t] \in {0, 1}
    /\ caller[t] \in Fresh => overtaken[t] = 0
    /\ loop \in Choosing /\ In(fastChan, t) => overtaken[t] = 0

Watch == Signals /\ Overtakes

(* A step beside the loop that neither queues a task nor signals one.      *)
Beside ==
  /\ UNCHANGED <<loop, waker, taskFD, quiet>>
  /\ \A t \in Tasks :
       /\ In(taskChan, t)' => In(taskChan, t)
       /\ In(fastChan, t)' => In(fastChan, t)
       /\ caller[t] \in {"waking", "writing"} => caller'[t] = caller[t]
       /\ caller'[t] \in Fresh => caller[t] \in Fresh
       /\ overtaken'[t] = overtaken[t]

(* Such a step uncovers nothing and passes nobody.                         *)
LEMMA BesideKeeps ==
  ASSUME Watch, Beside
  PROVE  Watch'
  <1>1. Signals'
    BY DEF Watch, Signals, Beside, InQueue, Covered
  <1>2. Overtakes'
    BY DEF Watch, Overtakes, Beside
  <1> QED BY <1>1, <1>2 DEF Watch

(* A receive brings nothing into a channel, and counts those it passes.    *)
LEMMA Received ==
  ASSUME Inv, NEW frames, TakeFast(frames) \/ TakeTask(frames)
  PROVE  \A t \in Tasks :
           /\ In(taskChan, t)' => In(taskChan, t)
           /\ In(fastChan, t)' => In(fastChan, t)
           /\ \/ overtaken'[t] = overtaken[t]
              \/ /\ stack = << >> /\ In(fastChan, t) /\ TakeTask(frames)
                 /\ overtaken'[t] = overtaken[t] + 1
  <1>1. /\ taskChan \in Seq(Tasks) /\ fastChan \in Seq(Tasks)
        /\ Distinct(taskChan) /\ Distinct(fastChan) /\ overtaken \in [Tasks -> Nat]
    BY DEF Inv, Typed, TypeOK, Order
  <1>2. CASE TakeFast(frames)
    <2>1. fastChan # << >> /\ fastChan' = Tail(fastChan) /\ UNCHANGED <<taskChan, overtaken>>
      BY <1>2 DEF TakeFast
    <2>2. \A t : In(Tail(fastChan), t) => In(fastChan, t)
      BY <1>1, <2>1, InTail
    <2> QED BY <2>1, <2>2
  <1>3. CASE TakeTask(frames)
    <2>1. taskChan # << >> /\ taskChan' = Tail(taskChan) /\ UNCHANGED fastChan
      BY <1>3 DEF TakeTask
    <2>2. \A t : In(Tail(taskChan), t) => In(taskChan, t)
      BY <1>1, <2>1, InTail
    <2>3. \A t \in Tasks :
            overtaken'[t] = overtaken[t] + IF stack = << >> /\ In(fastChan, t) THEN 1 ELSE 0
      BY <1>3 DEF TakeTask, In
    <2>4. ASSUME NEW t \in Tasks
          PROVE  \/ overtaken'[t] = overtaken[t]
                 \/ stack = << >> /\ In(fastChan, t) /\ overtaken'[t] = overtaken[t] + 1
      <3>1. overtaken[t] \in Nat
        BY <1>1
      <3>2. overtaken'[t] = overtaken[t] + IF stack = << >> /\ In(fastChan, t) THEN 1 ELSE 0
        BY <2>3
      <3> QED BY <3>1, <3>2
    <2> QED BY <1>3, <2>1, <2>2, <2>4
  <1> QED BY <1>2, <1>3

(* What one caller does is beside the loop, unless it queues or signals.   *)
LEMMA CallBeside ==
  ASSUME Inv, NEW t \in Tasks,
         \/ \E isFast \in BOOLEAN : Submit(t, isFast)
         \/ Refuse(t) \/ Await(t) \/ Recheck(t)
  PROVE  Beside
  <1>1. caller \in [Tasks -> CallerPlaces]
    BY DEF Inv, Typed, TypeOK
  <1>2. /\ UNCHANGED <<loop, waker, taskFD, quiet, taskChan, fastChan, overtaken>>
        /\ caller[t] \notin {"waking", "writing"}
        /\ \E place \in CallerPlaces : Goes(t, place) /\ (place \in Fresh => caller[t] \in Fresh)
    <2>1. ASSUME NEW isFast \in BOOLEAN, Submit(t, isFast)
          PROVE  /\ UNCHANGED <<loop, waker, taskFD, quiet, taskChan, fastChan, overtaken>>
                 /\ caller[t] = "idle" /\ (Goes(t, "returned") \/ Goes(t, "sending"))
      BY <2>1 DEF Submit, chanVars, fdVars, loopVars
    <2>2. CASE Refuse(t)
      BY <2>2 DEF Refuse, Return, chanVars, fdVars, loopVars, CallerPlaces, Fresh
    <2>3. CASE Await(t)
      BY <2>3 DEF Await, Return, chanVars, fdVars, loopVars, CallerPlaces, Fresh
    <2>4. CASE Recheck(t)
      BY <2>4 DEF Recheck, Return, chanVars, fdVars, loopVars, CallerPlaces, Fresh
    <2> QED BY <2>1, <2>2, <2>3, <2>4 DEF CallerPlaces, Fresh
  <1>3. \A u \in Tasks : u # t => caller'[u] = caller[u]
    BY <1>1, <1>2 DEF Goes
  <1>4. caller'[t] \in Fresh => caller[t] \in Fresh
    BY <1>1, <1>2 DEF Goes
  <1> QED BY <1>2, <1>3, <1>4 DEF Beside, In

(* A send to a channel, and the two halves of wakeup(): whoever has queued *)
(* a task is on the way to signal it until it has, or has found that       *)
(* nobody sleeps yet.                                                      *)
LEMMA WakeKeeps ==
  ASSUME Inv, Watch, NEW t \in Tasks, Enqueue(t) \/ ReadWaker(t) \/ WriteTaskFD(t)
  PROVE  Watch'
  <1>1. /\ caller \in [Tasks -> CallerPlaces] /\ taskChan \in Seq(Tasks)
        /\ fastChan \in Seq(Tasks) /\ taskFD \in BOOLEAN /\ waker \in BOOLEAN
    BY DEF Inv, Typed, TypeOK
  <1>2. CASE Enqueue(t)
    <2>1. /\ UNCHANGED <<loop, waker, taskFD, quiet, overtaken>>
          /\ caller[t] = "sending" /\ Goes(t, "waking")
          /\ \/ fastChan' = Append(fastChan, t) /\ UNCHANGED taskChan
             \/ taskChan' = Append(taskChan, t) /\ UNCHANGED fastChan
      BY <1>2 DEF Enqueue, fdVars, loopVars
    <2>2. caller'[t] = "waking" /\ \A u \in Tasks : u # t => caller'[u] = caller[u]
      BY <1>1, <2>1 DEF Goes
    <2>3. \A u : /\ In(Append(fastChan, t), u) => In(fastChan, u) \/ u = t
                 /\ In(Append(taskChan, t), u) => In(taskChan, u) \/ u = t
      BY <1>1, InAppend
    <2>4. \A u \in Tasks : u # t => /\ In(taskChan, u)' => In(taskChan, u)
                                    /\ In(fastChan, u)' => In(fastChan, u)
      BY <2>1, <2>3
    <2>5. Signals'
      BY <2>1, <2>2, <2>4 DEF Watch, Signals, InQueue, Covered
    <2>6. Overtakes'
      BY <2>1, <2>2, <2>4 DEF Watch, Overtakes, Fresh
    <2> QED BY <2>5, <2>6 DEF Watch
  <1>3. CASE ReadWaker(t)
    <2>1. /\ UNCHANGED <<loop, waker, taskFD, taskChan, fastChan, overtaken>>
          /\ caller[t] = "waking" /\ quiet \subseteq quiet'
          /\ Goes(t, IF waker THEN "writing" ELSE Parked(t))
          /\ waker \/ t \in quiet'
      BY <1>3 DEF ReadWaker, chanVars, fdVars, loopVars
    <2>2. /\ \A u \in Tasks : u # t => caller'[u] = caller[u]
          /\ waker => caller'[t] = "writing"
          /\ ~waker => caller'[t] \notin Fresh
          /\ caller'[t] \notin Fresh
      BY <1>1, <2>1 DEF Goes, Parked, Fresh
    <2>3. Signals'
      BY <2>1, <2>2 DEF Watch, Signals, InQueue, Covered, In
    <2>4. Overtakes'
      BY <2>1, <2>2 DEF Watch, Overtakes, In
    <2> QED BY <2>3, <2>4 DEF Watch
  <1>4. CASE WriteTaskFD(t)
    <2>1. /\ UNCHANGED <<loop, waker, quiet, taskChan, fastChan, overtaken>>
          /\ caller[t] = "writing" /\ Goes(t, Parked(t)) /\ taskFD' = ~Stopped
      BY <1>4 DEF WriteTaskFD, chanVars, loopVars
    <2>2. (\A u \in Tasks : u # t => caller'[u] = caller[u]) /\ caller'[t] \notin Fresh
      BY <1>1, <2>1 DEF Goes, Parked, Fresh
    <2>3. Signals'
      BY <2>1, <2>2 DEF Watch, Signals, InQueue, Covered, In, Stopped
    <2>4. Overtakes'
      BY <2>1, <2>2 DEF Watch, Overtakes, In
    <2> QED BY <2>3, <2>4 DEF Watch
  <1> QED BY <1>2, <1>3, <1>4

(* What is executed, also by a PumpUntil, is beside the loop.              *)
LEMMA ExecuteBeside ==
  ASSUME Inv, Execute \/ \E u \in Spawned : PumpUntil(u)
  PROVE  Beside
  <1>1. CASE Start \/ Finish \/ End \/ PumpCheck \/ \E u \in Spawned : PumpUntil(u)
    <2>1. UNCHANGED <<chanVars, fdVars, loopVars, callVars, overtaken>>
      BY <1>1 DEF Start, Finish, End, PumpCheck, PumpUntil
    <2> QED BY <2>1 DEF chanVars, fdVars, loopVars, callVars, Beside, In
  <1>2. CASE PumpSelect
    <2>1. stack # << >> /\ UNCHANGED <<fdVars, loopVars, callVars>>
      BY <1>2 DEF PumpSelect
    <2>2. \/ UNCHANGED <<chanVars, overtaken>>
          \/ TakeFast(At("check")) \/ TakeTask(At("check"))
      BY <1>2 DEF PumpSelect
    <2>3. \A t \in Tasks : /\ In(taskChan, t)' => In(taskChan, t)
                           /\ In(fastChan, t)' => In(fastChan, t)
                           /\ overtaken'[t] = overtaken[t]
      BY <2>1, <2>2, Received DEF chanVars, In
    <2> QED BY <2>1, <2>3 DEF fdVars, loopVars, callVars, Beside
  <1> QED BY <1>1, <1>2 DEF Execute

(* A loop that takes a task goes back to where it drains the fast channel; *)
(* if it took a normal task, it was one it could choose.                   *)
LEMMA TakeKeeps ==
  ASSUME Inv, Watch, TakeFast(stack) \/ TakeTask(stack), UNCHANGED caller,
         loop' \in {"fastMore", "top", "serveFast", "host"},
         TakeTask(stack) => loop \in Choosing
  PROVE  Watch'
  <1>1. Signals'
    BY DEF Signals
  <1>2. ASSUME NEW t \in Tasks
        PROVE  overtaken'[t] \in {0, 1} /\ (caller'[t] \in Fresh => overtaken'[t] = 0)
    <2>1. overtaken[t] \in {0, 1} /\ (caller[t] \in Fresh => overtaken[t] = 0)
      BY DEF Watch, Overtakes
    <2>2. CASE overtaken'[t] = overtaken[t]
      BY <2>1, <2>2
    <2>3. CASE In(fastChan, t) /\ TakeTask(stack) /\ overtaken'[t] = overtaken[t] + 1
      <3>1. overtaken[t] = 0
        BY <2>3 DEF Watch, Overtakes
      <3>2. caller[t] \notin Fresh
        BY <2>3 DEF Inv, Story, InQueue
      <3> QED BY <2>3, <3>1, <3>2
    <2> QED BY <2>2, <2>3, Received
  <1>3. loop' \notin Choosing
    BY DEF Choosing
  <1> QED BY <1>1, <1>2, <1>3 DEF Watch, Overtakes

(* A turn of a loop that takes nothing; it may only come to a choice with  *)
(* the fast channel empty.                                                 *)
LEMMA TurnKeeps ==
  ASSUME Watch, Signals', UNCHANGED <<chanVars, caller, overtaken>>,
         loop' \in Choosing => fastChan = << >>
  PROVE  Watch'
  <1>1. \A t : ~In(<< >>, t)
    BY DEF In
  <1>2. Overtakes'
    BY <1>1 DEF Watch, Overtakes, chanVars
  <1> QED BY <1>2 DEF Watch

(* A turn of any of the three loops, or of the drain.                      *)
LEMMA LoopKeeps ==
  ASSUME Inv, Watch, Loop
  PROVE  Watch'
  <1>1. \A t : ~In(<< >>, t)
    BY DEF In
  <1>2. CASE RunTop \/ RunSelectOther \/ DrainEnd \/ ClearWaker \/ Stop \/ PumpOnceTimeout
    <2>1. /\ UNCHANGED <<chanVars, caller, overtaken>>
          /\ loop' \in {"drain", "fast", "top", "closing", "closed", "stopped", "host"}
      BY <1>2 DEF RunTop, RunSelectOther, DrainEnd, ClearWaker, Stop, PumpOnceTimeout,
                  LoopTo, loopFrame, callVars
    <2>2. Signals' /\ loop' \notin Choosing
      BY <2>1 DEF Signals, Choosing
    <2> QED BY <2>1, <2>2, TurnKeeps
  <1>3. CASE RunDrainFast
    <2>1. UNCHANGED caller
      BY <1>3 DEF RunDrainFast, loopFrame, callVars
    <2>2. CASE TakeFast(stack) /\ LoopTo("fastMore")
      <3>1. ~TakeTask(stack)
        <4>1. taskChan' = taskChan /\ taskChan \in Seq(Tasks)
          BY <2>2 DEF TakeFast, Inv, Typed, TypeOK
        <4>2. TakeTask(stack) => taskChan # << >> /\ Len(taskChan') = Len(taskChan) - 1 /\ Len(taskChan) \in Nat
          BY <4>1 DEF TakeTask
        <4> QED BY <4>1, <4>2
      <3> QED BY <2>1, <2>2, <3>1, TakeKeeps DEF LoopTo
    <2>3. CASE /\ fastChan = << >> /\ UNCHANGED <<chanVars, overtaken>>
               /\ LoopTo(IF loop = "fastMore" THEN "top" ELSE "select")
      <3>1. Signals'
        BY <2>3 DEF Signals, LoopTo
      <3> QED BY <2>1, <2>3, <3>1, TurnKeeps
    <2> QED BY <1>3, <2>2, <2>3 DEF RunDrainFast
  <1>4. CASE RunSelectTask \/ PumpOnceSelect
    BY <1>4, TakeKeeps
    DEF RunSelectTask, PumpOnceSelect, InLoop, LoopTo, loopFrame, callVars, Choosing
  <1>5. CASE EpollInstall
    <2>1. /\ UNCHANGED <<chanVars, caller, overtaken, quiet>> /\ loop = "install" /\ loop' = "wait"
      BY <1>5 DEF EpollInstall, InLoop, LoopTo, callVars
    <2>2. Signals' /\ loop' \notin Choosing
      BY <2>1 DEF Watch, Signals, InQueue, Covered, chanVars, Choosing
    <2> QED BY <2>1, <2>2, TurnKeeps
  <1>6. CASE EpollWait
    <2>1. /\ UNCHANGED <<chanVars, caller, overtaken>> /\ loop' \in {"drain", "serveFast"}
      BY <1>6 DEF EpollWait, callVars
    <2>2. Signals' /\ loop' \notin Choosing
      BY <2>1 DEF Signals, Choosing
    <2> QED BY <2>1, <2>2, TurnKeeps
  <1>7. CASE EpollServeFast
    <2>1. UNCHANGED caller
      BY <1>7 DEF EpollServeFast, loopFrame, callVars
    <2>2. CASE TakeFast(stack) /\ LoopTo("serveFast")
      <3>1. ~TakeTask(stack)
        <4>1. taskChan' = taskChan /\ taskChan \in Seq(Tasks)
          BY <2>2 DEF TakeFast, Inv, Typed, TypeOK
        <4>2. TakeTask(stack) => taskChan # << >> /\ Len(taskChan') = Len(taskChan) - 1 /\ Len(taskChan) \in Nat
          BY <4>1 DEF TakeTask
        <4> QED BY <4>1, <4>2
      <3> QED BY <2>1, <2>2, <3>1, TakeKeeps DEF LoopTo
    <2>3. CASE fastChan = << >> /\ LoopTo("serveTask") /\ UNCHANGED <<chanVars, overtaken>>
      <3>1. Signals'
        BY <1>1, <2>3 DEF Signals, LoopTo, chanVars
      <3> QED BY <2>1, <2>3, <3>1, TurnKeeps
    <2> QED BY <1>7, <2>2, <2>3 DEF EpollServeFast
  <1>8. CASE EpollServeTask
    <2>1. UNCHANGED <<caller, taskFD, quiet>> /\ loop = "serveTask"
      BY <1>8 DEF EpollServeTask, InLoop, loopFrame, callVars, fdVars
    <2>2. CASE TakeTask(stack) /\ LoopTo("serveFast")
      BY <2>1, <2>2, TakeKeeps DEF LoopTo, Choosing
    <2>3. CASE /\ taskChan = << >> /\ UNCHANGED <<chanVars, overtaken>>
               /\ loop' \in {"serveFast", "wait"}
      <3>1. Signals' /\ loop' \notin Choosing
        BY <1>1, <2>1, <2>3 DEF Watch, Signals, InQueue, Covered, chanVars, Choosing
      <3> QED BY <2>1, <2>3, <3>1, TurnKeeps
    <2> QED BY <1>8, <2>2, <2>3 DEF EpollServeTask
  <1>9. CASE DrainReject
    <2>1. UNCHANGED <<loop, caller, overtaken>> /\ loop = "drain"
      BY <1>9 DEF DrainReject, InLoop, loopVars, callVars
    <2>2. Signals' /\ loop' \notin Choosing
      BY <2>1 DEF Signals, Choosing
    <2> QED BY <2>1, <2>2 DEF Watch, Overtakes
  <1>10. CASE PumpOnceFast
    <2>1. UNCHANGED caller
      BY <1>10 DEF PumpOnceFast, loopFrame, callVars
    <2>2. CASE TakeFast(stack) /\ LoopTo("host")
      <3>1. ~TakeTask(stack)
        <4>1. taskChan' = taskChan /\ taskChan \in Seq(Tasks)
          BY <2>2 DEF TakeFast, Inv, Typed, TypeOK
        <4>2. TakeTask(stack) => taskChan # << >> /\ Len(taskChan') = Len(taskChan) - 1 /\ Len(taskChan) \in Nat
          BY <4>1 DEF TakeTask
        <4> QED BY <4>1, <4>2
      <3> QED BY <2>1, <2>2, <3>1, TakeKeeps DEF LoopTo
    <2>3. CASE fastChan = << >> /\ LoopTo("hostSelect") /\ UNCHANGED <<chanVars, overtaken>>
      <3>1. Signals'
        BY <2>3 DEF Signals, LoopTo
      <3> QED BY <2>1, <2>3, <3>1, TurnKeeps
    <2> QED BY <1>10, <2>2, <2>3 DEF PumpOnceFast
  <1> QED BY <1>2, <1>3, <1>4, <1>5, <1>6, <1>7, <1>8, <1>9, <1>10 DEF Loop

(* The second invariant holds in every reachable state.                    *)
LEMMA WatchHolds == Spec => []Watch
  <1>1. Init => Watch
    <2> SUFFICES ASSUME Init PROVE Watch
      OBVIOUS
    <2>1. \A t : ~In(<< >>, t)
      BY DEF In
    <2>2. Signals
      BY <2>1 DEF Init, Signals, InQueue
    <2>3. Overtakes
      BY <2>1 DEF Init, Overtakes
    <2> QED BY <2>2, <2>3 DEF Watch
  <1>2. Inv /\ Watch /\ [Next]_vars => Watch'
    <2> SUFFICES ASSUME Inv, Watch, [Next]_vars PROVE Watch'
      OBVIOUS
    <2>1. CASE UNCHANGED vars
      <3>1. Beside
        BY <2>1 DEF vars, chanVars, fdVars, loopVars, callVars, Beside, In
      <3> QED BY <3>1, BesideKeeps
    <2>2. ASSUME NEW t \in Tasks, Call(t) PROVE Watch'
      BY <2>2, CallBeside, BesideKeeps, WakeKeeps DEF Call
    <2>3. CASE (\E t \in AsyncTasks : CancelTask(t)) \/ Cancel \/ WriteShutdownFD
      <3>1. UNCHANGED <<chanVars, taskFD, waker, loopVars, callVars, overtaken>>
        BY <2>3 DEF CancelTask, Cancel, WriteShutdownFD, fdVars
      <3>2. Beside
        BY <3>1 DEF chanVars, loopVars, callVars, Beside, In
      <3> QED BY <3>2, BesideKeeps
    <2>4. CASE Execute \/ \E u \in Spawned : PumpUntil(u)
      BY <2>4, ExecuteBeside, BesideKeeps
    <2> QED BY <2>1, <2>2, <2>3, <2>4, LoopKeeps DEF Next
  <1> QED BY <1>1, <1>2, Invariance, PTL DEF Spec

(* No wakeup is lost, with any number of submitters at any place of theirs *)
(* and of RunEpoll: the eventfd is read empty before the channels are.     *)
THEOREM NoWakeupIsLost == Spec => []QueuedTasksAreSignalled
  <1>1. Watch => QueuedTasksAreSignalled
    BY DEF Watch, Signals, QueuedTasksAreSignalled, Queued, InQueue, In, Covered
  <1> QED BY <1>1, WatchHolds, PTL

(* A fast task is passed by one normal task of a loop at most, the one of  *)
(* the choice at which it came.                                            *)
THEOREM FastStaysAhead == Spec => []FastIsOvertakenAtMostOnce
  <1>1. Watch => FastIsOvertakenAtMostOnce
    BY DEF Watch, Overtakes, FastIsOvertakenAtMostOnce
  <1> QED BY <1>1, WatchHolds, PTL

----------------------------------------------------------------------------
(* The dispatcher implements GoldenThread.                                 *)

(* Stage and Nest, one task and one stack at a time.                       *)
StageOf(t) ==
  IF runs[t] > 0 THEN IF On(stack, t, "running") THEN "running" ELSE "completed"
  ELSE IF reply[t] # << >> \/ told[t] # "none" THEN "refused"
  ELSE IF caller[t] = "idle" THEN "new" ELSE "pending"

TasksOf(s) == [i \in 1..Len(s) |-> s[i].task]

(* A function that has ended has been started.                             *)
Ended == \A t \in Tasks : On(stack, t, "ended") => runs[t] = 1

(* What a step of the dispatcher is to GoldenThread.                       *)
Implements == Ended' /\ (Golden!Next \/ (Stage' = Stage /\ Nest' = Nest))

LEMMA StageIs ==
  /\ \A t \in Tasks : Stage[t] = StageOf(t)
  /\ (\A t \in Tasks : StageOf(t)' = StageOf(t)) => Stage' = Stage
  /\ Nest = TasksOf(stack)
  BY DEF Stage, StageOf, RunningNow, On, Depth, Nest, TasksOf

(* One task's stage changes and no other's.                                *)
LEMMA StageMoves ==
  ASSUME NEW t \in Tasks, NEW s, StageOf(t)' = s,
         \A u \in Tasks : u # t => StageOf(u)' = StageOf(u)
  PROVE  Golden!Becomes(t, s)
  <1>1. Stage' = [u \in Tasks |-> StageOf(u)']
    BY DEF Stage, StageOf, RunningNow, On, Depth
  <1>2. Stage = [u \in Tasks |-> StageOf(u)]
    BY DEF Stage, StageOf, RunningNow, On, Depth
  <1>3. \A u \in Tasks : StageOf(u)' = IF u = t THEN s ELSE StageOf(u)
    OBVIOUS
  <1> HIDE DEF StageOf
  <1>4. [Stage EXCEPT ![t] = s] = [u \in Tasks |-> IF u = t THEN s ELSE StageOf(u)]
    BY <1>2
  <1> QED BY <1>1, <1>3, <1>4 DEF Golden!Becomes

(* What a task's stage depends on.                                         *)
LEMMA StageKeeps ==
  ASSUME NEW u \in Tasks, runs'[u] = runs[u], reply'[u] = reply[u], told'[u] = told[u],
         caller'[u] = "idle" <=> caller[u] = "idle",
         On(stack', u, "running") <=> On(stack, u, "running")
  PROVE  StageOf(u)' = StageOf(u)
  BY DEF StageOf

LEMMA FrameTask ==
  ASSUME NEW f \in Frame
  PROVE  /\ f.task \in Tasks \cup {None}
         /\ f.at \in {"taken", "running", "ended", "check", "pump"}
  BY DEF Frame

(* Frames that are pushed, popped and moved, as tasks.                     *)
LEMMA TasksOfPush ==
  ASSUME NEW s \in Seq(Frame), NEW f \in Frame
  PROVE  TasksOf(Append(s, f)) = Append(TasksOf(s), f.task)
  <1>1. /\ Len(Append(s, f)) = Len(s) + 1 /\ Len(s) \in Nat
        /\ \A i \in 1..Len(s) : Append(s, f)[i] = s[i]
        /\ Append(s, f)[Len(s) + 1] = f
    OBVIOUS
  <1>2. TasksOf(s) \in Seq(Tasks \cup {None}) /\ Len(TasksOf(s)) = Len(s)
    <2>1. \A i \in 1..Len(s) : s[i] \in Frame
      OBVIOUS
    <2>2. \A i \in 1..Len(s) : s[i].task \in Tasks \cup {None}
      BY <2>1, FrameTask
    <2> QED BY <1>1, <2>2 DEF TasksOf
  <1>3. f.task \in Tasks \cup {None}
    BY DEF Frame
  <1>4. Append(TasksOf(s), f.task)
          = [i \in 1..(Len(s) + 1) |-> IF i = Len(s) + 1 THEN f.task ELSE TasksOf(s)[i]]
    BY <1>1, <1>2, <1>3
  <1>5. \A i \in 1..(Len(s) + 1) :
          Append(s, f)[i].task = IF i = Len(s) + 1 THEN f.task ELSE TasksOf(s)[i]
    <2>1. 1..(Len(s) + 1) = 1..Len(s) \cup {Len(s) + 1} /\ Len(s) + 1 \notin 1..Len(s)
      BY <1>1
    <2>2. \A i \in 1..Len(s) : TasksOf(s)[i] = s[i].task
      BY DEF TasksOf
    <2> QED BY <1>1, <2>1, <2>2
  <1> QED BY <1>1, <1>4, <1>5 DEF TasksOf

LEMMA TasksOfTop ==
  ASSUME stack \in Seq(Frame), stack # << >>
  PROVE  /\ Golden!Inner(Top.task)
         /\ TasksOf(Pop) = Golden!Outer
         /\ \A place : TasksOf(At(place)) = Nest
  <1>1. /\ Depth \in Nat \ {0} /\ Len(stack) = Depth
        /\ Len(Pop) = Depth - 1 /\ \A i \in 1..(Depth - 1) : Pop[i] = stack[i]
        /\ 1..Depth = 1..(Depth - 1) \cup {Depth} /\ Top = stack[Depth]
    BY Split
  <1>2. Nest \in Seq(Tasks \cup {None}) /\ Len(Nest) = Depth
    <2>1. \A i \in 1..Depth : stack[i] \in Frame
      BY <1>1
    <2>2. \A i \in 1..Depth : stack[i].task \in Tasks \cup {None}
      BY <2>1, FrameTask
    <2> QED BY <1>1, <2>2 DEF Nest
  <1>3. Golden!Inner(Top.task)
    <2>1. Nest # << >> /\ Nest[Len(Nest)] = Top.task
      BY <1>1, <1>2 DEF Nest
    <2> QED BY <2>1 DEF Golden!Inner
  <1>4. TasksOf(Pop) = Golden!Outer
    <2>1. /\ Len(SubSeq(Nest, 1, Len(Nest) - 1)) = Depth - 1
          /\ SubSeq(Nest, 1, Len(Nest) - 1) = [i \in 1..(Depth - 1) |-> Nest[i]]
      BY <1>1, <1>2
    <2>2. \A i \in 1..(Depth - 1) : Nest[i] = Pop[i].task
      BY <1>1 DEF Nest
    <2> QED BY <1>1, <2>1, <2>2 DEF TasksOf, Golden!Outer
  <1>5. ASSUME NEW place PROVE TasksOf(At(place)) = Nest
    <2>1. Len(At(place)) = Depth /\ \A i \in 1..Depth : At(place)[i].task = stack[i].task
      <3>1. stack[Depth] \in Frame /\ DOMAIN stack = 1..Depth
        BY <1>1
      <3>2. At(place) = [stack EXCEPT ![Depth] = [stack[Depth] EXCEPT !.at = place]]
        BY <3>1 DEF At
      <3>3. [stack[Depth] EXCEPT !.at = place].task = stack[Depth].task
        BY <3>1 DEF Frame
      <3>4. DOMAIN At(place) = 1..Depth
        BY <3>1, <3>2
      <3>5. Len(At(place)) = Depth
        BY <1>1, <3>4
      <3> QED BY <3>1, <3>2, <3>3, <3>5
    <2> QED BY <2>1 DEF TasksOf, Nest
  <1> QED BY <1>3, <1>4, <1>5

(* A task is held by the thread if it is on the stack.                     *)
LEMMA HeldIs ==
  ASSUME Inv, NEW t \in Tasks, ~OnStack(t)
  PROVE  ~Golden!Held(t)
  <1> SUFFICES ASSUME NEW i \in 1..Len(Nest), Nest[i] = t PROVE FALSE
    BY DEF Golden!Held
  <1>1. stack \in Seq(Frame) /\ Len(stack) \in Nat /\ Order
    BY DEF Inv, Typed, TypeOK
  <1>2. Len(Nest) = Len(stack) /\ stack[i].task = t
    BY <1>1 DEF Nest, Depth
  <1>3. i \in 1..Len(stack) /\ stack[i] \in Frame
    BY <1>1, <1>2
  <1>4. stack[i].at \in {"taken", "running", "ended", "check", "pump"}
    BY <1>3, FrameTask
  <1>5. On(stack, t, stack[i].at)
    BY <1>2, <1>3 DEF On
  <1> QED BY <1>1, <1>4, <1>5 DEF Order, OnStack

(* What the story of a task says of its stage.                             *)
LEMMA StageFromStory ==
  ASSUME Inv, NEW t \in Tasks
  PROVE  /\ caller[t] = "idle" => StageOf(t) = "new" /\ ~OnStack(t)
         /\ caller[t] = "sending" => StageOf(t) = "pending" /\ ~OnStack(t)
         /\ InQueue(t) /\ ~Stopped => StageOf(t) = "pending" /\ ~OnStack(t)
         /\ On(stack, t, "taken") => StageOf(t) = "pending"
         /\ On(stack, t, "running") => StageOf(t) = "running" /\ runs[t] = 1
  <1>1. Story(t) /\ Order
    BY DEF Inv
  <1>2. On(stack, t, "taken") => ~Stopped /\ ~InQueue(t) /\ OnStack(t)
    <2>1. On(stack, t, "taken") => stack # << >>
      BY DEF On
    <2> QED BY <1>1, <2>1 DEF Order, Story, OnStack, Closing, Stopped
  <1>3. (InQueue(t) \/ On(stack, t, "taken")) /\ ~Stopped => told[t] = "none"
    BY <1>1 DEF Story
  <1> QED BY <1>1, <1>2, <1>3 DEF Story, StageOf, Fresh

(* A step that leaves the stack and the stages of all tasks alone.         *)
LEMMA StepBeside ==
  ASSUME Ended, UNCHANGED <<stack, runs>>, \A t \in Tasks : StageOf(t)' = StageOf(t)
  PROVE  Implements
  <1>1. Stage' = Stage
    BY StageIs
  <1>2. Nest' = Nest
    BY DEF Nest, Depth
  <1>3. Ended'
    BY DEF Ended
  <1> QED BY <1>1, <1>2, <1>3 DEF Implements

(* A task is refused that the thread does not hold.                        *)
LEMMA StepRefuses ==
  ASSUME Inv, Ended, NEW t \in Tasks, StageOf(t) \in {"new", "pending"}, ~OnStack(t),
         StageOf(t)' = "refused", UNCHANGED <<stack, runs>>,
         \A u \in Tasks : u # t => StageOf(u)' = StageOf(u)
  PROVE  Implements
  <1>1. Golden!Becomes(t, "refused") /\ Stage[t] \in {"new", "pending"}
    BY StageMoves, StageIs
  <1>2. Nest' = Nest /\ Ended'
    BY DEF Nest, Depth, Ended
  <1>3. Golden!Refuse(t)
    BY <1>1, <1>2, HeldIs DEF Golden!Refuse
  <1> QED BY <1>2, <1>3 DEF Implements, Golden!Next

(* The callers: a task is submitted, and refused or answered.              *)
LEMMA CallImplements ==
  ASSUME Inv, Ended, NEW t \in Tasks, Call(t)
  PROVE  Implements
  <1>1. /\ caller \in [Tasks -> CallerPlaces] /\ told \in [Tasks -> Outcome \cup {"none"}]
        /\ reply \in [Tasks -> {<< >>} \cup {<<o>> : o \in Outcome}] /\ runs \in [Tasks -> Nat]
    BY DEF Inv, Typed, TypeOK
  <1>2. Story(t) /\ Order /\ runs[t] \in {0, 1}
    BY DEF Inv, Story
  <1>3. ASSUME UNCHANGED <<stack, runs>>,
               \A u \in Tasks : u # t => /\ reply'[u] = reply[u] /\ told'[u] = told[u]
                                         /\ caller'[u] = caller[u]
        PROVE  \A u \in Tasks : u # t => StageOf(u)' = StageOf(u)
    BY <1>3, StageKeeps
  <1>4. ASSUME NEW isFast \in BOOLEAN, Submit(t, isFast) PROVE Implements
    <2>1. /\ UNCHANGED <<stack, runs, told>> /\ caller[t] = "idle"
          /\ \/ Goes(t, "returned") /\ Send(t, "cancelled")
             \/ Goes(t, "sending") /\ UNCHANGED reply
      BY <1>4 DEF Submit
    <2>2. /\ \A u \in Tasks : u # t => reply'[u] = reply[u] /\ caller'[u] = caller[u]
          /\ caller'[t] # "idle"
      BY <1>1, <2>1 DEF Goes, Send
    <2>3. \A u \in Tasks : u # t => StageOf(u)' = StageOf(u)
      BY <1>3, <2>1, <2>2
    <2>4. StageOf(t) = "new" /\ ~OnStack(t) /\ runs[t] = 0 /\ reply[t] = << >> /\ told[t] = "none"
      BY <1>2, <2>1, StageFromStory DEF Story, Fresh
    <2>5. CASE Send(t, "cancelled")
      <3>1. reply'[t] # << >>
        BY <1>1, <2>4, <2>5 DEF Send
      <3>2. StageOf(t)' = "refused"
        BY <2>1, <2>4, <3>1 DEF StageOf
      <3> QED BY <2>1, <2>3, <2>4, <3>2, StepRefuses
    <2>6. CASE UNCHANGED reply
      <3>1. StageOf(t)' = "pending"
        BY <2>1, <2>2, <2>4, <2>6 DEF StageOf
      <3>2. Golden!Becomes(t, "pending") /\ Stage[t] = "new"
        BY <2>3, <2>4, <3>1, StageMoves, StageIs
      <3>3. Nest' = Nest /\ Ended'
        BY <2>1 DEF Nest, Depth, Ended
      <3> QED BY <3>2, <3>3 DEF Implements, Golden!Next, Golden!Submit
    <2> QED BY <2>1, <2>5, <2>6
  <1>5. CASE Enqueue(t) \/ ReadWaker(t) \/ WriteTaskFD(t)
    <2>1. /\ UNCHANGED <<stack, runs, told, reply>> /\ caller[t] \in {"sending", "waking", "writing"}
          /\ \E place \in {"waking", "writing", "waiting", "returned"} : Goes(t, place)
      BY <1>5 DEF Enqueue, ReadWaker, WriteTaskFD, Parked
    <2>2. /\ \A u \in Tasks : u # t => caller'[u] = caller[u]
          /\ caller'[t] # "idle" /\ caller[t] # "idle"
      BY <1>1, <2>1 DEF Goes
    <2>3. \A u \in Tasks : StageOf(u)' = StageOf(u)
      BY <2>1, <2>2, StageKeeps
    <2> QED BY <2>1, <2>3, StepBeside
  <1>6. CASE Refuse(t)
    <2>1. /\ UNCHANGED <<stack, runs>> /\ caller[t] = "sending"
          /\ \/ Return(t, "shutdown") /\ UNCHANGED reply
             \/ Goes(t, "returned") /\ (Send(t, "shutdown") \/ Send(t, "cancelled")) /\ UNCHANGED told
      BY <1>6 DEF Refuse
    <2>2. StageOf(t) = "pending" /\ ~OnStack(t) /\ runs[t] = 0 /\ reply[t] = << >>
      BY <1>2, <2>1, StageFromStory DEF Story, Fresh
    <2>3. /\ \A u \in Tasks : u # t => /\ reply'[u] = reply[u] /\ told'[u] = told[u]
                                       /\ caller'[u] = caller[u]
          /\ reply'[t] # << >> \/ told'[t] # "none"
      <3>1. CASE Return(t, "shutdown") /\ UNCHANGED reply
        BY <1>1, <3>1 DEF Goes, Return
      <3>2. ASSUME NEW o, Send(t, o), Goes(t, "returned"), UNCHANGED told
            PROVE  /\ \A u \in Tasks : u # t => reply'[u] = reply[u] /\ caller'[u] = caller[u]
                   /\ reply'[t] # << >>
        <4>1. reply'[t] = Append(<< >>, o)
          BY <1>1, <2>2, <3>2 DEF Send
        <4>2. Append(<< >>, o) # << >>
          OBVIOUS
        <4> QED BY <1>1, <3>2, <4>1, <4>2 DEF Send, Goes
      <3> QED BY <2>1, <3>1, <3>2
    <2>4. \A u \in Tasks : u # t => StageOf(u)' = StageOf(u)
      BY <1>3, <2>1, <2>3
    <2>5. StageOf(t)' = "refused"
      BY <2>1, <2>2, <2>3 DEF StageOf
    <2> QED BY <2>1, <2>2, <2>4, <2>5, StepRefuses
  <1>7. CASE Await(t) \/ Recheck(t)
    <2>1. /\ UNCHANGED <<stack, runs, reply>> /\ caller[t] \in {"waiting", "recheck"}
          /\ \/ reply[t] # << >> /\ Return(t, Head(reply[t]))
             \/ Goes(t, "recheck") /\ UNCHANGED told
             \/ caller[t] = "recheck" /\ reply[t] = << >> /\ Return(t, "shutdown")
      BY <1>7 DEF Await, Recheck
    <2>2. /\ \A u \in Tasks : u # t => told'[u] = told[u] /\ caller'[u] = caller[u]
          /\ caller'[t] # "idle" /\ caller[t] # "idle"
      BY <1>1, <2>1 DEF Goes, Return
    <2>3. \A u \in Tasks : u # t => StageOf(u)' = StageOf(u)
      BY <1>3, <2>1, <2>2
    <2>4. CASE reply[t] # << >>
      <3>1. StageOf(t)' = StageOf(t)
        BY <2>1, <2>4 DEF StageOf
      <3> QED BY <2>1, <2>3, <3>1, StepBeside
    <2>5. CASE Goes(t, "recheck") /\ UNCHANGED told
      <3>1. StageOf(t)' = StageOf(t)
        BY <2>1, <2>2, <2>5 DEF StageOf
      <3> QED BY <2>1, <2>3, <3>1, StepBeside
    <2>6. CASE caller[t] = "recheck" /\ reply[t] = << >> /\ Return(t, "shutdown")
      <3>1. Stopped /\ stack = << >> /\ t \in SyncTasks
        BY <1>2, <2>6 DEF Story, Order, Stopped, Closing
      <3>2. ~OnStack(t) /\ runs[t] = 0
        BY <1>2, <2>6, <3>1 DEF OnStack, On, Story
      <3>3. told'[t] = "shutdown"
        BY <1>1, <2>6 DEF Return
      <3>4. StageOf(t)' = "refused"
        BY <2>1, <3>2, <3>3 DEF StageOf
      <3>5. CASE told[t] = "none"
        <4>1. StageOf(t) = "pending"
          BY <2>2, <2>6, <3>2, <3>5 DEF StageOf
        <4> QED BY <2>1, <2>3, <3>2, <3>4, <4>1, StepRefuses
      <3>6. CASE told[t] # "none"
        <4>1. StageOf(t) = "refused"
          BY <3>2, <3>6 DEF StageOf
        <4> QED BY <2>1, <2>3, <3>4, <4>1, StepBeside
      <3> QED BY <3>5, <3>6
    <2> QED BY <2>1, <2>4, <2>5, <2>6
  <1> QED BY <1>4, <1>5, <1>6, <1>7 DEF Call

(* The innermost task is refused by its own context, or begins.            *)
LEMMA StartImplements ==
  ASSUME Inv, Ended, Start
  PROVE  Implements
  <1>0. PICK t \in Tasks : t = Top.task
    BY TopOwner DEF Start
  <1>1. /\ stack # << >> /\ Top.at = "taken" /\ t \in Tasks /\ t # None
        /\ On(stack, t, "taken") /\ stack \in Seq(Frame)
        /\ Story(t) /\ UNCHANGED <<caller, told>>
    BY <1>0, TopOwner, DispatcherAssumption DEF Start, Inv, callVars
  <1>2. /\ reply \in [Tasks -> {<< >>} \cup {<<o>> : o \in Outcome}] /\ runs \in [Tasks -> Nat]
    BY DEF Inv, Typed, TypeOK
  <1>3. runs[t] = 0 /\ reply[t] = << >> /\ Stage[t] = "pending"
    BY <1>1, StageFromStory, StageIs DEF Story
  <1>4. Golden!Inner(t) /\ TasksOf(Pop) = Golden!Outer /\ \A place : TasksOf(At(place)) = Nest
    BY <1>0, <1>1, TasksOfTop
  <1>5. Nest' = TasksOf(stack')
    BY DEF Nest, Depth, TasksOf
  <1>6. CASE Send(t, "cancelled") /\ stack' = Pop /\ UNCHANGED runs
    <2>1. /\ reply'[t] = Append(<< >>, "cancelled") /\ Append(<< >>, "cancelled") # << >>
          /\ \A u \in Tasks : u # t => reply'[u] = reply[u]
      BY <1>1, <1>2, <1>3, <1>6 DEF Send
    <2>2. /\ \A u \in Tasks : \A p : u # t => (On(stack', u, p) <=> On(stack, u, p))
          /\ \A p : ~On(stack', t, p)
      BY <1>0, <1>1, <1>6, PopStep
    <2>3. StageOf(t)' = "refused"
      BY <1>1, <1>3, <1>6, <2>1 DEF StageOf
    <2>4. \A u \in Tasks : u # t => StageOf(u)' = StageOf(u)
      BY <1>1, <1>6, <2>1, <2>2, StageKeeps
    <2>5. Golden!Becomes(t, "refused")
      BY <1>1, <2>3, <2>4, StageMoves
    <2>6. Golden!Refuse(t)
      BY <1>3, <1>4, <1>5, <1>6, <2>5 DEF Golden!Refuse
    <2>7. Ended'
      BY <1>6, <2>2 DEF Ended
    <2> QED BY <1>1, <2>6, <2>7 DEF Implements, Golden!Next
  <1>7. CASE runs' = [runs EXCEPT ![t] = @ + 1] /\ stack' = At("running") /\ UNCHANGED reply
    <2>1. runs'[t] = 1 /\ \A u \in Tasks : u # t => runs'[u] = runs[u]
      BY <1>1, <1>2, <1>3, <1>7
    <2>2. /\ \A u \in Tasks : \A p : u # t => (On(stack', u, p) <=> On(stack, u, p))
          /\ \A p : On(stack', t, p) <=> p = "running"
      BY <1>0, <1>1, <1>7, AtStep
    <2>3. StageOf(t)' = "running"
      BY <2>1, <2>2 DEF StageOf
    <2>4. \A u \in Tasks : u # t => StageOf(u)' = StageOf(u)
      BY <1>1, <1>7, <2>1, <2>2, StageKeeps
    <2>5. Golden!Becomes(t, "running")
      BY <1>1, <2>3, <2>4, StageMoves
    <2>6. Golden!Begin(t)
      BY <1>3, <1>4, <1>5, <1>7, <2>5 DEF Golden!Begin
    <2>7. Ended'
      BY <2>1, <2>2 DEF Ended
    <2> QED BY <1>1, <2>6, <2>7 DEF Implements, Golden!Next
  <1> QED BY <1>0, <1>6, <1>7 DEF Start

(* The innermost function ends.                                            *)
LEMMA FinishImplements ==
  ASSUME Inv, Ended, Finish
  PROVE  Implements
  <1>0. PICK t \in Tasks : t = Top.task
    BY TopOwner DEF Finish
  <1>1. /\ stack # << >> /\ Top.at = "running" /\ t \in Tasks /\ t # None
        /\ On(stack, t, "running") /\ stack \in Seq(Frame) /\ stack' = At("ended")
        /\ UNCHANGED <<caller, told, runs>>
    BY <1>0, TopOwner, DispatcherAssumption DEF Finish, callVars
  <1>2. reply \in [Tasks -> {<< >>} \cup {<<o>> : o \in Outcome}]
    BY DEF Inv, Typed, TypeOK
  <1>3. runs[t] = 1 /\ Stage[t] = "running"
    BY <1>1, StageFromStory, StageIs
  <1>4. Golden!Inner(t) /\ Nest' = Nest
    <2>1. Golden!Inner(t) /\ \A place : TasksOf(At(place)) = Nest
      BY <1>0, <1>1, TasksOfTop
    <2>2. Nest' = TasksOf(stack')
      BY DEF Nest, Depth, TasksOf
    <2> QED BY <1>1, <2>1, <2>2
  <1>5. \A u \in Tasks : u # t => reply'[u] = reply[u]
    BY <1>0, <1>1, <1>2 DEF Finish, Send
  <1>6. /\ \A u \in Tasks : \A p : u # t => (On(stack', u, p) <=> On(stack, u, p))
        /\ \A p : On(stack', t, p) <=> p = "ended"
    BY <1>0, <1>1, AtStep
  <1>7. StageOf(t)' = "completed"
    BY <1>1, <1>3, <1>6 DEF StageOf
  <1>8. \A u \in Tasks : u # t => StageOf(u)' = StageOf(u)
    BY <1>1, <1>5, <1>6, StageKeeps
  <1>9. Golden!Becomes(t, "completed")
    BY <1>1, <1>7, <1>8, StageMoves
  <1>10. Golden!Complete(t)
    BY <1>3, <1>4, <1>9 DEF Golden!Complete
  <1>11. Ended'
    BY <1>1, <1>3, <1>6 DEF Ended
  <1> QED BY <1>1, <1>10, <1>11 DEF Implements, Golden!Next

(* The innermost task is left.                                             *)
LEMMA EndImplements ==
  ASSUME Inv, Ended, End
  PROVE  Implements
  <1>0. PICK t \in Tasks : t = Top.task
    BY TopOwner DEF End
  <1>1. /\ stack # << >> /\ Top.at = "ended" /\ t \in Tasks /\ t # None
        /\ On(stack, t, "ended") /\ stack \in Seq(Frame) /\ stack' = Pop
        /\ UNCHANGED <<caller, told, runs, reply>>
    BY <1>0, TopOwner, DispatcherAssumption DEF End, callVars
  <1>2. runs[t] = 1 /\ ~On(stack, t, "running")
    <2>1. TasksOnce(stack)
      BY DEF Inv, Order
    <2>2. \A p : On(stack, t, p) => p = Top.at
      BY <1>0, <1>1, <2>1, OnPop
    <2> QED BY <1>1, <2>2 DEF Ended
  <1>3. Golden!Inner(t) /\ Nest' = Golden!Outer
    <2>1. Golden!Inner(t) /\ TasksOf(Pop) = Golden!Outer
      BY <1>0, <1>1, TasksOfTop
    <2>2. Nest' = TasksOf(stack')
      BY DEF Nest, Depth, TasksOf
    <2> QED BY <1>1, <2>1, <2>2
  <1>4. /\ \A u \in Tasks : \A p : u # t => (On(stack', u, p) <=> On(stack, u, p))
        /\ \A p : ~On(stack', t, p)
    BY <1>0, <1>1, PopStep
  <1>5. \A u \in Tasks : On(stack', u, "running") <=> On(stack, u, "running")
    BY <1>1, <1>2, <1>4
  <1>6. \A u \in Tasks : StageOf(u)' = StageOf(u)
    BY <1>1, <1>5, StageKeeps
  <1>7. Stage' = Stage /\ Stage[t] = "completed"
    <2>1. StageOf(t) = "completed"
      BY <1>2 DEF StageOf
    <2> QED BY <1>1, <1>6, <2>1, StageIs
  <1>8. Golden!Leave(t)
    BY <1>3, <1>7 DEF Golden!Leave
  <1>9. Ended'
    BY <1>1, <1>4 DEF Ended
  <1> QED BY <1>1, <1>8, <1>9 DEF Implements, Golden!Next

(* A step that moves frames only: all stages stay.                         *)
LEMMA FramesKeepStages ==
  ASSUME Ended, UNCHANGED <<caller, told, reply, runs>>,
         \A u \in Tasks, p \in {"running", "ended"} : On(stack', u, p) <=> On(stack, u, p)
  PROVE  Stage' = Stage /\ Ended'
  <1>1. \A u \in Tasks : StageOf(u)' = StageOf(u)
    BY StageKeeps
  <1> QED BY <1>1, StageIs DEF Ended

(* The host, or the innermost function, begins to wait.                    *)
LEMMA PumpUntilImplements ==
  ASSUME Inv, Ended, NEW u \in Spawned, PumpUntil(u)
  PROVE  Implements
  <1> DEFINE f == [task |-> None, at |-> "check", for |-> u]
  <1>1. f \in Frame /\ f.task = None /\ f.at = "check" /\ None \notin Tasks
    BY DispatcherAssumption DEF Frame, Tasks
  <1>2. stack \in Seq(Frame)
    BY DEF Inv, Typed, TypeOK
  <1>3. /\ stack' = Append(stack, f) /\ UNCHANGED <<caller, told, reply, runs>>
        /\ stack = << >> \/ (stack # << >> /\ Top.at = "running")
    BY DEF PumpUntil, Push, callVars
  <1> HIDE DEF f
  <1>4. \A t \in Tasks : \A p : On(stack', t, p) <=> On(stack, t, p)
    <2>1. \A t, p : On(stack', t, p) <=> On(stack, t, p) \/ (f.task = t /\ f.at = p)
      BY <1>1, <1>2, <1>3, OnPush
    <2> QED BY <1>1, <2>1
  <1>5. Stage' = Stage /\ Ended'
    BY <1>3, <1>4, FramesKeepStages
  <1>6. Nest' = Append(Nest, None)
    <2>1. TasksOf(Append(stack, f)) = Append(TasksOf(stack), None)
      BY <1>1, <1>2, TasksOfPush
    <2>2. Nest' = TasksOf(stack') /\ Nest = TasksOf(stack)
      BY DEF Nest, Depth, TasksOf
    <2> QED BY <1>3, <2>1, <2>2
  <1>7. Nest = << >> \/ \E t \in Tasks : Golden!Inner(t) /\ Stage[t] = "running"
    <2>1. CASE stack = << >>
      <3>1. Len(stack) = 0
        BY <2>1
      <3> QED BY <3>1 DEF Nest, Depth
    <2>2. CASE stack # << >> /\ Top.at = "running"
      <3>1. Top.task \in Tasks /\ On(stack, Top.task, "running") /\ Golden!Inner(Top.task)
        BY <1>2, <2>2, TopOwner, TasksOfTop
      <3>2. Stage[Top.task] = "running"
        BY <3>1, StageFromStory, StageIs
      <3> QED BY <3>1, <3>2
    <2> QED BY <1>3, <2>1, <2>2
  <1>8. Golden!Wait
    BY <1>5, <1>6, <1>7 DEF Golden!Wait
  <1> QED BY <1>5, <1>8 DEF Implements, Golden!Next

(* A receive, by a loop or by a wait: the thread takes a task.             *)
LEMMA ReceiveImplements ==
  ASSUME Inv, Ended, ~Stopped, NEW frames \in Seq(Frame), TasksOf(frames) = Nest,
         \A u \in Tasks, p \in {"running", "ended"} : On(frames, u, p) <=> On(stack, u, p),
         TakeFast(frames) \/ TakeTask(frames),
         UNCHANGED <<caller, told, reply, runs>>
  PROVE  Implements
  <1>1. /\ taskChan \in Seq(Tasks) /\ fastChan \in Seq(Tasks)
        /\ Distinct(taskChan) /\ Distinct(fastChan)
    BY DEF Inv, Typed, TypeOK, Order
  <1>2. PICK t \in Tasks :
          InQueue(t) /\ stack' = Append(frames, [task |-> t, at |-> "taken", for |-> None])
    <2>1. CASE TakeFast(frames)
      <3>1. Head(fastChan) \in Tasks /\ In(fastChan, Head(fastChan))
        BY <1>1, <2>1, InTail DEF TakeFast
      <3> QED BY <2>1, <3>1 DEF TakeFast, Push, InQueue
    <2>2. CASE TakeTask(frames)
      <3>1. Head(taskChan) \in Tasks /\ In(taskChan, Head(taskChan))
        BY <1>1, <2>2, InTail DEF TakeTask
      <3> QED BY <2>2, <3>1 DEF TakeTask, Push, InQueue
    <2> QED BY <2>1, <2>2
  <1> DEFINE f == [task |-> t, at |-> "taken", for |-> None]
  <1>3. f \in Frame /\ f.task = t /\ f.at = "taken" /\ stack' = Append(frames, f)
    BY <1>2 DEF Frame
  <1> HIDE DEF f
  <1>4. \A u \in Tasks, p \in {"running", "ended"} : On(stack', u, p) <=> On(stack, u, p)
    <2>1. \A u, p : On(stack', u, p) <=> On(frames, u, p) \/ (f.task = u /\ f.at = p)
      BY <1>3, OnPush
    <2> QED BY <1>3, <2>1
  <1>5. Stage' = Stage /\ Ended'
    BY <1>4, FramesKeepStages
  <1>6. Nest' = Append(Nest, t)
    <2>1. TasksOf(Append(frames, f)) = Append(TasksOf(frames), t)
      BY <1>3, TasksOfPush
    <2>2. Nest' = TasksOf(stack')
      BY DEF Nest, Depth, TasksOf
    <2> QED BY <1>3, <2>1, <2>2
  <1>7. Stage[t] = "pending" /\ ~Golden!Held(t)
    BY <1>2, StageFromStory, StageIs, HeldIs
  <1>8. Golden!Take(t)
    BY <1>5, <1>6, <1>7 DEF Golden!Take
  <1> QED BY <1>5, <1>8 DEF Implements, Golden!Next

(* A turn of PumpUntil: the wait ends, or sleeps, or takes a task.         *)
LEMMA PumpImplements ==
  ASSUME Inv, Ended, PumpCheck \/ PumpSelect
  PROVE  Implements
  <1>1. /\ stack # << >> /\ Top.at \in {"check", "pump"} /\ Top.task = None
        /\ stack \in Seq(Frame) /\ None \notin Tasks /\ ~Stopped
        /\ UNCHANGED <<caller, told, reply, runs>>
    BY TopOwner, DispatcherAssumption DEF PumpCheck, PumpSelect, callVars, Stopped, Closing
  <1>2. /\ Golden!Inner(None) /\ TasksOf(Pop) = Golden!Outer
        /\ \A place : TasksOf(At(place)) = Nest
    BY <1>1, TasksOfTop
  <1>3. Nest' = TasksOf(stack')
    BY DEF Nest, Depth, TasksOf
  <1>4. CASE stack' = Pop
    <2>1. \A u \in Tasks, p \in {"running", "ended"} : On(stack', u, p) <=> On(stack, u, p)
      BY <1>1, <1>4, PopStep
    <2>2. Stage' = Stage /\ Ended'
      BY <1>1, <2>1, FramesKeepStages
    <2>3. Golden!EndWait
      BY <1>2, <1>3, <1>4, <2>2 DEF Golden!EndWait
    <2> QED BY <2>2, <2>3 DEF Implements, Golden!Next
  <1>5. CASE stack' = At("pump")
    <2>1. \A u \in Tasks, p \in {"running", "ended"} : On(stack', u, p) <=> On(stack, u, p)
      BY <1>1, <1>5, AtStep
    <2>2. Stage' = Stage /\ Ended'
      BY <1>1, <2>1, FramesKeepStages
    <2> QED BY <1>2, <1>3, <1>5, <2>2 DEF Implements
  <1>6. CASE TakeFast(At("check")) \/ TakeTask(At("check"))
    <2>1. /\ \A t, p : On(Pop, t, p) => On(stack, t, p)
          /\ \A t, p : On(stack, t, p) => On(Pop, t, p) \/ (t = Top.task /\ p = Top.at)
          /\ At("check") \in Seq(Frame)
          /\ \A t, p : On(At("check"), t, p) <=> On(Pop, t, p) \/ (t = Top.task /\ p = "check")
      BY <1>1, OnPop, OnAt
    <2>2. \A u \in Tasks, p \in {"running", "ended"} :
             On(At("check"), u, p) <=> On(stack, u, p)
      BY <1>1, <2>1
    <2> QED BY <1>1, <1>2, <1>6, <2>1, <2>2, ReceiveImplements
  <1> QED BY <1>4, <1>5, <1>6 DEF PumpCheck, PumpSelect

(* The shutdown drain refuses the head of a channel.                       *)
LEMMA DrainImplements ==
  ASSUME Inv, Ended, DrainReject
  PROVE  Implements
  <1>1. /\ taskChan \in Seq(Tasks) /\ fastChan \in Seq(Tasks)
        /\ Distinct(taskChan) /\ Distinct(fastChan)
        /\ reply \in [Tasks -> {<< >>} \cup {<<o>> : o \in Outcome}]
    BY DEF Inv, Typed, TypeOK, Order
  <1>2. loop = "drain" /\ ~Stopped /\ UNCHANGED <<stack, runs, caller, told>>
    BY DEF DrainReject, InLoop, Stopped, callVars
  <1>3. PICK t \in Tasks : InQueue(t) /\ Send(t, "shutdown")
    <2>1. CASE fastChan # << >> /\ Send(Head(fastChan), "shutdown")
      <3>1. Head(fastChan) \in Tasks /\ In(fastChan, Head(fastChan))
        BY <1>1, <2>1, InTail
      <3> QED BY <2>1, <3>1 DEF InQueue
    <2>2. CASE taskChan # << >> /\ Send(Head(taskChan), "shutdown")
      <3>1. Head(taskChan) \in Tasks /\ In(taskChan, Head(taskChan))
        BY <1>1, <2>2, InTail
      <3> QED BY <2>2, <3>1 DEF InQueue
    <2> QED BY <2>1, <2>2 DEF DrainReject
  <1>4. Story(t) /\ StageOf(t) = "pending" /\ ~OnStack(t)
    BY <1>2, <1>3, StageFromStory DEF Inv
  <1>5. runs[t] = 0 /\ reply[t] = << >>
    BY <1>3, <1>4 DEF Story
  <1>6. /\ reply'[t] = Append(<< >>, "shutdown") /\ Append(<< >>, "shutdown") # << >>
        /\ \A u \in Tasks : u # t => reply'[u] = reply[u]
    BY <1>1, <1>3, <1>5 DEF Send
  <1>7. StageOf(t)' = "refused"
    BY <1>2, <1>5, <1>6 DEF StageOf
  <1>8. \A u \in Tasks : u # t => StageOf(u)' = StageOf(u)
    BY <1>2, <1>6, StageKeeps
  <1> QED BY <1>2, <1>4, <1>7, <1>8, StepRefuses

(* A turn of one of the loops: it takes a task, or is beside the tasks.    *)
LEMMA LoopImplements ==
  ASSUME Inv, Ended, Loop
  PROVE  Implements
  <1>1. ASSUME UNCHANGED <<stack, runs, caller, told, reply>> PROVE Implements
    <2>1. \A u \in Tasks : StageOf(u)' = StageOf(u)
      BY <1>1, StageKeeps
    <2> QED BY <1>1, <2>1, StepBeside
  <1>2. ASSUME TakeFast(stack) \/ TakeTask(stack), ~Stopped, UNCHANGED loopFrame
        PROVE  Implements
    <2>1. stack \in Seq(Frame) /\ TasksOf(stack) = Nest
      BY DEF Inv, Typed, TypeOK, TasksOf, Nest, Depth
    <2>2. UNCHANGED <<caller, told, reply, runs>>
      BY <1>2 DEF loopFrame, callVars
    <2> QED BY <1>2, <2>1, <2>2, ReceiveImplements
  <1>3. CASE RunDrainFast
    BY <1>1, <1>2, <1>3 DEF RunDrainFast, InLoop, Stopped, loopFrame, callVars
  <1>4. CASE RunSelectTask
    BY <1>2, <1>4 DEF RunSelectTask, InLoop, Stopped
  <1>5. CASE EpollServeFast
    BY <1>1, <1>2, <1>5 DEF EpollServeFast, InLoop, Stopped, loopFrame, callVars
  <1>6. CASE EpollServeTask
    BY <1>1, <1>2, <1>6 DEF EpollServeTask, InLoop, Stopped, loopFrame, callVars
  <1>7. CASE PumpOnceFast
    BY <1>1, <1>2, <1>7 DEF PumpOnceFast, InLoop, Stopped, loopFrame, callVars
  <1>8. CASE PumpOnceSelect
    BY <1>2, <1>8 DEF PumpOnceSelect, InLoop, Stopped
  <1>9. CASE RunTop \/ RunSelectOther \/ DrainEnd \/ PumpOnceTimeout
    BY <1>1, <1>9 DEF RunTop, RunSelectOther, DrainEnd, PumpOnceTimeout, loopFrame, callVars
  <1>10. CASE EpollInstall \/ EpollWait \/ ClearWaker \/ Stop
    BY <1>1, <1>10 DEF EpollInstall, EpollWait, ClearWaker, Stop, callVars
  <1> QED BY <1>3, <1>4, <1>5, <1>6, <1>7, <1>8, <1>9, <1>10, DrainImplements DEF Loop

(* The dispatcher is a thread that executes every task at most once or     *)
(* refuses it for good, and finishes the task it took last before the one  *)
(* it left waiting: in each of its loops, however executions nest and      *)
(* whenever it is shut down.                                               *)
THEOREM RefinesGoldenThread == Spec => ImplementsGoldenThread
  <1>1. Init => Golden!Init /\ Ended
    <2> SUFFICES ASSUME Init PROVE Golden!Init /\ Ended
      OBVIOUS
    <2>1. Nest = << >>
      <3>1. Len(stack) = 0
        BY DEF Init
      <3> QED BY <3>1 DEF Nest, Depth
    <2>2. \A t \in Tasks : StageOf(t) = "new"
      <3>1. \A t \in Tasks : caller[t] = "idle"
        BY DEF Init
      <3> QED BY <3>1, InvInit, StageFromStory
    <2>3. Stage = [t \in Tasks |-> "new"]
      BY <2>2, StageIs DEF Stage
    <2>4. Ended
      BY DEF Init, Ended, On
    <2> QED BY <2>1, <2>3, <2>4 DEF Golden!Init
  <1>2. Inv /\ Ended /\ [Next]_vars => Ended' /\ [Golden!Next]_<<Stage, Nest>>
    <2> SUFFICES ASSUME Inv, Ended, [Next]_vars PROVE Implements
      BY DEF Implements
    <2>1. CASE UNCHANGED <<stack, runs, caller, told, reply>>
      <3>1. \A u \in Tasks : StageOf(u)' = StageOf(u)
        BY <2>1, StageKeeps
      <3> QED BY <2>1, <3>1, StepBeside
    <2>2. CASE UNCHANGED vars \/ (\E t \in AsyncTasks : CancelTask(t)) \/ Cancel \/ WriteShutdownFD
      BY <2>1, <2>2 DEF vars, callVars, CancelTask, Cancel, WriteShutdownFD
    <2>3. CASE Execute
      BY <2>3, StartImplements, FinishImplements, EndImplements, PumpImplements DEF Execute
    <2> QED BY <2>2, <2>3, CallImplements, LoopImplements, PumpUntilImplements DEF Next
  <1> QED BY <1>1, <1>2, Invariance, PTL DEF Spec, ImplementsGoldenThread, Golden!Spec
=============================================================================
