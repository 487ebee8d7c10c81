--------------------------- MODULE ChannelsProofs ---------------------------
(***************************************************************************)
(* Proofs about Channels, for any number of goroutines, any size of the    *)
(* channel, both modes and any number of operations and values: values are *)
(* neither lost nor doubled on their way through the channel, nobody is    *)
(* told otherwise, and a select panics or a pull ends an open stream only  *)
(* if another goroutine came between its look and its act.                 *)
(*                                                                         *)
(* Proofs about Awaits, for any event loops and executors, any number of   *)
(* tasks and ops and any depth of awaits: no bridge call of a future gets  *)
(* lost or is served twice, an abandoned future stops, and an await        *)
(* returns the result of its own task, or, where awaits share their        *)
(* variables, of one that may mislead it.                                  *)
(***************************************************************************)
EXTENDS Channels, Awaits, FiniteSetTheorems, TLAPS

----------------------------------------------------------------------------
(* Sequences                                                               *)

(* A sequence with one element more at its end ...                         *)
LEMMA Appended ==
  ASSUME NEW S, NEW s \in Seq(S), NEW e \in S, NEW t, t = Append(s, e)
  PROVE  /\ t \in Seq(S) /\ Len(t) = Len(s) + 1 /\ t # << >>
         /\ DOMAIN t = DOMAIN s \cup {Len(s) + 1} /\ Len(s) + 1 \notin DOMAIN s
         /\ \A j \in DOMAIN s : t[j] = s[j]
         /\ t[Len(s) + 1] = e
  OBVIOUS

(* ... or without its first.                                               *)
LEMMA Tailed ==
  ASSUME NEW S, NEW s \in Seq(S), s # << >>, NEW t, t = Tail(s)
  PROVE  /\ t \in Seq(S) /\ Len(t) = Len(s) - 1 /\ Head(s) = s[1] /\ Head(s) \in S
         /\ 1 \in DOMAIN s
         /\ \A j \in DOMAIN t : j + 1 \in DOMAIN s /\ t[j] = s[j + 1] /\ j \in Nat
  OBVIOUS

----------------------------------------------------------------------------
(* The invariant                                                           *)

(* Where Main and the workers can be; only Main selects.                   *)
Selecting == {"resolving", "selecting", "blocked"}
MainPlaces == {"idle", "receiving", "pulling", "taking", "waiting", "panicked"} \cup Selecting
WorkerPlaces == {"idle", "done", "receiving", "waiting", "retrying", "running", "calling"}

(* A process in state x has a value that is not in the channel ...         *)
Holding(x) == x.at \in Selecting \cup {"retrying"}
Fresh(v) == v \in 1..offered /\ v \notin Range(accepted)

(* ... or waits to receive one, which it does only while there is none.    *)
Receives(x) == x.at = "receiving" \/ (x.at = "blocked" /\ "recv" \in x.cases)

(* A select looked before the channel was closed.                          *)
Looks(x) ==
  /\ x.at = "panicked" => raced
  /\ x.at \in Selecting /\ "send" \in x.cases /\ closed => raced
  /\ x.at = "blocked" /\ "send" \in x.cases => ~closed

(* A pull with pending saw a value, which is there unless it was stolen.   *)
Pulls(x) ==
  /\ x.at \notin {"pulling", "taking"} => ~x.pending
  /\ x.at = "taking" /\ x.pending => closed \/ stolen \/ buf # << >>

(* The state x of process p fits the state of the channel.                 *)
Fits(p, x) ==
  /\ IF p = Main THEN x.at \in MainPlaces /\ x.kind = "main" /\ Looks(x) /\ Pulls(x)
     ELSE x.at \in WorkerPlaces
  /\ p \in calls => x.at = "calling" /\ x.kind = "callback"
  /\ Holding(x) => Fresh(x.val)
  /\ Receives(x) => buf = << >> /\ ~closed

(* No two processes have the same value.                                   *)
Alone ==
  \A p, q \in Procs :
    Holding(proc[p]) /\ Holding(proc[q]) /\ proc[p].val = proc[q].val => p = q

(* Values that went in have been taken or are in the buffer.               *)
Flow ==
  /\ accepted \in Seq(Values) /\ taken \in Seq(Values) /\ accepted = taken \o buf
  /\ IsInjective(accepted) /\ Range(accepted) = told /\ told \subseteq 1..offered

Inv == TypeOK /\ Flow /\ Alone /\ \A p \in Procs : Fits(p, proc[p])

LEMMA Names == /\ Main \notin Workers /\ Main \in Procs /\ Workers \subseteq Procs
               /\ Sizes \subseteq Nat /\ Modes \subseteq BOOLEAN
               /\ Batch \in Nat /\ Batch >= 1 /\ MaxOps \in Nat /\ MaxValues \in Nat
               /\ \A v \in Values : v \in Nat /\ v # 0
               /\ Procs = Workers \cup {Main}
  BY ChannelsAssumption DEF Procs, Values

(* A process that has ended its operation.                                 *)
Rests(p, x) ==
  /\ x \in Proc /\ x.at = (IF p = Main THEN "idle" ELSE "done")
  /\ x.kind = proc[p].kind /\ ~x.pending

LEMMA EndedIs ==
  ASSUME TypeOK, NEW p \in Procs
  PROVE  /\ Rests(p, Ended(p))
         /\ \A v \in Values : Rests(p, EndedWith(p, v))
  <1>1. 0 \in 0..Batch /\ 1 \in {1, Batch}
    BY Names
  <1>2. proc[p] \in Proc
    BY DEF TypeOK
  <1>3. Resting(proc[p].kind) \in Proc
    BY <1>1, <1>2 DEF Resting, Proc
  <1>4. Rests(p, Ended(p))
    BY <1>1, <1>2 DEF Ended, Rests, Resting, Proc
  <1>5. ASSUME NEW v \in Values PROVE Rests(p, EndedWith(p, v))
    BY <1>4 DEF EndedWith, Rests, Proc
  <1> QED BY <1>4, <1>5

LEMMA InvInit == ASSUME Init PROVE Inv
  <1>1. \A kind \in {"main", "none"} : Resting(kind) \in Proc
    BY Names DEF Resting, Proc
  <1>2. \A p \in Procs : /\ proc[p] \in Proc /\ proc[p].at = "idle" /\ ~proc[p].pending
                         /\ proc[p].kind = IF p = Main THEN "main" ELSE "none"
    BY <1>1 DEF Init, Resting
  <1>3. TypeOK
    <2>1. proc \in [Procs -> Proc]
      BY <1>2 DEF Init
    <2>2. 0 \in 0..MaxOps /\ \A s \in Sizes : 0 <= s
      BY Names
    <2>3. << >> \in Seq(Values) /\ Len(<< >>) = 0
      OBVIOUS
    <2> QED BY <2>1, <2>2, <2>3 DEF Init, TypeOK
  <1>4. Alone /\ \A p \in Procs : Fits(p, proc[p])
    <2>1. calls = {}
      BY DEF Init
    <2>2. \A p \in Procs : ~Holding(proc[p]) /\ ~Receives(proc[p])
      BY <1>2 DEF Holding, Selecting, Receives
    <2>3. \A p \in Procs : Looks(proc[p]) /\ Pulls(proc[p])
      BY <1>2 DEF Looks, Pulls, Selecting
    <2> QED BY <1>2, <2>1, <2>2, <2>3 DEF Fits, MainPlaces, WorkerPlaces, Alone
  <1>5. Flow
    BY DEF Init, Flow, IsInjective, Range
  <1> QED BY <1>3, <1>4, <1>5 DEF Inv

----------------------------------------------------------------------------
(* Values in order, none of them twice                                     *)

LEMMA Fresher ==
  ASSUME NEW s \in Seq(Values), NEW v \in Values, IsInjective(s), v \notin Range(s),
         NEW t, t = Append(s, v)
  PROVE  IsInjective(t) /\ Range(t) = Range(s) \cup {v}
  <1>1. /\ DOMAIN t = DOMAIN s \cup {Len(s) + 1} /\ Len(s) + 1 \notin DOMAIN s
        /\ \A j \in DOMAIN s : t[j] = s[j]
        /\ t[Len(s) + 1] = v
    BY Appended
  <1>2. IsInjective(t)
    BY <1>1 DEF IsInjective, Range
  <1>3. Range(t) = Range(s) \cup {v}
    BY <1>1 DEF Range
  <1> QED BY <1>2, <1>3

LEMMA Concatenated ==
  ASSUME NEW out \in Seq(Values), NEW rest \in Seq(Values), NEW v \in Values
  PROVE  Append(out \o rest, v) = out \o Append(rest, v)
  OBVIOUS

(* One more value at the end.                                              *)
LEMMA Longer ==
  ASSUME NEW in \in Seq(Values), NEW out \in Seq(Values), NEW rest \in Seq(Values),
         in = out \o rest, IsInjective(in), NEW v \in Values, v \notin Range(in),
         NEW all, all = Append(in, v), NEW more, more = Append(rest, v)
  PROVE  /\ all \in Seq(Values) /\ IsInjective(all) /\ Range(all) = Range(in) \cup {v}
         /\ all = out \o more
  <1>1. all \in Seq(Values)
    BY Appended
  <1>2. IsInjective(all) /\ Range(all) = Range(in) \cup {v}
    BY Fresher
  <1>3. all = out \o more
    <2>1. Append(out \o rest, v) = out \o Append(rest, v)
      BY Concatenated, Zenon
    <2> QED BY <2>1, Zenon
  <1> QED BY <1>1, <1>2, <1>3

(* One of the rest goes out.                                               *)
LEMMA Shorter ==
  ASSUME NEW out \in Seq(Values), NEW rest \in Seq(Values), rest # << >>
  PROVE  Append(out, Head(rest)) \o Tail(rest) = out \o rest
  OBVIOUS

----------------------------------------------------------------------------
(* What a step leaves alone                                                *)

Scalars ==
  /\ coop \in Modes /\ size \in Sizes /\ calls \subseteq Workers
  /\ handle \in {"live", "released"} /\ ops \in 0..MaxOps /\ offered \in Values \cup {0}

(* A process that did nothing still fits.                                  *)
LEMMA KeptFits ==
  ASSUME Inv, NEW q \in Procs, proc'[q] = proc[q], q \in calls' => q \in calls,
         offered \in Nat, offered' \in Nat, offered <= offered',
         Holding(proc[q]) => proc[q].val \notin Range(accepted'),
         Receives(proc[q]) => buf' = << >> /\ ~closed',
         q = Main =>
           /\ raced => raced'
           /\ closed' => closed \/ raced'
           /\ proc[Main].at = "blocked" /\ "send" \in proc[Main].cases => ~closed'
           /\ closed => closed'
           /\ stolen => stolen'
           /\ proc[Main].at = "taking" => stolen' \/ (buf # << >> => buf' # << >>)
  PROVE  Fits(q, proc[q])'
  <1>1. Fits(q, proc[q])
    BY DEF Inv
  <1>2. Holding(proc[q]) => Fresh(proc[q].val)'
    BY <1>1 DEF Fits, Fresh
  <1>3. q = Main => Looks(proc[q])' /\ Pulls(proc[q])'
    BY <1>1 DEF Fits, Looks, Pulls, Selecting
  <1> QED BY <1>1, <1>2, <1>3 DEF Fits, Holding, Receives

(* A process that rests fits whatever the channel does.                    *)
LEMMA RestingFits ==
  ASSUME Inv, NEW q \in Procs, Rests(q, proc'[q]), q \notin calls'
  PROVE  Fits(q, proc[q])'
  <1>1. q = Main => proc'[q].kind = "main"
    BY DEF Inv, Fits, Rests
  <1>2. ~Holding(proc'[q]) /\ ~Receives(proc'[q])
    BY DEF Rests, Holding, Selecting, Receives
  <1>3. q = Main => Looks(proc[q])' /\ Pulls(proc[q])'
    BY DEF Rests, Looks, Pulls, Selecting
  <1> QED BY <1>1, <1>2, <1>3 DEF Rests, Fits, Holding, Receives, MainPlaces, WorkerPlaces

(* A value is new, or the process had it before.                           *)
LEMMA AloneKept ==
  ASSUME Inv, NEW p \in Procs, offered \in Nat,
         \A q \in Procs : Holding(proc'[q]) =>
           \/ Holding(proc[q]) /\ proc'[q].val = proc[q].val
           \/ q = p /\ proc'[q].val \in Nat /\ proc'[q].val > offered
  PROVE  Alone'
  <1>1. \A q \in Procs : Holding(proc[q]) => proc[q].val \in Nat /\ proc[q].val <= offered
    BY DEF Inv, Fits, Fresh
  <1> SUFFICES ASSUME NEW q \in Procs, NEW r \in Procs, Holding(proc'[q]),
                      Holding(proc'[r]), proc'[q].val = proc'[r].val
               PROVE  q = r
    BY DEF Alone, Holding
  <1>2. CASE q = p /\ proc'[q].val > offered
    BY <1>1, <1>2
  <1>3. CASE r = p /\ proc'[r].val > offered
    BY <1>1, <1>3
  <1>4. CASE /\ Holding(proc[q]) /\ proc'[q].val = proc[q].val
             /\ Holding(proc[r]) /\ proc'[r].val = proc[r].val
    BY <1>4 DEF Inv, Alone
  <1> QED BY <1>2, <1>3, <1>4

LEMMA OfferedIs ==
  ASSUME TypeOK \/ Scalars
  PROVE  offered \in Nat /\ offered <= MaxValues
  BY Names DEF TypeOK, Scalars, Values

(* One process moves and the channel stays as it is.                       *)
LEMMA Moves ==
  ASSUME Inv, NEW p \in Procs, NEW x \in Proc, proc' = [proc EXCEPT ![p] = x],
         UNCHANGED <<chanVars, told>>, Scalars', size' = size, offered <= offered',
         calls' \subseteq calls \cup {p}, Fits(p, proc[p])',
         Holding(x) => \/ Holding(proc[p]) /\ x.val = proc[p].val
                       \/ x.val \in Nat /\ x.val > offered,
         p # Main => UNCHANGED <<stolen, raced>>
  PROVE  Inv'
  <1>1. /\ buf' = buf /\ closed' = closed /\ accepted' = accepted /\ taken' = taken
        /\ told' = told
    BY DEF chanVars
  <1>2. /\ proc' \in [Procs -> Proc] /\ proc'[p] = x
        /\ \A q \in Procs \ {p} : proc'[q] = proc[q]
    BY DEF Inv, TypeOK
  <1>3. TypeOK'
    BY <1>1, <1>2 DEF Inv, TypeOK, Scalars
  <1>4. offered \in Nat /\ offered' \in Nat
    BY <1>3, OfferedIs, Names DEF Inv, TypeOK, Values
  <1>5. Flow'
    <2>1. 1..offered \subseteq 1..offered'
      BY <1>4
    <2> QED BY <1>1, <2>1 DEF Inv, Flow, IsInjective, Range
  <1>6. Alone'
    <2>1. \A q \in Procs : Holding(proc'[q]) =>
           \/ Holding(proc[q]) /\ proc'[q].val = proc[q].val
           \/ q = p /\ proc'[q].val \in Nat /\ proc'[q].val > offered
      BY <1>2
    <2> QED BY <1>4, <2>1, AloneKept
  <1>7. ASSUME NEW q \in Procs \ {p} PROVE Fits(q, proc[q])'
    <2>1. Fits(q, proc[q])
      BY DEF Inv
    <2>2. Holding(proc[q]) => proc[q].val \notin Range(accepted')
      BY <1>1, <2>1 DEF Fits, Fresh
    <2>3. Receives(proc[q]) => buf' = << >> /\ ~closed'
      BY <1>1, <2>1 DEF Fits
    <2>4. q = Main => /\ proc[Main].at = "blocked" /\ "send" \in proc[Main].cases => ~closed'
                      /\ stolen' = stolen /\ raced' = raced
      BY <1>1, <2>1 DEF Fits, Looks
    <2>5. q \in Procs /\ proc'[q] = proc[q] /\ (q \in calls' => q \in calls)
      BY <1>2
    <2> QED BY <1>1, <1>4, <2>2, <2>3, <2>4, <2>5, KeptFits
  <1> QED BY <1>3, <1>5, <1>6, <1>7 DEF Inv

(* An operation ends without a word about the channel.                     *)
LEMMA RestKeeps ==
  ASSUME Inv, NEW p \in Procs, NEW x \in Proc, Rests(p, x),
         proc' = [proc EXCEPT ![p] = x], UNCHANGED <<chanVars, told>>, Scalars',
         size' = size, offered <= offered', calls' \subseteq calls, p \notin calls',
         p # Main => UNCHANGED <<stolen, raced>>
  PROVE  Inv'
  <1>1. proc'[p] = x
    BY DEF Inv, TypeOK
  <1>2. Fits(p, proc[p])'
    BY <1>1, RestingFits
  <1>3. ~Holding(x)
    BY DEF Rests, Holding, Selecting
  <1> QED BY <1>2, <1>3, Moves

----------------------------------------------------------------------------
(* A value goes in                                                         *)

(* It comes last, and at most one receiver gets it at once.                *)
LEMMA PutIs ==
  ASSUME Inv, NEW p \in Procs, NEW v \in Values, v \notin Range(accepted), HasRoom,
         p \notin Receivers, NEW after \in Proc, Put(v, p, after),
         told' = told \cup {v}
  PROVE  /\ accepted' \in Seq(Values) /\ taken' \in Seq(Values)
         /\ accepted' = taken' \o buf' /\ IsInjective(accepted')
         /\ Range(accepted') = told' /\ Range(accepted') = Range(accepted) \cup {v}
         /\ buf' \in Seq(Values) /\ Len(buf') <= size
         /\ closed' = closed /\ (buf # << >> => buf' # << >>)
         /\ (Receivers # {} => buf' = << >>)
         /\ proc' \in [Procs -> Proc] /\ proc'[p] = after
         /\ \A q \in Procs \ {p} :
              proc'[q] = proc[q] \/ (q \in Receivers /\ Rests(q, proc'[q]))
  <1>1. /\ accepted \in Seq(Values) /\ taken \in Seq(Values) /\ buf \in Seq(Values)
        /\ accepted = taken \o buf /\ IsInjective(accepted) /\ Range(accepted) = told
        /\ size \in Nat /\ Len(buf) <= size /\ proc \in [Procs -> Proc] /\ TypeOK
    BY Names DEF Inv, Flow, TypeOK
  <1>2. accepted' = Append(accepted, v) /\ closed' = closed
    BY DEF Put
  <1>3. /\ accepted' \in Seq(Values) /\ IsInjective(accepted')
        /\ Range(accepted') = Range(accepted) \cup {v} /\ Range(accepted') = told'
    <2>1. accepted \in Seq(Values) /\ IsInjective(accepted)
      BY <1>1
    <2>2. /\ accepted' \in Seq(Values) /\ IsInjective(accepted')
          /\ Range(accepted') = Range(accepted) \cup {v}
      BY <2>1, <1>2, Fresher, Appended
    <2> QED BY <1>1, <2>2, Zenon
  <1>4. CASE Receivers = {}
    <2>1. /\ buf' = Append(buf, v) /\ taken' = taken
          /\ proc' = [proc EXCEPT ![p] = after] /\ Len(buf) < size
      BY <1>4 DEF Put, HasRoom
    <2>2. buf' \in Seq(Values) /\ Len(buf') = Len(buf) + 1 /\ buf' # << >>
      BY <1>1, <2>1, Appended
    <2>3. accepted' = taken' \o buf'
      <3>1. Append(taken \o buf, v) = taken \o Append(buf, v)
        BY <1>1, Concatenated, Zenon
      <3> QED BY <1>1, <1>2, <2>1, <3>1, Zenon
    <2>4. Len(buf') <= size
      BY <1>1, <2>1, <2>2
    <2>5. proc' \in [Procs -> Proc] /\ proc'[p] = after
          /\ \A q \in Procs \ {p} : proc'[q] = proc[q]
      BY <1>1, <2>1
    <2>6. taken' \in Seq(Values) /\ (Receivers # {} => buf' = << >>)
      BY <1>1, <1>4, <2>1
    <2> QED BY <1>2, <1>3, <2>2, <2>3, <2>4, <2>5, <2>6, Zenon
  <1>5. CASE Receivers # {}
    <2>1. PICK r \in Receivers :
            /\ proc' = [proc EXCEPT ![p] = after, ![r] = EndedWith(r, v)]
            /\ taken' = Append(taken, v) /\ buf' = buf
      BY <1>5 DEF Put
    <2>2. r \in Procs /\ r # p
      BY DEF Receivers
    <2>3. Rests(r, EndedWith(r, v))
      BY <1>1, <2>2, EndedIs
    <2>4. buf = << >>
      <3>1. Fits(r, proc[r])
        BY <2>2 DEF Inv
      <3>2. Receives(proc[r])
        BY DEF Receives, Receivers
      <3> QED BY <3>1, <3>2 DEF Fits
    <2>5. taken' \in Seq(Values) /\ accepted' = taken' \o buf'
      <3>1. accepted = taken
        BY <1>1, <2>4
      <3>2. accepted' = taken'
        BY <1>2, <2>1, <3>1
      <3> QED BY <1>3, <2>1, <2>4, <3>2
    <2>6. /\ proc' \in [Procs -> Proc] /\ proc'[p] = after
          /\ proc'[r] = EndedWith(r, v) /\ \A q \in Procs \ {p, r} : proc'[q] = proc[q]
      BY <1>1, <2>1, <2>2, <2>3 DEF Rests
    <2>7. buf' \in Seq(Values) /\ Len(buf') <= size /\ buf' = << >>
          /\ (buf # << >> => buf' # << >>)
      BY <1>1, <2>1, <2>4
    <2>8. \A q \in Procs \ {p} : proc'[q] = proc[q] \/ (q \in Receivers /\ Rests(q, proc'[q]))
      BY <2>3, <2>6
    <2> QED BY <1>2, <1>3, <2>5, <2>6, <2>7, <2>8, Zenon
  <1> QED BY <1>4, <1>5

LEMMA PutKeeps ==
  ASSUME Inv, NEW p \in Procs, NEW v \in Values, v \notin Range(accepted), HasRoom,
         p \notin Receivers, NEW after \in Proc, Put(v, p, after),
         told' = told \cup {v}, Rests(p, after), p \notin calls,
         \A q \in Procs \ {p} : Holding(proc[q]) => proc[q].val # v,
         Scalars', size' = size, offered <= offered', v <= offered', calls' = calls,
         UNCHANGED <<stolen, raced>>
  PROVE  Inv'
  <1>1. /\ accepted' \in Seq(Values) /\ taken' \in Seq(Values)
        /\ accepted' = taken' \o buf' /\ IsInjective(accepted')
        /\ Range(accepted') = told' /\ Range(accepted') = Range(accepted) \cup {v}
        /\ buf' \in Seq(Values) /\ Len(buf') <= size
        /\ closed' = closed /\ (buf # << >> => buf' # << >>)
        /\ (Receivers # {} => buf' = << >>)
        /\ proc' \in [Procs -> Proc] /\ proc'[p] = after
        /\ \A q \in Procs \ {p} :
             proc'[q] = proc[q] \/ (q \in Receivers /\ Rests(q, proc'[q]))
    BY PutIs
  <1>2. TypeOK'
    BY <1>1 DEF Inv, TypeOK, Scalars
  <1>3. offered \in Nat /\ offered' \in Nat /\ v \in 1..offered'
    BY <1>2, OfferedIs, Names DEF Inv, TypeOK, Values
  <1>4. Flow'
    <2>1. told' \subseteq 1..offered'
      <3>1. told \subseteq 1..offered /\ 1..offered \subseteq 1..offered'
        BY <1>3 DEF Inv, Flow
      <3> QED BY <1>3, <3>1
    <2>2. IsInjective(accepted)' /\ (Range(accepted) = told)'
      <3>1. IsInjective(accepted') /\ Range(accepted') = told'
        BY <1>1
      <3> QED BY <3>1 DEF IsInjective, Range
    <2> QED BY <1>1, <2>1, <2>2 DEF Flow
  <1>5. \A q \in Receivers : q \notin calls
    BY DEF Inv, Fits, Receivers
  <1>6. Alone'
    <2>1. \A q \in Procs : Holding(proc'[q]) =>
           \/ Holding(proc[q]) /\ proc'[q].val = proc[q].val
           \/ q = p /\ proc'[q].val \in Nat /\ proc'[q].val > offered
      BY <1>1 DEF Rests, Holding, Selecting
    <2> QED BY <1>3, <2>1, AloneKept
  <1>7. ASSUME NEW q \in Procs PROVE Fits(q, proc[q])'
    <2>1. CASE Rests(q, proc'[q]) /\ q \notin calls'
      BY <2>1, RestingFits
    <2>2. CASE q # p /\ proc'[q] = proc[q]
      <3>1. Fits(q, proc[q])
        BY DEF Inv
      <3>2. Holding(proc[q]) => proc[q].val \notin Range(accepted')
        BY <1>1, <2>2, <3>1 DEF Fits, Fresh
      <3>3. Receives(proc[q]) => buf' = << >> /\ ~closed'
        BY <1>1, <3>1 DEF Fits, Receivers, Receives
      <3>4. q = Main => (proc[Main].at = "blocked" /\ "send" \in proc[Main].cases => ~closed')
        BY <1>1, <3>1 DEF Fits, Looks
      <3> QED BY <1>1, <1>3, <2>2, <3>2, <3>3, <3>4, KeptFits
    <2> QED BY <1>1, <1>5, <2>1, <2>2
  <1> QED BY <1>2, <1>4, <1>6, <1>7 DEF Inv

----------------------------------------------------------------------------
(* A value goes out                                                        *)

(* Only Main can be blocked as a sender, with a value of its own.          *)
LEMMA SendersAre ==
  ASSUME Inv
  PROVE  /\ Senders \in {{}, {Main}} /\ (Senders # {} => proc[Main].at = "blocked")
         /\ Senders # {} => proc[Main].val \in Values /\ Fresh(proc[Main].val)
  <1>1. ASSUME NEW s \in Senders PROVE s = Main
    <2>1. s \in Procs /\ Fits(s, proc[s]) /\ proc[s].at = "blocked"
      BY DEF Inv, Senders
    <2> QED BY <2>1 DEF Fits, WorkerPlaces
  <1>2. Senders \in {{}, {Main}} /\ (Senders # {} => proc[Main].at = "blocked")
    BY <1>1 DEF Senders
  <1>3. Senders # {} => Fresh(proc[Main].val)
    <2>1. Fits(Main, proc[Main])
      BY Names DEF Inv
    <2> QED BY <1>2, <2>1 DEF Fits, Holding, Selecting
  <1>4. offered \in Nat /\ offered <= MaxValues
    BY OfferedIs DEF Inv
  <1> QED BY <1>2, <1>3, <1>4, Names DEF Fresh, Values

(* What is taken was the first, and a sender that was blocked rests.       *)
LEMMA TakeIs ==
  ASSUME Inv, NEW p \in Procs, HasValue, p \notin Senders,
         NEW after \in [Values -> Proc], Take(p, after)
  PROVE  /\ accepted' \in Seq(Values) /\ taken' \in Seq(Values)
         /\ accepted' = taken' \o buf' /\ IsInjective(accepted')
         /\ Range(accepted') = told'
         /\ IF Senders = {} THEN told' = told ELSE told' = told \cup {proc[Main].val}
         /\ buf' \in Seq(Values) /\ Len(buf') <= size
         /\ closed' = closed /\ (buf = << >> => buf' = << >>)
         /\ proc' \in [Procs -> Proc] /\ \E v \in Values : proc'[p] = after[v]
         /\ \A q \in Procs \ {p} :
              IF q \in Senders THEN Rests(q, proc'[q]) ELSE proc'[q] = proc[q]
  <1> DEFINE line == IF Senders = {} THEN buf ELSE Append(buf, proc[Main].val)
             others == [s \in Procs |-> IF s \in Senders THEN Ended(s) ELSE proc[s]]
  <1>1. /\ accepted \in Seq(Values) /\ taken \in Seq(Values) /\ buf \in Seq(Values)
        /\ accepted = taken \o buf /\ IsInjective(accepted) /\ Range(accepted) = told
        /\ size \in Nat /\ Len(buf) <= size /\ proc \in [Procs -> Proc] /\ TypeOK
    BY Names DEF Inv, Flow, TypeOK
  <1>2. /\ buf' = Tail(line) /\ taken' = Append(taken, Head(line))
        /\ accepted' = IF Senders = {} THEN accepted ELSE Append(accepted, proc[Main].val)
        /\ proc' = [others EXCEPT ![p] = after[Head(line)]]
        /\ told' = told \cup {proc[s].val : s \in Senders} /\ closed' = closed
    BY DEF Take
  <1>3. /\ line \in Seq(Values) /\ line # << >> /\ Len(line) <= Len(buf) + 1
        /\ Senders = {} => line = buf
        /\ buf = << >> => Len(line) = 1
    <2>1. CASE Senders = {}
      BY <1>1, <2>1 DEF HasValue
    <2>2. CASE Senders # {}
      <3>1. proc[Main].val \in Values
        BY <2>2, SendersAre
      <3>2. /\ Append(buf, proc[Main].val) \in Seq(Values)
            /\ Len(Append(buf, proc[Main].val)) = Len(buf) + 1
            /\ Append(buf, proc[Main].val) # << >>
        BY <1>1, <3>1, Appended
      <3> QED BY <1>1, <2>2, <3>2
    <2> QED BY <2>1, <2>2
  <1>4. /\ Tail(line) \in Seq(Values) /\ Len(Tail(line)) = Len(line) - 1
        /\ Head(line) \in Values
    BY <1>3, Tailed
  <1>5. buf' \in Seq(Values) /\ Len(buf') <= size /\ taken' \in Seq(Values)
    BY <1>1, <1>2, <1>3, <1>4
  <1>6. buf = << >> => buf' = << >>
    BY <1>2, <1>3, <1>4
  <1>7. /\ accepted' \in Seq(Values) /\ accepted' = taken \o line
        /\ IsInjective(accepted') /\ Range(accepted') = told'
        /\ IF Senders = {} THEN told' = told ELSE told' = told \cup {proc[Main].val}
    <2>1. CASE Senders = {}
      <3>1. {proc[s].val : s \in Senders} = {}
        BY <2>1
      <3>2. told' = told /\ accepted' = accepted /\ line = buf
        BY <1>2, <2>1, <3>1
      <3> HIDE DEF line
      <3> QED BY <1>1, <2>1, <3>2, Zenon
    <2>2. CASE Senders = {Main}
      <3>1. PICK v \in Values : v = proc[Main].val
        BY <2>2, SendersAre
      <3>2. v \notin Range(accepted)
        BY <2>2, <3>1, SendersAre DEF Fresh
      <3>3. told' = told \cup {v} /\ accepted' = Append(accepted, v)
            /\ line = Append(buf, v)
        BY <1>2, <2>2, <3>1
      <3> HIDE DEF line
      <3>4. line \in Seq(Values)
        BY <1>3
      <3>5. IsInjective(accepted') /\ Range(accepted') = Range(accepted) \cup {v}
        BY <1>1, <3>2, <3>3, Fresher
      <3>6. accepted' \in Seq(Values)
        BY <1>1, <3>3, Appended
      <3>7. accepted' = taken \o line
        <4>1. Append(taken \o buf, v) = taken \o Append(buf, v)
          BY <1>1, Concatenated, Zenon
        <4> QED BY <1>1, <3>3, <4>1, Zenon
      <3>8. Senders # {}
        BY <2>2
      <3> QED BY <1>1, <3>1, <3>3, <3>5, <3>6, <3>7, <3>8, Zenon
    <2> QED BY <2>1, <2>2, SendersAre
  <1>8. accepted' = taken' \o buf'
    <2> HIDE DEF line
    <2>1. Append(taken, Head(line)) \o Tail(line) = taken \o line
      BY <1>1, <1>3, Shorter
    <2> QED BY <1>2, <1>7, <2>1, Zenon
  <1>9. \A q \in Procs : Rests(q, Ended(q))
    BY <1>1, EndedIs
  <1>10. others \in [Procs -> Proc]
    BY <1>1, <1>9 DEF Rests
  <1>11. /\ proc' \in [Procs -> Proc] /\ proc'[p] = after[Head(line)]
         /\ \A q \in Procs \ {p} :
              IF q \in Senders THEN Rests(q, proc'[q]) ELSE proc'[q] = proc[q]
    BY <1>2, <1>4, <1>9, <1>10
  <1> HIDE DEF line, others
  <1> QED BY <1>2, <1>4, <1>5, <1>6, <1>7, <1>8, <1>11, Zenon

(* p is not blocked, and goes on without a value of its own.               *)
LEMMA TakeKeeps ==
  ASSUME Inv, NEW p \in Procs, HasValue, p \notin Senders,
         NEW after \in [Values -> Proc], Take(p, after), Scalars', size' = size,
         p \notin calls, UNCHANGED <<offered, calls, raced>>,
         ~Holding(proc'[p]), Fits(p, proc[p])',
         p # Main => stolen' = (stolen \/ proc[Main].at = "taking")
  PROVE  Inv'
  <1>1. /\ accepted' \in Seq(Values) /\ taken' \in Seq(Values)
        /\ accepted' = taken' \o buf' /\ IsInjective(accepted')
        /\ Range(accepted') = told'
        /\ IF Senders = {} THEN told' = told ELSE told' = told \cup {proc[Main].val}
        /\ buf' \in Seq(Values) /\ Len(buf') <= size
        /\ closed' = closed /\ (buf = << >> => buf' = << >>)
        /\ proc' \in [Procs -> Proc]
        /\ \A q \in Procs \ {p} :
             IF q \in Senders THEN Rests(q, proc'[q]) ELSE proc'[q] = proc[q]
    BY TakeIs
  <1>2. TypeOK'
    BY <1>1 DEF Inv, TypeOK, Scalars
  <1>3. offered \in Nat /\ offered' = offered
    BY OfferedIs DEF Inv
  <1>4. told \subseteq 1..offered /\ told = Range(accepted)
    BY DEF Inv, Flow
  <1>5. Flow'
    <2>1. told' \subseteq 1..offered'
      BY <1>1, <1>3, <1>4, SendersAre DEF Fresh
    <2>2. IsInjective(accepted)' /\ (Range(accepted) = told)'
      <3>1. IsInjective(accepted') /\ Range(accepted') = told'
        BY <1>1
      <3> QED BY <3>1 DEF IsInjective, Range
    <2> QED BY <1>1, <2>1, <2>2 DEF Flow
  <1>6. Alone'
    <2>1. \A q \in Procs : Holding(proc'[q]) =>
           \/ Holding(proc[q]) /\ proc'[q].val = proc[q].val
           \/ q = p /\ proc'[q].val \in Nat /\ proc'[q].val > offered
      BY <1>1 DEF Rests, Holding, Selecting
    <2> QED BY <1>3, <2>1, AloneKept
  <1>7. ASSUME NEW q \in Procs \ {p} PROVE Fits(q, proc[q])'
    <2>1. Fits(q, proc[q])
      BY DEF Inv
    <2>2. CASE q \in Senders
      <3>1. q = Main /\ q \notin calls
        BY <2>1, <2>2, SendersAre DEF Fits, Senders
      <3> QED BY <1>1, <2>2, <3>1, RestingFits
    <2>3. CASE q \notin Senders
      <3>1. Holding(proc[q]) => proc[q].val \notin Range(accepted')
        <4>1. Holding(proc[q]) => proc[q].val \notin told
          BY <1>4, <2>1 DEF Fits, Fresh
        <4>2. Holding(proc[q]) /\ Senders # {} => proc[q].val # proc[Main].val
          <5>1. Senders # {} => q # Main /\ Holding(proc[Main])
            BY <2>3, SendersAre DEF Holding, Selecting
          <5> QED BY <5>1, Names DEF Inv, Alone
        <4> QED BY <1>1, <4>1, <4>2
      <3>2. Receives(proc[q]) => buf' = << >> /\ ~closed'
        BY <1>1, <2>1 DEF Fits
      <3>3. q = Main => (proc[Main].at = "blocked" /\ "send" \in proc[Main].cases => ~closed')
        BY <1>1, <2>1 DEF Fits, Looks
      <3>4. proc'[q] = proc[q]
        BY <1>1, <2>3
      <3>5. q = Main /\ proc[Main].at = "taking" => stolen'
        BY Names
      <3>6. /\ q \in calls' => q \in calls
            /\ closed' = closed /\ raced' = raced /\ (q = Main => (stolen => stolen'))
        BY <1>1
      <3> QED BY <1>3, <3>1, <3>2, <3>3, <3>4, <3>5, <3>6, KeptFits
    <2> QED BY <2>2, <2>3
  <1> QED BY <1>2, <1>5, <1>6, <1>7 DEF Inv

----------------------------------------------------------------------------
(* The channel is closed                                                   *)

LEMMA WokenFits ==
  ASSUME Inv, NEW q \in Procs, proc'[q] = Woken(q), ~closed, closed',
         q \in calls' => q \in calls, UNCHANGED <<buf, accepted, offered, stolen>>,
         raced => raced', Selects(Main) => raced'
  PROVE  /\ proc'[q] \in Proc /\ Fits(q, proc[q])'
         /\ Holding(proc'[q]) => Holding(proc[q]) /\ proc'[q].val = proc[q].val
  <1>1. Rests(q, Ended(q)) /\ proc[q] \in Proc /\ Fits(q, proc[q])
    BY EndedIs DEF Inv, TypeOK
  <1>2. CASE q \in Receivers
    <2>1. Rests(q, proc'[q])
      BY <1>1, <1>2 DEF Woken
    <2>2. q \notin calls'
      BY <1>1, <1>2 DEF Fits, Receivers
    <2> QED BY <2>1, <2>2, RestingFits DEF Rests, Holding, Selecting
  <1>3. CASE q \notin Receivers /\ q \in Senders
    <2>1. q = Main /\ proc[q].at = "blocked" /\ Selects(Main)
      BY <1>3, SendersAre DEF Senders, Selects
    <2>2. proc'[q] = [Ended(q) EXCEPT !.at = "panicked"]
      BY <1>3 DEF Woken
    <2>3. /\ proc'[q] \in Proc /\ proc'[q].at = "panicked" /\ proc'[q].kind = "main"
          /\ ~proc'[q].pending
      BY <1>1, <2>1, <2>2 DEF Rests, Proc, Fits
    <2>4. ~Holding(proc'[q]) /\ ~Receives(proc'[q])
      BY <2>3 DEF Holding, Selecting, Receives
    <2>5. q \notin calls'
      BY <1>1, <2>1 DEF Fits
    <2>6. Looks(proc[q])' /\ Pulls(proc[q])'
      BY <2>1, <2>3 DEF Looks, Pulls, Selecting
    <2> QED BY <2>1, <2>3, <2>4, <2>5, <2>6 DEF Fits, MainPlaces, Holding, Receives
  <1>4. CASE q \notin Receivers /\ q \notin Senders
    <2>1. proc'[q] = proc[q]
      BY <1>4 DEF Woken
    <2>2. ~Receives(proc[q]) /\ ~(proc[q].at = "blocked" /\ "send" \in proc[q].cases)
      BY <1>4 DEF Receivers, Senders, Receives
    <2>3. Holding(proc[q]) => Fresh(proc[q].val)'
      BY <1>1, <2>1 DEF Fits, Fresh, Range
    <2>4. q = Main => Looks(proc[q])' /\ Pulls(proc[q])'
      BY <1>1, <2>1, <2>2 DEF Fits, Looks, Pulls, Selecting, Selects
    <2>5. Fits(q, proc[q])'
      BY <1>1, <2>1, <2>2, <2>3, <2>4 DEF Fits, Holding, Receives
    <2> QED BY <1>1, <2>1, <2>5
  <1> QED BY <1>2, <1>3, <1>4

LEMMA ClosesKeeps ==
  ASSUME Inv, NEW p \in Procs, NEW x \in Proc, ~closed, closed' = TRUE,
         proc' = [q \in Procs |-> IF q = p THEN x ELSE Woken(q)],
         Fits(p, proc[p])', Holding(x) => Holding(proc[p]) /\ x.val = proc[p].val,
         UNCHANGED <<size, buf, accepted, taken, told, offered, stolen>>, Scalars',
         calls' \subseteq calls, raced => raced',
         Selects(Main) => raced'
  PROVE  Inv'
  <1>1. ASSUME NEW q \in Procs \ {p}
        PROVE  /\ proc'[q] \in Proc /\ Fits(q, proc[q])'
               /\ Holding(proc'[q]) => Holding(proc[q]) /\ proc'[q].val = proc[q].val
    <2>1. proc'[q] = Woken(q) /\ q \in Procs /\ (q \in calls' => q \in calls)
      OBVIOUS
    <2> QED BY <2>1, WokenFits
  <1>2. proc'[p] = x
    OBVIOUS
  <1>3. proc' \in [Procs -> Proc]
    <2>1. \A q \in Procs : proc'[q] \in Proc
      BY <1>1, <1>2
    <2> QED BY <2>1
  <1>4. TypeOK'
    BY <1>3 DEF Inv, TypeOK, Scalars
  <1>5. Flow'
    BY DEF Inv, Flow, IsInjective, Range
  <1>6. Alone'
    <2>1. \A q \in Procs : Holding(proc'[q]) => Holding(proc[q]) /\ proc'[q].val = proc[q].val
      BY <1>1, <1>2
    <2>2. offered \in Nat
      BY OfferedIs DEF Inv
    <2> QED BY <2>1, <2>2, AloneKept
  <1> QED BY <1>1, <1>4, <1>5, <1>6 DEF Inv

----------------------------------------------------------------------------
(* The executor sends and receives                                         *)

LEMMA MainBegins ==
  ASSUME Inv, Begins
  PROVE  /\ Rests(Main, proc[Main]) /\ Main \notin Receivers /\ Main \notin Senders
         /\ Main \notin calls /\ ops' \in 0..MaxOps
         /\ proc[Main] \in Proc /\ proc[Main].kind = "main" /\ ~proc[Main].pending
         /\ ~Selects(Main) /\ proc[Main].at = "idle"
  <1>1. Fits(Main, proc[Main]) /\ proc[Main] \in Proc /\ proc[Main].at = "idle"
    BY Names DEF Inv, TypeOK, Begins
  <1>2. ops' \in 0..MaxOps
    BY Names DEF Inv, TypeOK, Begins
  <1> QED BY <1>1, <1>2 DEF Fits, Pulls, Rests, Receivers, Senders, Selects

(* The rest of the state of a step of the executor.                        *)
LEMMA MainScalars ==
  ASSUME Inv, ops' \in 0..MaxOps, UNCHANGED <<coop, size, calls>>,
         handle' \in {"live", "released"}, offered' \in Values \cup {0}
  PROVE  Scalars'
  BY DEF Inv, TypeOK, Scalars

(* A value that is offered is nobody else's.                               *)
LEMMA OffersFresh ==
  ASSUME Inv, NEW v, Offer(v)
  PROVE  /\ v \in Values /\ offered' = v /\ v = offered + 1 /\ offered \in Nat
         /\ v \notin Range(accepted) /\ offered <= offered'
         /\ \A q \in Procs : Holding(proc[q]) => proc[q].val # v
  <1>1. v \in Values /\ offered' = v /\ v = offered + 1 /\ offered \in Nat
    BY OfferedIs DEF Inv, Offer
  <1>2. v \notin 1..offered
    BY <1>1
  <1>3. v \notin Range(accepted)
    BY <1>2 DEF Inv, Flow
  <1>4. \A q \in Procs : Holding(proc[q]) => proc[q].val # v
    BY <1>2 DEF Inv, Fits, Fresh
  <1> QED BY <1>1, <1>3, <1>4

LEMMA SendKeeps == ASSUME Inv, SendNonBlocking PROVE Inv'
  <1>1. PICK v \in Values :
          /\ Offer(v)
          /\ IF ~closed /\ HasRoom
             THEN Put(v, Main, proc[Main]) /\ told' = told \cup {v}
             ELSE UNCHANGED <<chanVars, proc, told>>
    BY DEF SendNonBlocking
  <1>2. Begins /\ Unmoved /\ UNCHANGED <<stolen, raced>>
    BY DEF SendNonBlocking
  <1>3. /\ v \in Values /\ offered' = v /\ v = offered + 1 /\ offered \in Nat
        /\ v \notin Range(accepted) /\ offered <= offered' /\ v <= offered'
        /\ \A q \in Procs : Holding(proc[q]) => proc[q].val # v
    BY <1>1, OffersFresh
  <1>4. Scalars' /\ size' = size /\ calls' = calls
    <2>1. ops' \in 0..MaxOps /\ UNCHANGED <<coop, size, calls>> /\ handle' \in {"live", "released"}
      BY <1>2, MainBegins DEF Unmoved, Inv, TypeOK
    <2> QED BY <1>3, <2>1, MainScalars
  <1>5. CASE ~closed /\ HasRoom
    <2>1. Rests(Main, proc[Main]) /\ Main \notin Receivers /\ Main \notin calls
          /\ proc[Main] \in Proc
      BY <1>2, MainBegins
    <2>2. PICK x \in Proc : x = proc[Main]
      BY <2>1
    <2>3. Put(v, Main, x) /\ told' = told \cup {v} /\ Rests(Main, x)
      BY <1>1, <1>5, <2>1, <2>2
    <2> QED BY <1>2, <1>3, <1>4, <1>5, <2>1, <2>3, Names, PutKeeps
  <1>6. CASE ~(~closed /\ HasRoom)
    <2>1. PICK x \in Proc : x = proc[Main]
      BY <1>2, MainBegins
    <2>2. UNCHANGED <<chanVars, told>> /\ proc' = proc /\ proc' = [proc EXCEPT ![Main] = x]
      BY <1>1, <1>6, <2>1 DEF Inv, TypeOK
    <2>3. Rests(Main, x) /\ Main \notin calls'
      BY <1>2, <1>4, <2>1, MainBegins
    <2> QED BY <1>2, <1>3, <1>4, <2>2, <2>3, Names, RestKeeps
  <1> QED BY <1>5, <1>6

(* What a receive that waits, or does not, makes of the process.           *)
LEMMA RecvKeeps ==
  ASSUME Inv, NEW p \in Procs, p \notin Senders, p \notin Receivers, p \notin calls,
         Recv(p), Scalars', size' = size, UNCHANGED <<offered, calls, raced>>,
         p = Main => ~proc[p].pending,
         p = Main => stolen' = stolen,
         p # Main => stolen' = IF HasValue THEN stolen \/ proc[Main].at = "taking" ELSE stolen
  PROVE  Inv'
  <1>1. /\ proc[p] \in Proc /\ Fits(p, proc[p])
        /\ Rests(p, Ended(p)) /\ \A v \in Values : Rests(p, EndedWith(p, v))
    BY EndedIs DEF Inv, TypeOK
  <1>2. CASE HasValue
    <2>1. PICK after : after = [v \in Values |-> EndedWith(p, v)]
      OBVIOUS
    <2>2. after \in [Values -> Proc] /\ \A v \in Values : Rests(p, after[v])
      BY <1>1, <2>1 DEF Rests
    <2>3. Take(p, after)
      BY <1>2, <2>1 DEF Recv
    <2>4. Rests(p, proc'[p])
      BY <1>2, <2>2, <2>3, TakeIs
    <2>5. ~Holding(proc'[p]) /\ Fits(p, proc[p])'
      BY <2>4, RestingFits DEF Rests, Holding, Selecting
    <2> QED BY <1>2, <2>2, <2>3, <2>5, TakeKeeps
  <1>3. CASE ~HasValue /\ closed
    <2>1. PICK x \in Proc : x = Ended(p)
      BY <1>1 DEF Rests
    <2>2. proc' = [proc EXCEPT ![p] = x] /\ UNCHANGED <<chanVars, told>> /\ Rests(p, x)
      BY <1>1, <1>3, <2>1 DEF Recv
    <2>3. offered <= offered'
      BY OfferedIs DEF Inv
    <2> QED BY <1>3, <2>2, <2>3, RestKeeps
  <1>4. CASE ~HasValue /\ ~closed
    <2>1. PICK x \in Proc : x = [proc[p] EXCEPT !.at = "receiving"]
      BY <1>1 DEF Proc
    <2>2. proc' = [proc EXCEPT ![p] = x] /\ UNCHANGED <<chanVars, told>>
      BY <1>4, <2>1 DEF Recv
    <2>3. x.at = "receiving" /\ x.kind = proc[p].kind /\ (p = Main => ~x.pending) /\ proc'[p] = x
      BY <1>1, <2>1, <2>2 DEF Proc, Inv, TypeOK
    <2>4. buf' = << >> /\ ~closed'
      BY <1>4, <2>2 DEF HasValue, chanVars
    <2>5. Fits(p, proc[p])'
      BY <1>1, <2>3, <2>4 DEF Fits, MainPlaces, WorkerPlaces, Looks, Pulls, Holding, Selecting
    <2>6. ~Holding(x) /\ offered <= offered'
      BY <2>3, OfferedIs DEF Holding, Selecting, Inv
    <2> QED BY <1>4, <2>2, <2>5, <2>6, Moves
  <1> QED BY <1>2, <1>3, <1>4

LEMMA RecvNonBlockingKeeps == ASSUME Inv, RecvNonBlocking PROVE Inv'
  <1>1. Begins /\ Unmoved /\ UNCHANGED <<offered, stolen, raced>>
    BY DEF RecvNonBlocking
  <1>2. Scalars' /\ size' = size /\ calls' = calls /\ offered <= offered'
    <2>1. /\ ops' \in 0..MaxOps /\ UNCHANGED <<coop, size, calls>>
          /\ handle' \in {"live", "released"} /\ offered' \in Values \cup {0}
      BY <1>1, MainBegins DEF Unmoved, Inv, TypeOK
    <2> QED BY <1>1, <2>1, MainScalars, OfferedIs DEF Inv
  <1>3. /\ Rests(Main, proc[Main]) /\ Main \notin Senders /\ Main \notin calls
        /\ proc[Main] \in Proc
    BY <1>1, MainBegins
  <1>4. CASE HasValue
    <2>1. PICK after : after = [v \in Values |-> [proc[Main] EXCEPT !.val = v]]
      OBVIOUS
    <2>2. after \in [Values -> Proc] /\ \A v \in Values : Rests(Main, after[v])
      BY <1>3, <2>1 DEF Rests, Proc
    <2>3. Take(Main, after)
      BY <1>4, <2>1 DEF RecvNonBlocking
    <2>4. Rests(Main, proc'[Main])
      BY <1>3, <1>4, <2>2, <2>3, TakeIs, Names
    <2>5. ~Holding(proc'[Main]) /\ Fits(Main, proc[Main])'
      BY <1>2, <1>3, <2>4, RestingFits, Names DEF Rests, Holding, Selecting
    <2> QED BY <1>1, <1>2, <1>3, <1>4, <2>2, <2>3, <2>5, TakeKeeps, Names
  <1>5. CASE ~HasValue
    <2>1. PICK x \in Proc : x = proc[Main]
      BY <1>3
    <2>2. UNCHANGED <<chanVars, told>> /\ proc' = [proc EXCEPT ![Main] = x]
      BY <1>5, <2>1 DEF RecvNonBlocking, Inv, TypeOK
    <2>3. Rests(Main, x) /\ Main \notin calls' /\ calls' \subseteq calls
      BY <1>2, <1>3, <2>1
    <2> QED BY <1>2, <2>2, <2>3, Names, RestKeeps
  <1> QED BY <1>4, <1>5

LEMMA MainRecvKeeps == ASSUME Inv, MainRecv PROVE Inv'
  <1>1. Begins /\ Unmoved /\ Recv(Main) /\ UNCHANGED <<offered, stolen, raced>>
    BY DEF MainRecv
  <1>2. Scalars' /\ size' = size /\ calls' = calls
    <2>1. /\ ops' \in 0..MaxOps /\ UNCHANGED <<coop, size, calls>>
          /\ handle' \in {"live", "released"} /\ offered' \in Values \cup {0}
      BY <1>1, MainBegins DEF Unmoved, Inv, TypeOK
    <2> QED BY <2>1, MainScalars
  <1>3. /\ Main \notin Senders /\ Main \notin calls /\ Main \notin Receivers
        /\ ~proc[Main].pending
    BY <1>1, MainBegins
  <1> QED BY <1>1, <1>2, <1>3, Names, RecvKeeps

LEMMA CloseKeeps == ASSUME Inv, OpClose PROVE Inv'
  <1>1. /\ Begins /\ ~closed /\ closed' = TRUE /\ proc' = [p \in Procs |-> Woken(p)]
        /\ raced' = (raced \/ \E p \in Procs : Selects(p))
        /\ UNCHANGED <<coop, size, buf, accepted, taken, handle, told, stolen, calls, offered>>
    BY DEF OpClose, Close, DoClose
  <1>2. /\ Rests(Main, proc[Main]) /\ Main \notin Receivers /\ Main \notin Senders
        /\ Main \notin calls /\ proc[Main] \in Proc
    BY <1>1, MainBegins
  <1>3. Scalars'
    <2>1. /\ ops' \in 0..MaxOps
          /\ handle' \in {"live", "released"} /\ offered' \in Values \cup {0}
      BY <1>1, MainBegins DEF Inv, TypeOK
    <2> QED BY <1>1, <2>1, MainScalars
  <1>4. PICK x \in Proc : x = proc[Main]
    BY <1>2
  <1>5. proc' = [q \in Procs |-> IF q = Main THEN x ELSE Woken(q)] /\ proc'[Main] = x
    BY <1>1, <1>2, <1>4, Names DEF Woken
  <1>6. Rests(Main, proc'[Main]) /\ Main \notin calls' /\ ~Holding(x)
    BY <1>1, <1>2, <1>4, <1>5 DEF Rests, Holding, Selecting
  <1>7. Fits(Main, proc[Main])'
    BY <1>6, RestingFits, Names
  <1>8. (raced => raced') /\ (Selects(Main) => raced') /\ calls' \subseteq calls
    BY <1>1, Names
  <1> QED BY <1>1, <1>3, <1>5, <1>6, <1>7, <1>8, Names, ClosesKeeps

----------------------------------------------------------------------------
(* The executor selects                                                    *)

LEMMA Steps ==
  ASSUME Inv, UNCHANGED ops \/ Begins, Unmoved \/ UNCHANGED <<coop, size, calls>>,
         handle' \in {"live", "released"}, offered' \in Values \cup {0}
  PROVE  Scalars' /\ size' = size /\ calls' = calls
  <1>1. ops' \in 0..MaxOps
    BY MainBegins DEF Inv, TypeOK
  <1>2. UNCHANGED <<coop, size, calls>>
    BY DEF Unmoved
  <1> QED BY <1>1, <1>2, MainScalars

LEMMA SelectKeeps == ASSUME Inv, Select PROVE Inv'
  <1>1. PICK v \in Values, default \in BOOLEAN, cases \in SUBSET {"recv", "send"} :
          /\ Offer(v)
          /\ IF "send" \in cases /\ closed THEN UNCHANGED proc
             ELSE proc' = [proc EXCEPT ![Main] = [@ EXCEPT !.at = "resolving",
                              !.val = v, !.cases = cases, !.default = default]]
    BY DEF Select
  <1>2. /\ Begins /\ Unmoved /\ raced' = FALSE /\ UNCHANGED <<chanVars, told, stolen>>
    BY DEF Select
  <1>3. /\ v \in Values /\ offered' = v /\ v = offered + 1 /\ offered \in Nat
        /\ v \notin Range(accepted) /\ offered <= offered' /\ v \in Nat /\ v > offered
        /\ v \in 1..offered'
    BY <1>1, OffersFresh
  <1>4. Scalars' /\ size' = size /\ calls' = calls
    BY <1>2, <1>3, Steps DEF Unmoved, Inv, TypeOK
  <1>5. /\ Rests(Main, proc[Main]) /\ Main \notin calls /\ proc[Main] \in Proc
        /\ proc[Main].kind = "main" /\ ~proc[Main].pending
    BY <1>2, MainBegins
  <1>6. CASE "send" \in cases /\ closed
    <2>1. PICK x \in Proc : x = proc[Main]
      BY <1>5
    <2>2. proc' = [proc EXCEPT ![Main] = x] /\ Rests(Main, x)
      BY <1>1, <1>5, <1>6, <2>1 DEF Inv, TypeOK
    <2>3. Main \notin calls' /\ calls' \subseteq calls
      BY <1>4, <1>5
    <2> QED BY <1>2, <1>3, <1>4, <2>2, <2>3, Names, RestKeeps
  <1>7. CASE ~("send" \in cases /\ closed)
    <2>1. PICK x \in Proc : x = [proc[Main] EXCEPT !.at = "resolving", !.val = v,
                                    !.cases = cases, !.default = default]
      BY <1>5 DEF Proc
    <2>2. proc' = [proc EXCEPT ![Main] = x] /\ proc'[Main] = x
      BY <1>1, <1>7, <2>1, Names DEF Inv, TypeOK
    <2>3. /\ x.at = "resolving" /\ x.val = v /\ x.cases = cases /\ x.kind = "main"
          /\ ~x.pending
      BY <1>5, <2>1 DEF Proc
    <2>4. Fresh(proc[Main].val)'
      <3>1. proc'[Main].val = v /\ v \in 1..offered' /\ Range(accepted') = Range(accepted)
        BY <1>2, <1>3, <2>2, <2>3 DEF chanVars
      <3> QED BY <1>3, <3>1 DEF Fresh, Range
    <2>5. "send" \in x.cases => ~closed'
      BY <1>2, <1>7, <2>3 DEF chanVars
    <2>6. Main \notin calls'
      BY <1>4, <1>5
    <2>7. Looks(proc[Main])' /\ Pulls(proc[Main])' /\ ~Receives(proc'[Main])
      BY <2>2, <2>3, <2>5 DEF Looks, Pulls, Receives
    <2>8. Fits(Main, proc[Main])'
      BY <2>2, <2>3, <2>4, <2>6, <2>7 DEF Fits, MainPlaces, Selecting, Receives, Holding
    <2> QED BY <1>2, <1>3, <1>4, <2>2, <2>3, <2>8, Names, Moves
  <1> QED BY <1>6, <1>7

LEMMA ResolveKeeps == ASSUME Inv, Resolve PROVE Inv'
  <1>1. /\ proc[Main].at = "resolving" /\ Unmoved
        /\ UNCHANGED <<buf, accepted, taken, ops, offered, told, stolen>>
    BY DEF Resolve
  <1>2. /\ proc[Main] \in Proc /\ Fits(Main, proc[Main]) /\ Main \in Procs
        /\ Fresh(proc[Main].val) /\ Holding(proc[Main])
    BY <1>1, Names DEF Inv, TypeOK, Fits, Holding, Selecting
  <1>3. Scalars' /\ size' = size /\ calls' = calls /\ offered <= offered'
    BY <1>1, Steps, OfferedIs DEF Unmoved, Inv, TypeOK
  <1>4. PICK x \in Proc : x = [proc[Main] EXCEPT !.at = "selecting"]
    BY <1>2 DEF Proc
  <1>5. /\ x.at = "selecting" /\ x.val = proc[Main].val /\ x.cases = proc[Main].cases
        /\ x.kind = "main" /\ x.pending = proc[Main].pending
    BY <1>2, <1>4 DEF Proc, Fits
  <1>6. ASSUME proc'[Main] = x, closed' => (closed /\ raced' = raced) \/ raced'
        PROVE  Fits(Main, proc[Main])'
    <2>1. Fresh(proc[Main].val)'
      BY <1>1, <1>2, <1>5, <1>6 DEF Fresh, Range
    <2>2. Looks(proc[Main])' /\ Pulls(proc[Main])'
      BY <1>1, <1>2, <1>5, <1>6 DEF Fits, Looks, Pulls, Selecting
    <2>3. Main \notin calls'
      BY <1>1, <1>2, <1>3 DEF Fits
    <2> QED BY <1>5, <1>6, <2>1, <2>2, <2>3 DEF Fits, MainPlaces, Selecting, Receives, Holding
  <1>7. CASE proc' = [proc EXCEPT ![Main] = x] /\ UNCHANGED <<closed, raced>>
    <2>1. proc'[Main] = x
      BY <1>2, <1>7 DEF Inv, TypeOK
    <2>2. Fits(Main, proc[Main])'
      BY <1>6, <1>7, <2>1
    <2>3. UNCHANGED <<chanVars, told>>
      BY <1>1, <1>7 DEF chanVars
    <2> QED BY <1>2, <1>3, <1>5, <1>7, <2>2, <2>3, Moves
  <1>8. CASE /\ ~closed /\ closed' = TRUE /\ raced' = TRUE
             /\ proc' = [p \in Procs |-> IF p = Main THEN x ELSE Woken(p)]
    <2>1. proc'[Main] = x
      BY <1>2, <1>8
    <2>2. Fits(Main, proc[Main])'
      BY <1>6, <1>8, <2>1
    <2> QED BY <1>1, <1>2, <1>3, <1>5, <1>8, <2>2, ClosesKeeps
  <1> QED BY <1>4, <1>7, <1>8 DEF Resolve

LEMMA SelectFiresKeeps == ASSUME Inv, SelectFires PROVE Inv'
  <1>1. proc[Main].at = "selecting" /\ Unmoved /\ UNCHANGED <<ops, offered, stolen, raced>>
    BY DEF SelectFires
  <1>2. /\ proc[Main] \in Proc /\ Fits(Main, proc[Main]) /\ Main \in Procs
        /\ Fresh(proc[Main].val) /\ Holding(proc[Main]) /\ Rests(Main, Ended(Main))
        /\ Main \notin Receivers /\ Main \notin Senders /\ Main \notin calls
        /\ ~proc[Main].pending /\ proc[Main].kind = "main"
    <2>1. proc[Main] \in Proc /\ Fits(Main, proc[Main]) /\ Main \in Procs
      BY Names DEF Inv, TypeOK
    <2>2. Rests(Main, Ended(Main))
      BY <2>1, EndedIs DEF Inv
    <2> QED BY <1>1, <2>1, <2>2 DEF Fits, Holding, Selecting, Receivers, Senders, Pulls
  <1>3. Scalars' /\ size' = size /\ calls' = calls /\ offered <= offered' /\ offered' = offered
    BY <1>1, Steps, OfferedIs DEF Unmoved, Inv, TypeOK
  <1>4. CASE Recv(Main)
    BY <1>1, <1>2, <1>3, <1>4, RecvKeeps
  <1>5. CASE /\ SelectReady("send") /\ closed /\ UNCHANGED <<chanVars, told>>
             /\ proc' = [proc EXCEPT ![Main] = [Ended(Main) EXCEPT !.at = "panicked"]]
    <2>1. PICK x \in Proc : x = [Ended(Main) EXCEPT !.at = "panicked"]
      BY <1>2 DEF Rests, Proc
    <2>2. proc' = [proc EXCEPT ![Main] = x] /\ proc'[Main] = x
      BY <1>2, <1>5, <2>1 DEF Inv, TypeOK
    <2>3. x.at = "panicked" /\ x.kind = "main" /\ ~x.pending
      BY <1>2, <2>1 DEF Rests, Proc
    <2>4. raced' /\ Main \notin calls'
      BY <1>1, <1>2, <1>3, <1>5 DEF SelectReady, Fits, Looks, Selecting
    <2>5. Fits(Main, proc[Main])'
      BY <2>2, <2>3, <2>4 DEF Fits, Looks, Pulls, MainPlaces, Selecting, Receives, Holding
    <2>6. ~Holding(x)
      BY <2>3 DEF Holding, Selecting
    <2> QED BY <1>2, <1>3, <1>5, <2>2, <2>5, <2>6, Moves
  <1>6. CASE /\ SelectReady("send") /\ ~closed /\ Put(proc[Main].val, Main, Ended(Main))
             /\ told' = told \cup {proc[Main].val}
    <2>1. offered \in Nat /\ offered <= MaxValues
      BY OfferedIs DEF Inv
    <2>2. PICK v \in Values : v = proc[Main].val
      BY <1>2, <2>1, Names DEF Fresh, Values
    <2>3. PICK x \in Proc : x = Ended(Main)
      BY <1>2 DEF Rests
    <2>4. v \notin Range(accepted) /\ v <= offered'
      BY <1>2, <1>3, <2>1, <2>2 DEF Fresh
    <2>5. \A q \in Procs \ {Main} : Holding(proc[q]) => proc[q].val # v
      BY <1>2, <2>2 DEF Inv, Alone
    <2>6. HasRoom /\ Put(v, Main, x) /\ told' = told \cup {v} /\ Rests(Main, x)
      BY <1>2, <1>6, <2>2, <2>3 DEF SelectReady
    <2> QED BY <1>1, <1>2, <1>3, <2>4, <2>5, <2>6, PutKeeps
  <1>7. CASE /\ ~SelectReady("recv") /\ ~SelectReady("send")
             /\ proc' = [proc EXCEPT ![Main] = IF @.default THEN Ended(Main)
                                               ELSE [@ EXCEPT !.at = "blocked"]]
             /\ UNCHANGED <<chanVars, told>>
    <2>1. CASE proc[Main].default
      <3>1. PICK x \in Proc : x = Ended(Main)
        BY <1>2 DEF Rests
      <3>2. proc' = [proc EXCEPT ![Main] = x] /\ Rests(Main, x)
        BY <1>2, <1>7, <2>1, <3>1 DEF Inv, TypeOK
      <3>3. Main \notin calls' /\ calls' \subseteq calls
        BY <1>2, <1>3
      <3> QED BY <1>1, <1>2, <1>3, <1>7, <3>2, <3>3, RestKeeps
    <2>2. CASE ~proc[Main].default
      <3>1. PICK x \in Proc : x = [proc[Main] EXCEPT !.at = "blocked"]
        BY <1>2 DEF Proc
      <3>2. proc' = [proc EXCEPT ![Main] = x] /\ proc'[Main] = x
        BY <1>2, <1>7, <2>2, <3>1 DEF Inv, TypeOK
      <3>3. /\ x.at = "blocked" /\ x.val = proc[Main].val /\ x.cases = proc[Main].cases
            /\ x.kind = "main" /\ ~x.pending
        BY <1>2, <3>1 DEF Proc
      <3>4. "recv" \in x.cases => buf' = << >> /\ ~closed'
        BY <1>7, <3>3 DEF SelectReady, HasValue, chanVars
      <3>5. "send" \in x.cases => ~closed'
        BY <1>7, <3>3 DEF SelectReady, chanVars
      <3>6. Fresh(proc[Main].val)'
        BY <1>1, <1>2, <1>7, <3>2, <3>3 DEF Fresh, Range, chanVars
      <3>7. Main \notin calls'
        BY <1>2, <1>3
      <3>8. Looks(proc[Main])' /\ Pulls(proc[Main])'
        BY <3>2, <3>3, <3>5 DEF Looks, Pulls, Selecting
      <3>9. Receives(proc'[Main]) => "recv" \in x.cases
        BY <3>2, <3>3 DEF Receives
      <3>10. Fits(Main, proc[Main])'
        BY <3>2, <3>3, <3>4, <3>6, <3>7, <3>8, <3>9
        DEF Fits, MainPlaces, Selecting, Receives, Holding
      <3> QED BY <1>1, <1>2, <1>3, <1>7, <3>2, <3>3, <3>10, Moves
    <2> QED BY <2>1, <2>2
  <1> QED BY <1>4, <1>5, <1>6, <1>7 DEF SelectFires

LEMMA SelectTimeoutKeeps == ASSUME Inv, SelectTimeout PROVE Inv'
  <1>1. /\ proc[Main].at = "blocked" /\ Unmoved /\ proc' = [proc EXCEPT ![Main] = Ended(Main)]
        /\ UNCHANGED <<chanVars, ops, offered, told, stolen, raced>>
    BY DEF SelectTimeout, history
  <1>2. Scalars' /\ size' = size /\ calls' = calls /\ offered <= offered'
    BY <1>1, Steps, OfferedIs DEF Unmoved, Inv, TypeOK
  <1>3. Rests(Main, Ended(Main)) /\ Main \notin calls'
    BY <1>1, <1>2, EndedIs, Names DEF Inv, Fits
  <1>4. PICK x \in Proc : x = Ended(Main)
    BY <1>3 DEF Rests
  <1>5. Rests(Main, x) /\ proc' = [proc EXCEPT ![Main] = x] /\ calls' \subseteq calls
    BY <1>1, <1>2, <1>3, <1>4
  <1> QED BY <1>1, <1>2, <1>3, <1>5, Names, RestKeeps

----------------------------------------------------------------------------
(* A guest pulls the stream                                                *)

LEMMA PullKeeps == ASSUME Inv, Pull PROVE Inv'
  <1>1. PICK pending \in BOOLEAN, max \in {1, Batch} :
          proc' = [proc EXCEPT ![Main] = [@ EXCEPT !.at = "pulling", !.hand = 0,
                                            !.pending = pending, !.max = max]]
    BY DEF Pull
  <1>2. /\ Begins /\ Unmoved /\ UNCHANGED <<chanVars, offered, told, raced>>
    BY DEF Pull
  <1>3. Scalars' /\ size' = size /\ calls' = calls /\ offered <= offered'
    BY <1>2, Steps, OfferedIs DEF Unmoved, Inv, TypeOK
  <1>4. Main \notin calls' /\ proc[Main] \in Proc /\ proc[Main].kind = "main"
    BY <1>2, <1>3, MainBegins
  <1>5. PICK x \in Proc : x = [proc[Main] EXCEPT !.at = "pulling", !.hand = 0,
                                  !.pending = pending, !.max = max]
    <2>1. 0 \in 0..Batch
      BY Names
    <2> QED BY <1>4, <2>1 DEF Proc
  <1>6. x.at = "pulling" /\ x.kind = "main" /\ proc' = [proc EXCEPT ![Main] = x] /\ proc'[Main] = x
    BY <1>1, <1>4, <1>5, Names DEF Proc, Inv, TypeOK
  <1>7. Fits(Main, proc[Main])'
    BY <1>4, <1>6 DEF Fits, MainPlaces, Looks, Pulls, Selecting, Receives, Holding
  <1>8. ~Holding(x)
    BY <1>6 DEF Holding, Selecting
  <1> QED BY <1>2, <1>3, <1>6, <1>7, <1>8, Names, Moves

LEMMA PullLooksKeeps == ASSUME Inv, PullLooks PROVE Inv'
  <1>1. /\ proc[Main].at = "pulling" /\ Unmoved /\ UNCHANGED <<chanVars, ops, offered, told, raced>>
    BY DEF PullLooks
  <1>2. Scalars' /\ size' = size /\ calls' = calls /\ offered <= offered'
    BY <1>1, Steps, OfferedIs DEF Unmoved, Inv, TypeOK
  <1>3. Rests(Main, Ended(Main)) /\ Main \notin calls' /\ proc[Main] \in Proc /\ proc[Main].kind = "main"
    BY <1>1, <1>2, EndedIs, Names DEF Inv, Fits, TypeOK
  <1>4. CASE proc[Main].pending /\ ~closed /\ buf = << >>
    <2>1. PICK x \in Proc : x = Ended(Main)
      BY <1>3 DEF Rests
    <2>2. Rests(Main, x) /\ proc' = [proc EXCEPT ![Main] = x] /\ calls' \subseteq calls
      BY <1>2, <1>3, <1>4, <2>1 DEF PullLooks
    <2> QED BY <1>1, <1>2, <1>3, <2>2, Names, RestKeeps
  <1>5. CASE ~(proc[Main].pending /\ ~closed /\ buf = << >>)
    <2>1. PICK x \in Proc : x = [proc[Main] EXCEPT !.at = "taking"]
      BY <1>3 DEF Proc
    <2>2. proc' = [proc EXCEPT ![Main] = x] /\ proc'[Main] = x
      BY <1>5, <2>1, Names DEF PullLooks, Inv, TypeOK
    <2>3. x.at = "taking" /\ x.kind = "main" /\ x.pending = proc[Main].pending
      BY <1>3, <2>1 DEF Proc
    <2>4. Pulls(proc[Main])' /\ Looks(proc[Main])'
      BY <1>1, <1>5, <2>2, <2>3 DEF Pulls, Looks, Selecting, chanVars
    <2>5. Fits(Main, proc[Main])'
      BY <1>3, <2>2, <2>3, <2>4 DEF Fits, MainPlaces, Receives, Holding, Selecting
    <2>6. ~Holding(x)
      BY <2>3 DEF Holding, Selecting
    <2> QED BY <1>1, <1>2, <2>2, <2>5, <2>6, Names, Moves
  <1> QED BY <1>4, <1>5

LEMMA PullTakesKeeps == ASSUME Inv, PullTakes PROVE Inv'
  <1>1. /\ proc[Main].at = "taking" /\ UNCHANGED <<coop, size, calls, ops, offered, stolen, raced>>
        /\ handle' \in {"live", "released"}
    BY DEF PullTakes, Inv, TypeOK
  <1>2. Scalars' /\ size' = size /\ calls' = calls /\ offered <= offered' /\ calls' \subseteq calls
    BY <1>1, Steps, OfferedIs DEF Inv, TypeOK
  <1>3. /\ Rests(Main, Ended(Main)) /\ Main \notin calls /\ proc[Main] \in Proc
        /\ proc[Main].kind = "main" /\ Main \notin Senders
    BY <1>1, EndedIs, Names DEF Inv, Fits, TypeOK, Senders
  <1>4. CASE HasValue
    <2>1. ASSUME NEW x \in Proc, Take(Main, [v \in Values |-> x]), x.kind = "main",
                 x.at = "pulling" \/ Rests(Main, x)
          PROVE  Inv'
      <3>1. PICK after : after = [v \in Values |-> x]
        OBVIOUS
      <3>2. after \in [Values -> Proc] /\ Take(Main, after)
        BY <2>1, <3>1
      <3>3. proc'[Main] = x
        BY <1>3, <1>4, <3>1, <3>2, Names, TakeIs
      <3>4. CASE x.at = "pulling"
        <4>1. Fits(Main, proc[Main])'
          BY <1>2, <1>3, <2>1, <3>3, <3>4
          DEF Fits, MainPlaces, Looks, Pulls, Receives, Holding, Selecting
        <4>2. ~Holding(proc'[Main])
          BY <3>3, <3>4 DEF Holding, Selecting
        <4> QED BY <1>1, <1>2, <1>3, <1>4, <3>2, <4>1, <4>2, Names, TakeKeeps
      <3>5. CASE Rests(Main, x)
        <4>1. Fits(Main, proc[Main])'
          BY <1>2, <1>3, <3>3, <3>5, RestingFits, Names
        <4>2. ~Holding(proc'[Main])
          BY <3>3, <3>5 DEF Rests, Holding, Selecting
        <4> QED BY <1>1, <1>2, <1>3, <1>4, <3>2, <4>1, <4>2, Names, TakeKeeps
      <3> QED BY <2>1, <3>4, <3>5
    <2>2. /\ NotWrapped \in Proc /\ NotWrapped.kind = "main" /\ Rests(Main, NotWrapped)
      BY <1>3 DEF NotWrapped, Rests
    <2>3. /\ AfterValue \in Proc /\ AfterValue.kind = "main"
          /\ AfterValue.at = "pulling" \/ Rests(Main, AfterValue)
      <3>1. CASE proc[Main].hand + 1 < proc[Main].max
        <4>1. AfterValue = [proc[Main] EXCEPT !.at = "pulling", !.hand = @ + 1]
          BY <3>1 DEF AfterValue
        <4>2. proc[Main].hand + 1 \in 0..Batch
          BY <1>3, <3>1, Names DEF Proc
        <4> QED BY <1>3, <4>1, <4>2 DEF Proc
      <3>2. CASE ~(proc[Main].hand + 1 < proc[Main].max)
        BY <1>3, <3>2 DEF AfterValue, Rests
      <3> QED BY <3>1, <3>2
    <2>4. CASE Take(Main, [v \in Values |-> AfterValue])
      <3>1. PICK x \in Proc : x = AfterValue
        BY <2>3
      <3> QED BY <2>1, <2>3, <2>4, <3>1
    <2>5. CASE Take(Main, [v \in Values |-> NotWrapped])
      <3>1. PICK x \in Proc : x = NotWrapped
        BY <2>2
      <3> QED BY <2>1, <2>2, <2>5, <3>1
    <2> QED BY <1>4, <2>4, <2>5 DEF PullTakes
  <1>5. CASE ~HasValue
    <2>1. PICK x \in Proc : x = Ended(Main)
      BY <1>3 DEF Rests
    <2>2. /\ Rests(Main, x) /\ proc' = [proc EXCEPT ![Main] = x]
          /\ UNCHANGED <<chanVars, told>> /\ Main \notin calls'
      BY <1>2, <1>3, <1>5, <2>1 DEF PullTakes
    <2> QED BY <1>2, <2>2, Names, RestKeeps
  <1> QED BY <1>4, <1>5

LEMMA StreamCancelKeeps == ASSUME Inv, StreamCancel PROVE Inv'
  <1>1. /\ Begins /\ handle' \in {"live", "released"}
        /\ UNCHANGED <<coop, size, chanVars, proc, calls, offered, told, stolen, raced>>
    BY DEF StreamCancel, history
  <1>2. Scalars' /\ size' = size /\ calls' = calls /\ offered <= offered' /\ calls' \subseteq calls
    BY <1>1, Steps, OfferedIs DEF Inv, TypeOK
  <1>3. /\ Rests(Main, proc[Main]) /\ Main \notin calls' /\ proc[Main] \in Proc
    BY <1>1, <1>2, MainBegins
  <1>4. PICK x \in Proc : x = proc[Main]
    BY <1>3
  <1>5. proc' = [proc EXCEPT ![Main] = x] /\ Rests(Main, x)
    BY <1>1, <1>3, <1>4 DEF Inv, TypeOK
  <1> QED BY <1>1, <1>2, <1>3, <1>5, Names, RestKeeps

----------------------------------------------------------------------------
(* Spawned goroutines                                                      *)

LEMMA WorkerIs ==
  ASSUME Inv, NEW w \in Workers
  PROVE  /\ w \in Procs /\ w # Main /\ proc[w] \in Proc /\ Fits(w, proc[w])
         /\ Rests(w, Ended(w)) /\ w \notin Senders
  <1>1. w \in Procs /\ w # Main
    BY Names
  <1> QED BY <1>1, EndedIs, SendersAre DEF Inv, TypeOK

LEMMA SpawnKeeps == ASSUME Inv, NEW w \in Workers, Spawn(w) PROVE Inv'
  <1>1. /\ Begins /\ Unmoved /\ proc[w].kind = "none" /\ UNCHANGED <<chanVars, told, stolen, raced>>
    BY DEF Spawn, history
  <1>2. PICK kind \in Kinds \ {"inline"}, for \in SUBSET (Workers \ {w}) :
       /\ IF kind = "send_async" THEN Offer(offered + 1) ELSE UNCHANGED offered
       /\ proc' = [proc EXCEPT ![w] = [Resting(kind) EXCEPT !.for = for,
            !.val = IF kind = "send_async" THEN offered + 1 ELSE 0,
            !.at = CASE kind = "send_async" -> "retrying"
                     [] kind = "wait" -> "waiting" [] OTHER -> "running"]]
    BY DEF Spawn
  <1>3. w \in Procs /\ w # Main /\ proc[w] \in Proc /\ Fits(w, proc[w])
    BY WorkerIs
  <1>4. /\ offered \in Nat /\ offered' \in Values \cup {0} /\ offered <= offered'
        /\ kind = "send_async" =>
             /\ offered + 1 \in Values /\ offered' = offered + 1
             /\ offered + 1 \notin Range(accepted)
    BY <1>2, OffersFresh, OfferedIs DEF Inv, TypeOK
  <1>5. Scalars' /\ size' = size /\ calls' = calls
    BY <1>1, <1>4, Steps DEF Unmoved, Inv, TypeOK
  <1>6. PICK x : x = [Resting(kind) EXCEPT !.for = for,
            !.val = IF kind = "send_async" THEN offered + 1 ELSE 0,
            !.at = CASE kind = "send_async" -> "retrying"
                     [] kind = "wait" -> "waiting" [] OTHER -> "running"]
    OBVIOUS
  <1>7. /\ x \in Proc
        /\ x.at = CASE kind = "send_async" -> "retrying"
                    [] kind = "wait" -> "waiting" [] OTHER -> "running"
        /\ kind = "send_async" => x.val = offered + 1
    <2>1. 0 \in 0..Batch /\ 1 \in {1, Batch} /\ for \subseteq Workers
      BY Names
    <2> QED BY <1>4, <1>6, <2>1 DEF Resting, Proc, Kinds
  <1>8. proc' = [proc EXCEPT ![w] = x] /\ proc'[w] = x
    BY <1>2, <1>3, <1>6 DEF Inv, TypeOK
  <1>9. w \notin calls'
    BY <1>1, <1>3, <1>5 DEF Fits
  <1>10. Holding(x) <=> kind = "send_async"
    BY <1>7 DEF Holding, Selecting
  <1>11. Holding(x) => Fresh(proc[w].val)'
    <2>1. Holding(x) => /\ proc'[w].val = offered' /\ offered' \in 1..offered'
                        /\ offered' \notin Range(accepted')
      BY <1>1, <1>4, <1>7, <1>8, <1>10 DEF chanVars, Range
    <2> QED BY <2>1 DEF Fresh, Range
  <1>12. Fits(w, proc[w])'
    BY <1>3, <1>7, <1>8, <1>9, <1>10, <1>11 DEF Fits, WorkerPlaces, Receives, Holding
  <1>13. Holding(x) => x.val \in Nat /\ x.val > offered
    BY <1>4, <1>7, <1>10
  <1> QED BY <1>1, <1>3, <1>4, <1>5, <1>7, <1>8, <1>12, <1>13, Moves

LEMMA SpawnInlineKeeps == ASSUME Inv, NEW w \in Workers, SpawnInline(w) PROVE Inv'
  <1>1. /\ Begins /\ Unmoved /\ proc[w].kind = "none"
        /\ UNCHANGED <<chanVars, offered, told, stolen, raced>>
        /\ proc' = [proc EXCEPT ![w] = [Resting("inline") EXCEPT !.at = "done"]]
    BY DEF SpawnInline, history
  <1>2. Scalars' /\ size' = size /\ calls' = calls /\ offered <= offered'
    BY <1>1, Steps, OfferedIs DEF Unmoved, Inv, TypeOK
  <1>3. w \in Procs /\ w # Main /\ proc[w] \in Proc /\ Fits(w, proc[w])
    BY WorkerIs
  <1>4. PICK x : x = [Resting("inline") EXCEPT !.at = "done"]
    OBVIOUS
  <1>5. x \in Proc /\ x.at = "done"
    <2>1. 0 \in 0..Batch /\ 1 \in {1, Batch}
      BY Names
    <2> QED BY <1>4, <2>1 DEF Resting, Proc, Kinds
  <1>6. proc' = [proc EXCEPT ![w] = x] /\ proc'[w] = x /\ w \notin calls'
    BY <1>1, <1>2, <1>3, <1>4 DEF Inv, TypeOK, Fits
  <1>7. Fits(w, proc[w])' /\ ~Holding(x)
    BY <1>3, <1>5, <1>6 DEF Fits, WorkerPlaces, Receives, Holding, Selecting
  <1> QED BY <1>1, <1>2, <1>3, <1>5, <1>6, <1>7, Moves

LEMMA WorkerRecvKeeps == ASSUME Inv, NEW w \in Workers, WorkerRecv(w) PROVE Inv'
  <1>1. /\ proc[w].at = "running" /\ Recv(w) /\ Unmoved /\ UNCHANGED <<ops, offered, raced>>
        /\ stolen' = IF HasValue THEN stolen \/ proc[Main].at = "taking" ELSE stolen
    BY DEF WorkerRecv, Steals
  <1>2. Scalars' /\ size' = size /\ calls' = calls
    BY <1>1, Steps DEF Unmoved, Inv, TypeOK
  <1>3. /\ w \in Procs /\ w # Main /\ w \notin Senders /\ w \notin calls
        /\ w \notin Receivers
    BY <1>1, WorkerIs DEF Fits, Receivers
  <1> QED BY <1>1, <1>2, <1>3, RecvKeeps

LEMMA SendStatusKeeps == ASSUME Inv, NEW w \in Workers, SendStatus(w) PROVE Inv'
  <1>1. proc[w].at = "retrying" /\ Unmoved /\ UNCHANGED <<ops, offered, stolen, raced>>
    BY DEF SendStatus
  <1>2. Scalars' /\ size' = size /\ calls' = calls /\ offered <= offered' /\ offered' = offered
    BY <1>1, Steps, OfferedIs DEF Unmoved, Inv, TypeOK
  <1>3. /\ w \in Procs /\ w # Main /\ proc[w] \in Proc /\ Fits(w, proc[w])
        /\ Rests(w, Ended(w)) /\ w \notin calls /\ w \notin Receivers
        /\ Holding(proc[w]) /\ Fresh(proc[w].val)
    BY <1>1, WorkerIs DEF Fits, Holding, Receivers
  <1>4. PICK x \in Proc : x = Ended(w)
    BY <1>3 DEF Rests
  <1>5. CASE closed
    <2>1. /\ proc' = [proc EXCEPT ![w] = x] /\ UNCHANGED <<chanVars, told>>
          /\ Rests(w, x) /\ w \notin calls' /\ calls' \subseteq calls
      BY <1>2, <1>3, <1>4, <1>5 DEF SendStatus
    <2> QED BY <1>1, <1>2, <1>3, <2>1, RestKeeps
  <1>6. CASE ~closed
    <2>1. offered \in Nat /\ offered <= MaxValues
      BY OfferedIs DEF Inv
    <2>2. PICK v \in Values : v = proc[w].val
      BY <1>3, <2>1, Names DEF Fresh, Values
    <2>3. v \notin Range(accepted) /\ v <= offered'
      BY <1>2, <1>3, <2>1, <2>2 DEF Fresh
    <2>4. \A q \in Procs \ {w} : Holding(proc[q]) => proc[q].val # v
      BY <1>3, <2>2 DEF Inv, Alone
    <2>5. HasRoom /\ Put(v, w, x) /\ told' = told \cup {v} /\ Rests(w, x)
      BY <1>3, <1>4, <1>6, <2>2 DEF SendStatus
    <2> QED BY <1>1, <1>2, <1>3, <2>3, <2>4, <2>5, PutKeeps
  <1> QED BY <1>5, <1>6

LEMMA CallGuestKeeps == ASSUME Inv, NEW w \in Workers, CallGuest(w) PROVE Inv'
  <1>1. /\ proc[w].kind = "callback" /\ proc[w].at = "running"
        /\ proc' = [proc EXCEPT ![w].at = "calling"] /\ calls' = calls \cup {w}
        /\ UNCHANGED <<coop, size, chanVars, handle, ops, offered, told, stolen, raced>>
    BY DEF CallGuest, history
  <1>2. w \in Procs /\ w # Main /\ proc[w] \in Proc /\ Fits(w, proc[w])
    BY WorkerIs
  <1>3. Scalars' /\ size' = size /\ offered <= offered' /\ calls' \subseteq calls \cup {w}
    BY <1>1, OfferedIs DEF Inv, TypeOK, Scalars
  <1>4. PICK x \in Proc : x = [proc[w] EXCEPT !.at = "calling"]
    BY <1>2 DEF Proc
  <1>5. /\ x.at = "calling" /\ x.kind = "callback" /\ proc' = [proc EXCEPT ![w] = x]
        /\ proc'[w] = x
    BY <1>1, <1>2, <1>4 DEF Proc, Inv, TypeOK
  <1>6. Fits(w, proc[w])' /\ ~Holding(x)
    BY <1>2, <1>5 DEF Fits, WorkerPlaces, Receives, Holding, Selecting
  <1> QED BY <1>1, <1>2, <1>3, <1>5, <1>6, Moves

LEMMA CompleteKeeps == ASSUME Inv, NEW w \in Workers, Complete(w) PROVE Inv'
  <1>1. /\ proc[w].at = "running" /\ proc' = [proc EXCEPT ![w] = Ended(w)] /\ Unmoved
        /\ UNCHANGED <<chanVars, ops, offered, told, stolen, raced>>
    BY DEF Complete, history
  <1>2. Scalars' /\ size' = size /\ calls' = calls /\ offered <= offered'
    BY <1>1, Steps, OfferedIs DEF Unmoved, Inv, TypeOK
  <1>3. w \in Procs /\ Rests(w, Ended(w)) /\ w \notin calls'
    BY <1>1, <1>2, WorkerIs DEF Fits
  <1>4. PICK x \in Proc : x = Ended(w)
    BY <1>3 DEF Rests
  <1>5. Rests(w, x) /\ proc' = [proc EXCEPT ![w] = x] /\ calls' \subseteq calls
    BY <1>1, <1>2, <1>3, <1>4
  <1> QED BY <1>1, <1>2, <1>3, <1>5, RestKeeps

LEMMA ServeKeeps ==
  ASSUME Inv, NEW p \in Procs, NEW w \in Workers, Serve(p, w) PROVE Inv'
  <1>1. /\ w \in calls /\ calls' = calls \ {w}
        /\ UNCHANGED <<coop, size, buf, accepted, taken, handle, ops, offered, told, stolen>>
    BY DEF Serve
  <1>2. /\ w \in Procs /\ w # Main /\ proc[w] \in Proc /\ Fits(w, proc[w])
        /\ w \notin calls'
    BY <1>1, WorkerIs
  <1>3. Scalars' /\ offered <= offered' /\ calls' \subseteq calls
    BY <1>1, OfferedIs DEF Inv, TypeOK, Scalars
  <1>4. PICK x \in Proc : x = [proc[w] EXCEPT !.at = "running"]
    BY <1>2 DEF Proc
  <1>5. x.at = "running" /\ ~Holding(x)
    BY <1>2, <1>4 DEF Proc, Holding, Selecting
  <1>6. ASSUME proc'[w] = x PROVE Fits(w, proc[w])'
    BY <1>2, <1>5, <1>6 DEF Fits, WorkerPlaces, Receives, Holding, Selecting
  <1>7. CASE UNCHANGED <<closed, raced>> /\ proc' = [proc EXCEPT ![w].at = "running"]
    <2>1. proc' = [proc EXCEPT ![w] = x] /\ proc'[w] = x
      BY <1>2, <1>4, <1>7 DEF Inv, TypeOK
    <2>2. UNCHANGED <<chanVars, told>> /\ calls' \subseteq calls \cup {w}
      BY <1>1, <1>7 DEF chanVars
    <2> QED BY <1>1, <1>2, <1>3, <1>5, <1>6, <1>7, <2>1, <2>2, Moves
  <1>8. CASE /\ ~closed /\ closed' = TRUE
             /\ proc' = [q \in Procs |-> IF q = w THEN [proc[w] EXCEPT !.at = "running"]
                                         ELSE Woken(q)]
             /\ raced' = (raced \/ Selects(Main))
    <2>1. proc' = [q \in Procs |-> IF q = w THEN x ELSE Woken(q)] /\ proc'[w] = x
      BY <1>2, <1>4, <1>8
    <2> QED BY <1>1, <1>2, <1>3, <1>5, <1>6, <1>8, <2>1, ClosesKeeps
  <1> QED BY <1>7, <1>8 DEF Serve

LEMMA WaitKeeps == ASSUME Inv, Wait PROVE Inv'
  <1>1. PICK for \in SUBSET {w \in Workers : proc[w].kind # "none"} :
          proc' = [proc EXCEPT ![Main] = [@ EXCEPT !.at = "waiting", !.for = for]]
    BY DEF Wait
  <1>2. Begins /\ Unmoved /\ UNCHANGED <<chanVars, offered, told, stolen, raced>>
    BY DEF Wait, history
  <1>3. Scalars' /\ size' = size /\ calls' = calls /\ offered <= offered'
    BY <1>2, Steps, OfferedIs DEF Unmoved, Inv, TypeOK
  <1>4. /\ Main \notin calls' /\ proc[Main] \in Proc /\ proc[Main].kind = "main"
        /\ ~proc[Main].pending
    BY <1>2, <1>3, MainBegins
  <1>5. PICK x \in Proc : x = [proc[Main] EXCEPT !.at = "waiting", !.for = for]
    BY <1>4 DEF Proc
  <1>6. /\ x.at = "waiting" /\ x.kind = "main" /\ ~x.pending
        /\ proc' = [proc EXCEPT ![Main] = x] /\ proc'[Main] = x
    BY <1>1, <1>4, <1>5, Names DEF Proc, Inv, TypeOK
  <1>7. Fits(Main, proc[Main])' /\ ~Holding(x)
    BY <1>4, <1>6 DEF Fits, MainPlaces, Looks, Pulls, Selecting, Receives, Holding
  <1> QED BY <1>2, <1>3, <1>6, <1>7, Names, Moves

LEMMA WaitedKeeps == ASSUME Inv, NEW p \in Procs, Waited(p) PROVE Inv'
  <1>1. /\ proc[p].at = "waiting" /\ proc' = [proc EXCEPT ![p] = Ended(p)] /\ Unmoved
        /\ UNCHANGED <<chanVars, ops, offered, told, stolen, raced>>
    BY DEF Waited, history
  <1>2. Scalars' /\ size' = size /\ calls' = calls /\ offered <= offered'
    BY <1>1, Steps, OfferedIs DEF Unmoved, Inv, TypeOK
  <1>3. Rests(p, Ended(p)) /\ p \notin calls'
    BY <1>1, <1>2, EndedIs DEF Inv, Fits
  <1>4. PICK x \in Proc : x = Ended(p)
    BY <1>3 DEF Rests
  <1>5. Rests(p, x) /\ proc' = [proc EXCEPT ![p] = x] /\ calls' \subseteq calls
    BY <1>1, <1>2, <1>3, <1>4
  <1> QED BY <1>1, <1>2, <1>3, <1>5, RestKeeps

----------------------------------------------------------------------------
(* The theorems                                                            *)

LEMMA InvNext == ASSUME Inv, [Next]_vars PROVE Inv'
  <1>1. CASE UNCHANGED vars
    BY <1>1 DEF Inv, TypeOK, Flow, Alone, Fits, Holding, Receives, Looks, Pulls, Fresh,
       vars, chanVars, history, IsInjective, Range
  <1>2. CASE MainStep
    BY <1>2, ResolveKeeps, SelectFiresKeeps, SelectTimeoutKeeps, PullLooksKeeps,
       PullTakesKeeps DEF MainStep
  <1>3. ASSUME NEW w \in Workers,
               Spawn(w) \/ SpawnInline(w) \/ WorkerStep(w) \/ Complete(w)
        PROVE  Inv'
    BY <1>3, SpawnKeeps, SpawnInlineKeeps, WorkerRecvKeeps, SendStatusKeeps,
       CallGuestKeeps, CompleteKeeps DEF WorkerStep
  <1>4. ASSUME NEW p \in Procs, Waited(p) \/ \E w \in Workers : Serve(p, w)
        PROVE  Inv'
    BY <1>4, WaitedKeeps, ServeKeeps
  <1>5. CASE SendNonBlocking \/ RecvNonBlocking \/ OpClose \/ MainRecv \/ Select \/ Pull
             \/ StreamCancel \/ Wait
    BY <1>5, SendKeeps, RecvNonBlockingKeeps, CloseKeeps, MainRecvKeeps, SelectKeeps,
       PullKeeps, StreamCancelKeeps, WaitKeeps
  <1> QED BY <1>1, <1>2, <1>3, <1>4, <1>5 DEF Next

LEMMA InvHolds == Spec => []Inv
  <1>1. Init => Inv
    BY InvInit
  <1>2. Inv /\ [Next]_vars => Inv'
    BY InvNext
  <1> QED BY <1>1, <1>2, PTL DEF Spec

(* The channel, its processes and their calls have their types.            *)
THEOREM TypeCorrect == Spec => []TypeOK
  <1>1. Inv => TypeOK
    BY DEF Inv
  <1> QED BY <1>1, InvHolds, PTL

(* Values leave a channel in the order they entered it, each once, and a   *)
(* sender is told that its value went in exactly when it did: recv, select *)
(* and the pulls of a stream take from the same end, whoever is blocked.   *)
THEOREM ValuesStayKept == Spec => []ValuesAreKept
  <1>1. Inv => ValuesAreKept
    BY DEF Inv, Flow, ValuesAreKept
  <1> QED BY <1>1, InvHolds, PTL

(* A select panics only if the channel was closed after it had looked.     *)
THEOREM PanicsNeedARace == Spec => []PanicNeedsRace
  <1>1. Inv => PanicNeedsRace
    <2>1. Inv => Fits(Main, proc[Main])
      BY Names DEF Inv
    <2> QED BY <2>1 DEF Fits, Looks, PanicNeedsRace
  <1> QED BY <1>1, InvHolds, PTL

(* A pull with pending ends the stream of an open channel only if another  *)
(* receiver took the value it had seen.                                    *)
THEOREM OpenStreamsStay == Spec => LiveStreamsStay
  <1>1. ASSUME Inv, [Next]_vars
        PROVE  [handle' # handle /\ proc[Main].pending => closed \/ stolen]_vars
    <2>1. Fits(Main, proc[Main])
      BY <1>1, Names DEF Inv
    <2>2. CASE StreamCancel
      BY <2>1, <2>2 DEF StreamCancel, Begins, Fits, Pulls
    <2>3. CASE PullTakes
      BY <2>1, <2>3 DEF PullTakes, HasValue, Fits, Pulls
    <2>4. CASE handle' = handle
      BY <2>4
    <2>5. [Next]_vars => StreamCancel \/ PullTakes \/ handle' = handle
      BY DEF Next, MainStep, WorkerStep, SendNonBlocking, RecvNonBlocking, OpClose, Close,
         MainRecv, Select, Pull, Wait, Resolve, SelectFires, SelectTimeout, PullLooks,
         Spawn, SpawnInline, WorkerRecv, SendStatus, CallGuest, Complete, Waited, Serve,
         Unmoved, vars
    <2> QED BY <1>1, <2>2, <2>3, <2>4, <2>5
  <1>2. (Inv /\ [Next]_vars
          => [handle' # handle /\ proc[Main].pending => closed \/ stolen]_vars)
    BY <1>1
  <1> QED BY <1>2, InvHolds, PTL DEF Spec, LiveStreamsStay

----------------------------------------------------------------------------
(* Sequences                                                               *)

(* A stack with its top popped ...                                         *)
LEMMA PoppedSeq ==
  ASSUME NEW S, NEW s \in Seq(S), s # << >>, NEW t, t = Front(s)
  PROVE  /\ t \in Seq(S) /\ Len(t) = Len(s) - 1 /\ Len(s) \in DOMAIN s /\ Len(s) \in Nat \ {0}
         /\ Last(s) = s[Len(s)] /\ Last(s) \in S
         /\ \A i : i \in DOMAIN t <=> i \in DOMAIN s /\ i # Len(s)
         /\ \A i \in DOMAIN s : i \in Nat \ {0} /\ i <= Len(s)
         /\ \A i \in DOMAIN t : t[i] = s[i]
  <1>1. Len(s) \in Nat \ {0} /\ DOMAIN s = 1..Len(s) /\ Last(s) = s[Len(s)] /\ Last(s) \in S
    BY DEF Last
  <1>2. /\ t \in Seq(S) /\ Len(t) = Len(s) - 1 /\ DOMAIN t = 1..Len(t)
        /\ \A i \in 1..Len(t) : t[i] = s[i]
    BY <1>1 DEF Front
  <1> QED BY <1>1, <1>2

(* ... or with one more frame ...                                          *)
LEMMA PushedSeq ==
  ASSUME NEW S, NEW s \in Seq(S), NEW e \in S, NEW t, t = Append(s, e)
  PROVE  /\ t \in Seq(S) /\ Len(t) = Len(s) + 1 /\ t # << >> /\ Len(t) \in Nat \ {0}
         /\ \A i : i \in DOMAIN t <=> i \in DOMAIN s \/ i = Len(t)
         /\ Len(t) \notin DOMAIN s
         /\ \A i \in DOMAIN s : t[i] = s[i] /\ i \in Nat \ {0} /\ i < Len(t)
         /\ t[Len(t)] = e /\ Last(t) = e
  BY DEF Last

(* ... or with one frame changed.                                          *)
LEMMA SetSeq ==
  ASSUME NEW S, NEW s \in Seq(S), NEW k \in DOMAIN s, NEW e \in S,
         NEW t, t = [s EXCEPT ![k] = e]
  PROVE  /\ t \in Seq(S) /\ Len(t) = Len(s) /\ t # << >> /\ DOMAIN t = DOMAIN s
         /\ \A i \in DOMAIN s : i # k => t[i] = s[i]
         /\ t[k] = e /\ Len(s) \in DOMAIN s
         /\ Last(t) = t[Len(s)] /\ Last(s) = s[Len(s)]
  BY DEF Last

LEMMA TopIs ==
  ASSUME NEW S, NEW s \in Seq(S), s # << >>
  PROVE  /\ Len(s) \in DOMAIN s /\ Len(s) \in Nat \ {0} /\ Last(s) = s[Len(s)] /\ Last(s) \in S
         /\ \A i \in DOMAIN s : i \in Nat \ {0} /\ i <= Len(s)
  BY DEF Last

(* The rest of a sequence.                                                 *)
LEMMA TailSeq ==
  ASSUME NEW S, NEW s \in Seq(S), s # << >>, NEW t, t = Tail(s)
  PROVE  /\ t \in Seq(S) /\ Head(s) = s[1] /\ Head(s) \in S /\ 1 \in DOMAIN s
         /\ \A j \in DOMAIN t : j \in Nat \ {0} /\ j + 1 \in DOMAIN s /\ t[j] = s[j + 1]
         /\ \A j \in DOMAIN s : j \in Nat \ {0} /\ (j # 1 => j - 1 \in DOMAIN t /\ t[j - 1] = s[j])
  OBVIOUS

----------------------------------------------------------------------------
(* Awaits: the invariant                                                   *)

(* A task and its kind: a coroutine or promise reports through variables,  *)
(* a future has a place.                                                   *)
PlacesOf(kind) == CASE kind = "local" -> {"none", "driven", "futures"}
                    [] kind = "background" -> {"none", "driven", "locals", "joins"}
                    [] OTHER -> {"none", "driven", "spawned"}
KindOK(k) ==
  IF k.kind \in RustKinds
  THEN /\ k.rt = "rust" /\ k.place \in PlacesOf(k.kind)
       /\ k.kind \in {"local", "spawned"} /\ k.place = "none" => k.state \in {"over", "cancelled"}
  ELSE /\ k.rt \in Loops /\ k.place = "none" /\ k.state \in {"running", "calling", "over"}
       /\ k.bind => k.kind = "ref"
TasksOK(ts) == ts \in Seq(Task) /\ Len(ts) <= MaxTasks /\ \A t \in DOMAIN ts : KindOK(ts[t])

(* A frame: it awaits one future or only tasks of event loops.             *)
RustFrame(ts, f) == \E t \in DOMAIN ts : f.own = {t} /\ ts[t].kind \in RustKinds
FrameOK(ts, f) ==
  /\ f.own \subseteq DOMAIN ts /\ f.from \in DOMAIN ts \cup {0}
  /\ f.calls # << >> => f.at = "serving"
  /\ f.at = "driving" \/ f.next = "done" => RustFrame(ts, f)
  /\ (\E t \in f.own : ts[t].kind \in RustKinds) => RustFrame(ts, f)
  /\ f.at = "starting" => \A t \in f.own : ts[t].kind = "parallel"
FramesOK(ts, st) ==
  st \in Seq(Frame) /\ Len(st) <= MaxDepth /\ \A i \in DOMAIN st : FrameOK(ts, st[i])

(* What a frame drives has no other place, and no other frame drives it.   *)
(* A spawned future is driven at the top only, a local one has one frame.  *)
Drives(st, i, t) == i \in DOMAIN st /\ st[i].at = "driving" /\ t \in st[i].own
DrivesOK(ts, st) ==
  /\ \A t \in DOMAIN ts : ts[t].place = "driven" <=> \E i \in DOMAIN st : Drives(st, i, t)
  /\ \A i, j \in DOMAIN st : \A t \in DOMAIN ts : Drives(st, i, t) /\ Drives(st, j, t) => i = j
  /\ \A i \in DOMAIN st : \A t \in DOMAIN ts :
       Drives(st, i, t) /\ ts[t].kind = "spawned" => i = Len(st)
  /\ \A i, j \in DOMAIN st : \A t \in DOMAIN ts :
       ts[t].kind = "local" /\ t \in st[i].own /\ t \in st[j].own => i = j

(* The bridge call of t is in OUTBOUND (place b), or frame a serves it, or *)
(* frame a is to serve it (place b of its calls).                          *)
Way(out, st, a, b, t) ==
  \/ a = 0 /\ b \in DOMAIN out /\ out[b] = t
  \/ a \in DOMAIN st /\ b = 0 /\ st[a].from = t
  \/ a \in DOMAIN st /\ b \in DOMAIN st[a].calls /\ st[a].calls[b] = t
NoWay(out, st, t) == \A a, b \in Nat : ~Way(out, st, a, b, t)

(* Every call but that of c is on its way if its task waits for it; none   *)
(* is twice.                                                               *)
Suspended == {"calling", "asked", "cancelled"}
WaysOK(ts, out, st, c) ==
  \A t \in Ids :
    /\ \A a, b, d, e \in Nat : Way(out, st, a, b, t) /\ Way(out, st, d, e, t) => a = d /\ b = e
    /\ (\E a, b \in Nat : Way(out, st, a, b, t)) => t \in DOMAIN ts /\ ts[t].state \in Suspended
    /\ t \in DOMAIN ts /\ ts[t].state = "asked" /\ t # c => \E a, b \in Nat : Way(out, st, a, b, t)

(* Futures that are told to stop do.                                       *)
StopsOK(ts, ab) ==
  \A t \in ab : ts[t].kind \in {"local", "spawned"} => ts[t].state \in {"over", "cancelled"}

ScalarsOK ==
  /\ mode \in Executors /\ flags \subseteq Variables /\ results \in [Variables -> 0..MaxTasks]
  /\ manifest \in Manifests /\ nextRuntimeRefID \in [Manifests -> 0..Len(tasks)]
  /\ outbound \in Seq(Ids)
  /\ begun \in 0..MaxBegun /\ abandoned \subseteq Made /\ got \in [Ids -> 0..MaxTasks]

FuturesInv == /\ TasksOK(tasks) /\ FramesOK(tasks, stack) /\ ScalarsOK /\ DrivesOK(tasks, stack)
              /\ WaysOK(tasks, outbound, stack, 0) /\ StopsOK(tasks, abandoned)

(* Tasks keep what they are.                                               *)
Continues(ts, us) ==
  /\ DOMAIN ts \subseteq DOMAIN us
  /\ \A t \in DOMAIN ts : /\ us[t].kind = ts[t].kind /\ us[t].rt = ts[t].rt
                          /\ us[t].idx = ts[t].idx /\ us[t].bind = ts[t].bind
                          /\ us[t].by = ts[t].by

LEMMA AwaitNames ==
  /\ MaxTasks \in Nat \ {0} /\ MaxBegun \in Nat /\ MaxDepth \in Nat \ {0}
  /\ Ids = 1..MaxTasks /\ 0 \notin Ids /\ Ids \subseteq Nat
  /\ \A t \in Ids : t \in 0..MaxTasks
  /\ "rust" \notin Loops
  BY AwaitsAssumption DEF Ids

LEMMA TasksAre ==
  ASSUME NEW ts, TasksOK(ts)
  PROVE  /\ Len(ts) \in Nat /\ DOMAIN ts = 1..Len(ts) /\ DOMAIN ts \subseteq Ids
         /\ \A t \in DOMAIN ts : ts[t] \in Task /\ KindOK(ts[t])
  BY AwaitNames DEF TasksOK

LEMMA FramesAre ==
  ASSUME NEW ts, NEW st, FramesOK(ts, st)
  PROVE  /\ Len(st) \in Nat /\ DOMAIN st = 1..Len(st)
         /\ \A i \in DOMAIN st :
              /\ i \in Nat \ {0} /\ i <= Len(st) /\ st[i] \in Frame /\ FrameOK(ts, st[i])
              /\ st[i].calls \in Seq(Ids) /\ st[i].own \subseteq DOMAIN ts
              /\ st[i].from \in DOMAIN ts \cup {0}
  <1>1. Len(st) \in Nat /\ DOMAIN st = 1..Len(st) /\ \A i \in DOMAIN st : st[i] \in Frame
    BY DEF FramesOK
  <1>2. \A i \in DOMAIN st : i \in Nat \ {0} /\ i <= Len(st)
    BY <1>1
  <1>3. \A i \in DOMAIN st : FrameOK(ts, st[i])
    BY DEF FramesOK
  <1>4. \A f \in Frame : f.calls \in Seq(Ids)
    BY DEF Frame
  <1> QED BY <1>1, <1>2, <1>3, <1>4 DEF FrameOK

LEMMA FrameStays ==
  ASSUME NEW ts, NEW us, Continues(ts, us), NEW f, FrameOK(ts, f)
  PROVE  FrameOK(us, f)
  <1>1. RustFrame(ts, f) => RustFrame(us, f)
    BY DEF RustFrame, Continues
  <1>2. \A t \in f.own : t \in DOMAIN ts /\ us[t].kind = ts[t].kind
    BY DEF FrameOK, Continues
  <1> QED BY <1>1, <1>2 DEF FrameOK, Continues

(* One task changes what it does, or where it is.                          *)
SetState(ts, t, x) == [ts EXCEPT ![t].state = x]
SetPlace(ts, t, x) == [ts EXCEPT ![t].place = x]
OnlyAt(ts, us, t, state, place) ==
  /\ DOMAIN us = DOMAIN ts /\ Len(us) = Len(ts) /\ \A u \in DOMAIN ts : u # t => us[u] = ts[u]
  /\ us[t].state = state /\ us[t].place = place

LEMMA StateChanges ==
  ASSUME NEW ts, TasksOK(ts), NEW t \in DOMAIN ts,
         NEW x \in {"running", "calling", "asked", "over", "cancelled"},
         ts[t].kind \in RustKinds =>
           (ts[t].kind \in {"local", "spawned"} /\ ts[t].place = "none" => x \in {"over", "cancelled"}),
         ts[t].kind \notin RustKinds => x \in {"running", "calling", "over"}
  PROVE  LET us == SetState(ts, t, x)
         IN  /\ TasksOK(us) /\ Continues(ts, us) /\ OnlyAt(ts, us, t, x, ts[t].place)
  <1> DEFINE us == SetState(ts, t, x)
  <1> DEFINE k == [ts[t] EXCEPT !.state = x]
  <1>1. ts[t] \in Task /\ KindOK(ts[t])
    BY TasksAre
  <1>2. /\ k \in Task /\ k.kind = ts[t].kind /\ k.rt = ts[t].rt /\ k.idx = ts[t].idx
        /\ k.bind = ts[t].bind /\ k.by = ts[t].by /\ k.place = ts[t].place /\ k.state = x
    BY <1>1 DEF Task
  <1>3. KindOK(k)
    <2>1. k.bind => ts[t].bind
      BY <1>2
    <2> HIDE DEF k
    <2>2. CASE ts[t].kind \in RustKinds
      BY <1>1, <1>2, <2>2 DEF KindOK
    <2>3. CASE ts[t].kind \notin RustKinds
      BY <1>1, <1>2, <2>1, <2>3 DEF KindOK
    <2> QED BY <2>2, <2>3
  <1>4. /\ DOMAIN us = DOMAIN ts /\ us[t] = k /\ us \in Seq(Task) /\ Len(us) = Len(ts)
        /\ \A u \in DOMAIN ts : u # t => us[u] = ts[u]
    BY <1>1, <1>2 DEF TasksOK, SetState
  <1>5. TasksOK(us) /\ Continues(ts, us)
    <2> HIDE DEF k, us
    <2> QED BY <1>1, <1>2, <1>3, <1>4 DEF TasksOK, Continues
  <1> QED BY <1>2, <1>4, <1>5 DEF OnlyAt

LEMMA PlaceChanges ==
  ASSUME NEW ts, TasksOK(ts), NEW t \in DOMAIN ts, NEW x, ts[t].kind \in RustKinds,
         x \in PlacesOf(ts[t].kind),
         ts[t].kind \in {"local", "spawned"} /\ x = "none" => ts[t].state \in {"over", "cancelled"}
  PROVE  LET us == SetPlace(ts, t, x)
         IN  /\ TasksOK(us) /\ Continues(ts, us) /\ OnlyAt(ts, us, t, ts[t].state, x)
  <1> DEFINE us == SetPlace(ts, t, x)
  <1> DEFINE k == [ts[t] EXCEPT !.place = x]
  <1>1. ts[t] \in Task /\ KindOK(ts[t])
    BY TasksAre
  <1>0. x \in {"none", "futures", "joins", "locals", "spawned", "driven"}
    BY DEF PlacesOf
  <1>2. /\ k \in Task /\ k.kind = ts[t].kind /\ k.rt = ts[t].rt /\ k.idx = ts[t].idx
        /\ k.bind = ts[t].bind /\ k.by = ts[t].by /\ k.state = ts[t].state /\ k.place = x
    BY <1>1, <1>0 DEF Task
  <1>3. KindOK(k)
    <2>1. k.bind => ts[t].bind
      BY <1>2
    <2> HIDE DEF k
    <2>2. CASE ts[t].kind \in RustKinds
      BY <1>1, <1>2, <2>2 DEF KindOK
    <2>3. CASE ts[t].kind \notin RustKinds
      BY <1>1, <1>2, <2>1, <2>3 DEF KindOK
    <2> QED BY <2>2, <2>3
  <1>4. /\ DOMAIN us = DOMAIN ts /\ us[t] = k /\ us \in Seq(Task) /\ Len(us) = Len(ts)
        /\ \A u \in DOMAIN ts : u # t => us[u] = ts[u]
    BY <1>1, <1>2 DEF TasksOK, SetPlace
  <1>5. TasksOK(us) /\ Continues(ts, us)
    <2> HIDE DEF k, us
    <2> QED BY <1>1, <1>2, <1>3, <1>4 DEF TasksOK, Continues
  <1> QED BY <1>2, <1>4, <1>5 DEF OnlyAt

----------------------------------------------------------------------------
(* Stacks                                                                  *)

(* From st to rt frames come and go; those that drive are the same and     *)
(* drive the same.                                                         *)
Quiet(st, rt) ==
  /\ \A i \in DOMAIN st \cap DOMAIN rt :
       /\ rt[i].at = "driving" <=> st[i].at = "driving"
       /\ rt[i].at = "driving" => rt[i].own = st[i].own
  /\ \A i \in DOMAIN st : i \notin DOMAIN rt => st[i].at # "driving"
  /\ \A i \in DOMAIN rt : i \notin DOMAIN st => rt[i].at # "driving"

(* No task comes to a drive or from one.                                   *)
SamePlaces(ts, us) ==
  /\ Continues(ts, us)
  /\ \A t \in DOMAIN ts : us[t].place = "driven" <=> ts[t].place = "driven"
  /\ \A t \in DOMAIN us : t \notin DOMAIN ts => us[t].place # "driven"

LEMMA QuietDrives ==
  ASSUME NEW ts, NEW us, NEW st, NEW rt, DrivesOK(ts, st), Quiet(st, rt), SamePlaces(ts, us),
         \A i \in DOMAIN st : st[i].own \subseteq DOMAIN ts,
         \A i \in DOMAIN st : \A t \in DOMAIN ts :
           Drives(st, i, t) /\ ts[t].kind = "spawned" => i = Len(rt),
         \A i, j \in DOMAIN rt : \A t \in DOMAIN us :
           us[t].kind = "local" /\ t \in rt[i].own /\ t \in rt[j].own => i = j
  PROVE  DrivesOK(us, rt)
  <1>1. \A i, t : Drives(st, i, t) <=> Drives(rt, i, t)
    BY DEF Quiet, Drives
  <1>2. \A i, t : Drives(rt, i, t) => i \in DOMAIN st /\ i \in DOMAIN rt /\ t \in DOMAIN ts
    BY <1>1 DEF Drives
  <1>3. \A t \in DOMAIN us : us[t].place = "driven" <=> \E i \in DOMAIN rt : Drives(rt, i, t)
    <2> TAKE t \in DOMAIN us
    <2>1. CASE t \in DOMAIN ts
      BY <1>1, <1>2, <2>1 DEF DrivesOK, SamePlaces
    <2>2. CASE t \notin DOMAIN ts
      BY <1>2, <2>2 DEF SamePlaces
    <2> QED BY <2>1, <2>2
  <1>4. \A i, j \in DOMAIN rt : \A t \in DOMAIN us : Drives(rt, i, t) /\ Drives(rt, j, t) => i = j
    BY <1>1, <1>2 DEF DrivesOK
  <1>5. \A i \in DOMAIN rt : \A t \in DOMAIN us :
          Drives(rt, i, t) /\ us[t].kind = "spawned" => i = Len(rt)
    BY <1>1, <1>2 DEF SamePlaces, Continues
  <1> QED BY <1>3, <1>4, <1>5 DEF DrivesOK

(* The same frames, one of them changed, or one less, or one more.         *)
LEMMA SetFrame ==
  ASSUME NEW ts, NEW us, Continues(ts, us), NEW st, FramesOK(ts, st), NEW k \in DOMAIN st,
         NEW f \in Frame, FrameOK(us, f), NEW rt, rt = [st EXCEPT ![k] = f]
  PROVE  FramesOK(us, rt)
  <1>1. st \in Seq(Frame) /\ Len(st) <= MaxDepth
    BY DEF FramesOK
  <1>2. /\ rt \in Seq(Frame) /\ Len(rt) = Len(st) /\ DOMAIN rt = DOMAIN st
        /\ \A i \in DOMAIN st : i # k => rt[i] = st[i]
        /\ rt[k] = f
    BY <1>1, SetSeq
  <1>3. \A i \in DOMAIN rt : FrameOK(us, rt[i])
    BY <1>2, FrameStays DEF FramesOK
  <1> QED BY <1>1, <1>2, <1>3 DEF FramesOK

LEMMA PopFrame ==
  ASSUME NEW ts, NEW us, Continues(ts, us), NEW st, FramesOK(ts, st), st # << >>,
         NEW rt, rt = Front(st)
  PROVE  /\ FramesOK(us, rt) /\ Len(st) \in DOMAIN st /\ Last(st) = st[Len(st)] /\ Last(st) \in Frame
         /\ FrameOK(ts, Last(st))
         /\ \A i : i \in DOMAIN rt <=> i \in DOMAIN st /\ i # Len(st)
         /\ \A i \in DOMAIN rt : rt[i] = st[i]
  <1>1. st \in Seq(Frame) /\ Len(st) <= MaxDepth
    BY DEF FramesOK
  <1>2. /\ rt \in Seq(Frame) /\ Len(rt) = Len(st) - 1 /\ Len(st) \in DOMAIN st
        /\ Len(st) \in Nat \ {0} /\ Last(st) = st[Len(st)] /\ Last(st) \in Frame
        /\ \A i : i \in DOMAIN rt <=> i \in DOMAIN st /\ i # Len(st)
        /\ \A i \in DOMAIN rt : rt[i] = st[i]
    BY <1>1, PoppedSeq
  <1>3. \A i \in DOMAIN rt : FrameOK(us, rt[i])
    BY <1>2, FrameStays DEF FramesOK
  <1>4. Len(rt) <= MaxDepth
    BY <1>1, <1>2, AwaitNames
  <1> QED BY <1>2, <1>3, <1>4 DEF FramesOK

LEMMA PushFrame ==
  ASSUME NEW ts, NEW us, Continues(ts, us), NEW st, FramesOK(ts, st), Len(st) < MaxDepth,
         NEW f \in Frame, FrameOK(us, f), NEW rt, rt = Append(st, f)
  PROVE  /\ FramesOK(us, rt) /\ Len(rt) \in Nat \ {0} /\ Len(rt) \notin DOMAIN st
         /\ \A i : i \in DOMAIN rt <=> i \in DOMAIN st \/ i = Len(rt)
         /\ \A i \in DOMAIN st : rt[i] = st[i]
         /\ rt[Len(rt)] = f
  <1>1. st \in Seq(Frame)
    BY DEF FramesOK
  <1>2. /\ rt \in Seq(Frame) /\ Len(rt) = Len(st) + 1 /\ Len(rt) \in Nat \ {0}
        /\ \A i : i \in DOMAIN rt <=> i \in DOMAIN st \/ i = Len(rt)
        /\ Len(rt) \notin DOMAIN st
        /\ \A i \in DOMAIN st : rt[i] = st[i]
        /\ rt[Len(rt)] = f
    BY <1>1, PushedSeq
  <1>3. \A i \in DOMAIN rt : FrameOK(us, rt[i])
    BY <1>2, FrameStays DEF FramesOK
  <1>4. Len(rt) <= MaxDepth
    BY <1>1, <1>2, AwaitNames
  <1> QED BY <1>2, <1>3, <1>4 DEF FramesOK

----------------------------------------------------------------------------
(* Bridge calls on their way                                               *)

(* Every way after a step was one before it: the ways of a task become     *)
(* neither more nor other ones.                                            *)
LEMMA WaysStay ==
  ASSUME NEW ts, NEW us, NEW out, NEW st, NEW oot, NEW rt, NEW c, NEW d,
         WaysOK(ts, out, st, c), Continues(ts, us),
         \A t \in Ids : \A a, b \in Nat : Way(oot, rt, a, b, t) => Way(out, st, a, b, t),
         \A t \in DOMAIN ts : ts[t].state \in Suspended =>
           us[t].state \in Suspended \/ NoWay(oot, rt, t),
         \A t \in DOMAIN us : us[t].state = "asked" /\ t # d =>
           /\ t # c /\ t \in DOMAIN ts /\ ts[t].state = "asked"
           /\ \A a, b \in Nat : Way(out, st, a, b, t) => Way(oot, rt, a, b, t)
  PROVE  WaysOK(us, oot, rt, d)
  <1> SUFFICES ASSUME NEW t \in Ids
               PROVE  /\ \A a, b, x, y \in Nat : Way(oot, rt, a, b, t) /\ Way(oot, rt, x, y, t)
                                                 => a = x /\ b = y
                      /\ (\E a, b \in Nat : Way(oot, rt, a, b, t))
                           => t \in DOMAIN us /\ us[t].state \in Suspended
                      /\ t \in DOMAIN us /\ us[t].state = "asked" /\ t # d =>
                           \E a, b \in Nat : Way(oot, rt, a, b, t)
    BY DEF WaysOK
  <1>1. \A a, b, x, y \in Nat : Way(oot, rt, a, b, t) /\ Way(oot, rt, x, y, t) => a = x /\ b = y
    BY DEF WaysOK
  <1>2. ASSUME NEW a \in Nat, NEW b \in Nat, Way(oot, rt, a, b, t)
        PROVE  t \in DOMAIN us /\ us[t].state \in Suspended
    <2>1. t \in DOMAIN ts /\ ts[t].state \in Suspended
      BY <1>2 DEF WaysOK
    <2>2. ~NoWay(oot, rt, t)
      BY <1>2 DEF NoWay
    <2> QED BY <2>1, <2>2 DEF Continues
  <1>3. ASSUME t \in DOMAIN us, us[t].state = "asked", t # d
        PROVE  \E a, b \in Nat : Way(oot, rt, a, b, t)
    <2>1. /\ t # c /\ t \in DOMAIN ts /\ ts[t].state = "asked"
          /\ \A a, b \in Nat : Way(out, st, a, b, t) => Way(oot, rt, a, b, t)
      BY <1>3
    <2>2. \E a, b \in Nat : Way(out, st, a, b, t)
      BY <2>1 DEF WaysOK
    <2> QED BY <2>1, <2>2
  <1> QED BY <1>1, <1>2, <1>3

(* A frame ends: the call it served has no way any more.                   *)
LEMMA PopWays ==
  ASSUME NEW ts, NEW out, NEW st, WaysOK(ts, out, st, 0), FramesOK(ts, st), st # << >>,
         Last(st).calls = << >>, NEW rt, rt = Front(st), DOMAIN ts \subseteq Ids
  PROVE  /\ WaysOK(ts, out, rt, Last(st).from)
         /\ Last(st).from # 0 => NoWay(out, rt, Last(st).from)
  <1> DEFINE c == Last(st).from
             n == Len(st)
  <1>1. /\ n \in DOMAIN st /\ Last(st) = st[n] /\ FrameOK(ts, Last(st))
        /\ \A i : i \in DOMAIN rt <=> i \in DOMAIN st /\ i # n
        /\ \A i \in DOMAIN rt : rt[i] = st[i]
    BY PopFrame DEF Continues
  <1>0. n \in Nat /\ 0 \in Nat /\ st[n].from = c /\ st[n].calls = << >>
    BY <1>1 DEF FramesOK
  <1>7. DOMAIN (<< >>) = {}
    OBVIOUS
  <1> HIDE DEF c, n
  <1>2. \A t, a, b : Way(out, rt, a, b, t) => Way(out, st, a, b, t)
    BY <1>1 DEF Way
  <1>3. \A t, a, b : Way(out, st, a, b, t) => Way(out, rt, a, b, t) \/ (t = c /\ a = n /\ b = 0)
    <2> SUFFICES ASSUME NEW t, NEW a, NEW b, Way(out, st, a, b, t)
                 PROVE  Way(out, rt, a, b, t) \/ (t = c /\ a = n /\ b = 0)
      OBVIOUS
    <2>1. CASE a # n
      <3>1. a \in DOMAIN st => a \in DOMAIN rt /\ rt[a] = st[a]
        BY <1>1, <2>1
      <3> QED BY <3>1 DEF Way
    <2>2. CASE a = n
      <3>1. b \notin DOMAIN st[n].calls
        BY <1>0, <1>7
      <3>2. \/ a = 0 /\ b \in DOMAIN out /\ out[b] = t
            \/ b = 0 /\ st[n].from = t
        BY <2>2, <3>1 DEF Way
      <3> QED BY <1>0, <2>2, <3>2 DEF Way
    <2> QED BY <2>1, <2>2
  <1>4. c # 0 => c \in Ids /\ Way(out, st, n, 0, c)
    BY <1>1, <1>0 DEF Way, FrameOK, c
  <1>5. c # 0 => NoWay(out, rt, c)
    <2> SUFFICES ASSUME c # 0, NEW a \in Nat, NEW b \in Nat, Way(out, rt, a, b, c) PROVE FALSE
      BY DEF NoWay
    <2>1. a = n /\ b = 0
      BY <1>0, <1>2, <1>4 DEF WaysOK
    <2>2. st[n].from = c /\ n \notin DOMAIN rt /\ 0 \notin DOMAIN (<< >>)
      BY <1>0, <1>1, <1>7
    <2>3. n # 0
      BY <1>1 DEF FramesOK
    <2> QED BY <2>1, <2>2, <2>3 DEF Way
  <1>6. WaysOK(ts, out, rt, c)
    <2>1. \A t \in DOMAIN ts : ts[t].state = "asked" /\ t # c =>
            /\ t # 0
            /\ \A a, b \in Nat : Way(out, st, a, b, t) => Way(out, rt, a, b, t)
      BY <1>3, AwaitNames
    <2>2. Continues(ts, ts)
      BY DEF Continues
    <2> QED BY <1>2, <2>1, <2>2, WaysStay
  <1> QED BY <1>5, <1>6 DEF c

(* The task whose call has been served goes on.                            *)
LEMMA ResumedWays ==
  ASSUME NEW ts, NEW out, NEW st, NEW c, WaysOK(ts, out, st, c), TasksOK(ts),
         c \in DOMAIN ts \cup {0}, c # 0 => NoWay(out, st, c)
  PROVE  WaysOK(Resumed(ts, c), out, st, 0)
  <1> DEFINE us == Resumed(ts, c)
  <1>1. Continues(ts, us) /\ DOMAIN us = DOMAIN ts
    BY TasksAre DEF Resumed, Continues, Task
  <1>2. \A t \in DOMAIN ts : t # c => us[t] = ts[t]
    BY DEF Resumed
  <1>3. c \in DOMAIN ts => us[c].state # "asked"
    BY TasksAre, AwaitNames DEF Resumed, Task
  <1> HIDE DEF us
  <1>4. \A t \in DOMAIN ts : ts[t].state \in Suspended =>
            us[t].state \in Suspended \/ NoWay(out, st, t)
    BY <1>2, TasksAre, AwaitNames
  <1>5. \A t \in DOMAIN us : us[t].state = "asked" /\ t # 0 =>
           /\ t # c /\ t \in DOMAIN ts /\ ts[t].state = "asked"
    BY <1>1, <1>2, <1>3
  <1>6. WaysOK(us, out, st, 0)
    BY <1>1, <1>4, <1>5, WaysStay
  <1> QED BY <1>6 DEF us

(* A frame begins that serves the call of c.                               *)
Serving(st, rt, n, c) ==
  /\ n \in Nat /\ n \notin DOMAIN st /\ n # 0
  /\ \A i : i \in DOMAIN rt <=> i \in DOMAIN st \/ i = n
  /\ \A i \in DOMAIN st : rt[i] = st[i]
  /\ rt[n].from = c /\ rt[n].calls = << >>

LEMMA PushWays ==
  ASSUME NEW ts, NEW us, NEW out, NEW st, NEW c, WaysOK(ts, out, st, c), Continues(ts, us),
         c \in DOMAIN ts => us[c].state \in Suspended,
         c \in Ids \cup {0}, c # 0 => c \in DOMAIN ts /\ NoWay(out, st, c),
         \A t \in DOMAIN ts : ts[t].state \in Suspended => us[t].state \in Suspended,
         \A t \in DOMAIN us : us[t].state = "asked" => t \in DOMAIN ts /\ ts[t].state = "asked",
         NEW rt, NEW n, Serving(st, rt, n, c)
  PROVE  WaysOK(us, out, rt, 0)
  <1>1. DOMAIN (<< >>) = {}
    OBVIOUS
  <1>0. /\ n \in Nat /\ n \notin DOMAIN st /\ n # 0
        /\ \A i : i \in DOMAIN rt <=> i \in DOMAIN st \/ i = n
        /\ \A i \in DOMAIN st : rt[i] = st[i]
        /\ rt[n].from = c /\ rt[n].calls = << >>
    BY DEF Serving
  <1> USE <1>0
  <1>2. \A t, a, b : Way(out, rt, a, b, t) <=> Way(out, st, a, b, t) \/ (t = c /\ a = n /\ b = 0)
    <2> TAKE t, a, b
    <2>1. CASE a # n
      <3>1. (a \in DOMAIN st <=> a \in DOMAIN rt) /\ (a \in DOMAIN st => rt[a] = st[a])
        BY <2>1
      <3> QED BY <2>1, <3>1 DEF Way
    <2>2. CASE a = n
      <3>1. ~Way(out, st, n, b, t)
        BY DEF Way
      <3>2. Way(out, rt, n, b, t) <=> (b = 0 /\ c = t)
        BY <1>1 DEF Way
      <3> QED BY <2>2, <3>1, <3>2
    <2> QED BY <2>1, <2>2
  <1> SUFFICES ASSUME NEW t \in Ids
               PROVE  /\ \A a, b, x, y \in Nat : Way(out, rt, a, b, t) /\ Way(out, rt, x, y, t)
                                                 => a = x /\ b = y
                      /\ (\E a, b \in Nat : Way(out, rt, a, b, t))
                           => t \in DOMAIN us /\ us[t].state \in Suspended
                      /\ t \in DOMAIN us /\ us[t].state = "asked" /\ t # 0 =>
                           \E a, b \in Nat : Way(out, rt, a, b, t)
    BY DEF WaysOK
  <1>3. t # 0
    BY AwaitNames
  <1>4. CASE t = c
    <2>1. \A a, b \in Nat : ~Way(out, st, a, b, t)
      BY <1>3, <1>4 DEF NoWay
    <2>2. \A a, b \in Nat : Way(out, rt, a, b, t) <=> (a = n /\ b = 0)
      BY <1>2, <1>4, <2>1
    <2>3. t \in DOMAIN us /\ us[t].state \in Suspended
      BY <1>3, <1>4 DEF Continues
    <2> QED BY <2>2, <2>3
  <1>5. CASE t # c
    <2>1. \A a, b \in Nat : Way(out, rt, a, b, t) <=> Way(out, st, a, b, t)
      BY <1>2, <1>5
    <2>2. (\E a, b \in Nat : Way(out, rt, a, b, t)) => t \in DOMAIN us /\ us[t].state \in Suspended
      BY <2>1 DEF WaysOK, Continues
    <2>3. t \in DOMAIN us /\ us[t].state = "asked" => \E a, b \in Nat : Way(out, rt, a, b, t)
      BY <1>5, <2>1 DEF WaysOK
    <2>4. \A a, b, x, y \in Nat : Way(out, rt, a, b, t) /\ Way(out, rt, x, y, t) => a = x /\ b = y
      BY <2>1 DEF WaysOK
    <2> QED BY <2>2, <2>3, <2>4
  <1> QED BY <1>4, <1>5

(* The first of the calls that a frame is to serve leaves the queue.       *)
LEMMA TailWays ==
  ASSUME NEW ts, NEW out, NEW st, WaysOK(ts, out, st, 0), FramesOK(ts, st),
         NEW n \in DOMAIN st, st[n].calls # << >>,
         NEW rt, DOMAIN rt = DOMAIN st, \A i \in DOMAIN st : i # n => rt[i] = st[i],
         rt[n].calls = Tail(st[n].calls), rt[n].from = st[n].from
  PROVE  LET c == Head(st[n].calls)
         IN  /\ WaysOK(ts, out, rt, c) /\ NoWay(out, rt, c)
             /\ c \in Ids /\ c \in DOMAIN ts /\ ts[c].state \in Suspended
  <1> DEFINE c == Head(st[n].calls)
             q == st[n].calls
             p == rt[n].calls
  <1>1. q \in Seq(Ids) /\ q # << >> /\ n \in Nat /\ n # 0
    BY FramesAre
  <1>2. /\ p = Tail(q) /\ c = q[1] /\ c \in Ids /\ 1 \in DOMAIN q
        /\ \A j \in DOMAIN p : j \in Nat \ {0} /\ j + 1 \in DOMAIN q /\ p[j] = q[j + 1]
        /\ \A j \in DOMAIN q : j \in Nat \ {0} /\ (j # 1 => j - 1 \in DOMAIN p /\ p[j - 1] = q[j])
    <2> HIDE DEF q
    <2>1. p = Tail(q) /\ c = Head(q)
      BY DEF q
    <2> HIDE DEF p, c
    <2> QED BY <1>1, <2>1, TailSeq
  <1>3. \A t, a, b : a # n => (Way(out, rt, a, b, t) <=> Way(out, st, a, b, t))
    <2> TAKE t, a, b
    <2> HAVE a # n
    <2>1. (a \in DOMAIN st <=> a \in DOMAIN rt) /\ (a \in DOMAIN st => rt[a] = st[a])
      OBVIOUS
    <2> QED BY <2>1 DEF Way
  <1>4. \A t, b : /\ Way(out, rt, n, b, t) <=> (b = 0 /\ st[n].from = t) \/ (b \in DOMAIN p /\ p[b] = t)
                  /\ Way(out, st, n, b, t) <=> (b = 0 /\ st[n].from = t) \/ (b \in DOMAIN q /\ q[b] = t)
    BY <1>1 DEF Way
  <1> HIDE DEF c, q, p
  <1>5. Way(out, st, n, 1, c) /\ 1 \in Nat
    BY <1>2, <1>4
  <1>6. c \in DOMAIN ts /\ ts[c].state \in Suspended
    BY <1>1, <1>2, <1>5 DEF WaysOK
  <1>7. \A t : \A b \in Nat : Way(out, rt, n, b, t) =>
          (b = 0 /\ Way(out, st, n, 0, t)) \/ (b # 0 /\ b + 1 # 1 /\ b + 1 \in Nat /\ Way(out, st, n, b + 1, t))
    BY <1>2, <1>4
  <1>8. \A t : \A b \in Nat : Way(out, st, n, b, t) /\ t # c =>
          (b = 0 /\ Way(out, rt, n, 0, t)) \/ (b - 1 \in Nat /\ Way(out, rt, n, b - 1, t))
    <2> SUFFICES ASSUME NEW t, NEW b \in Nat, Way(out, st, n, b, t), t # c
                 PROVE  (b = 0 /\ Way(out, rt, n, 0, t)) \/ (b - 1 \in Nat /\ Way(out, rt, n, b - 1, t))
      OBVIOUS
    <2>1. CASE b \in DOMAIN q /\ q[b] = t
      <3>1. b # 1
        BY <1>2, <2>1
      <3>2. b - 1 \in DOMAIN p /\ p[b - 1] = t /\ b \in Nat \ {0}
        BY <1>2, <2>1, <3>1
      <3>3. b - 1 \in Nat
        BY <3>2
      <3> QED BY <1>4, <3>2, <3>3
    <2>2. CASE b = 0 /\ st[n].from = t
      BY <1>4, <2>2
    <2> QED BY <1>4, <2>1, <2>2
  <1>9. NoWay(out, rt, c)
    <2> SUFFICES ASSUME NEW a \in Nat, NEW b \in Nat, Way(out, rt, a, b, c) PROVE FALSE
      BY DEF NoWay
    <2>1. CASE a # n
      <3>1. Way(out, st, a, b, c)
        BY <1>3, <2>1
      <3> QED BY <1>1, <1>2, <1>5, <2>1, <3>1 DEF WaysOK
    <2>2. CASE a = n
      <3>1. (b = 0 /\ Way(out, st, n, 0, c)) \/ (b + 1 # 1 /\ b + 1 \in Nat /\ Way(out, st, n, b + 1, c))
        BY <1>7, <2>2
      <3>2. 0 \in Nat /\ 0 # 1
        OBVIOUS
      <3> QED BY <1>1, <1>2, <1>5, <3>1, <3>2 DEF WaysOK
    <2> QED BY <2>1, <2>2
  <1>10. WaysOK(ts, out, rt, c)
    <2> SUFFICES ASSUME NEW t \in Ids
                 PROVE  /\ \A a, b, x, y \in Nat : Way(out, rt, a, b, t) /\ Way(out, rt, x, y, t)
                                                   => a = x /\ b = y
                        /\ (\E a, b \in Nat : Way(out, rt, a, b, t))
                             => t \in DOMAIN ts /\ ts[t].state \in Suspended
                        /\ t \in DOMAIN ts /\ ts[t].state = "asked" /\ t # c =>
                             \E a, b \in Nat : Way(out, rt, a, b, t)
      BY DEF WaysOK
    <2>1. ASSUME NEW a \in Nat, NEW b \in Nat, Way(out, rt, a, b, t)
          PROVE  \E e \in Nat : /\ Way(out, st, a, e, t)
                                /\ a # n => e = b
                                /\ a = n => (b = 0 /\ e = 0) \/ (b # 0 /\ e = b + 1)
      <3>1. CASE a # n
        BY <1>3, <2>1, <3>1
      <3>2. CASE a = n
        <4>1. (b = 0 /\ Way(out, st, n, 0, t)) \/ (b # 0 /\ b + 1 \in Nat /\ Way(out, st, n, b + 1, t))
          BY <1>7, <2>1, <3>2
        <4> QED BY <3>2, <4>1
      <3> QED BY <3>1, <3>2
    <2>2. ASSUME NEW a \in Nat, NEW b \in Nat, NEW x \in Nat, NEW y \in Nat,
                 Way(out, rt, a, b, t), Way(out, rt, x, y, t)
          PROVE  a = x /\ b = y
      <3>1. PICK e \in Nat : /\ Way(out, st, a, e, t)
                             /\ a # n => e = b
                             /\ a = n => (b = 0 /\ e = 0) \/ (b # 0 /\ e = b + 1)
        BY <2>1, <2>2
      <3>2. PICK f \in Nat : /\ Way(out, st, x, f, t)
                             /\ x # n => f = y
                             /\ x = n => (y = 0 /\ f = 0) \/ (y # 0 /\ f = y + 1)
        BY <2>1, <2>2
      <3>3. a = x /\ e = f
        BY <3>1, <3>2 DEF WaysOK
      <3> QED BY <3>1, <3>2, <3>3
    <2>3. ASSUME NEW a \in Nat, NEW b \in Nat, Way(out, rt, a, b, t)
          PROVE  t \in DOMAIN ts /\ ts[t].state \in Suspended
      BY <2>1, <2>3 DEF WaysOK
    <2>4. ASSUME t \in DOMAIN ts, ts[t].state = "asked", t # c
          PROVE  \E a, b \in Nat : Way(out, rt, a, b, t)
      <3>1. PICK a \in Nat, b \in Nat : Way(out, st, a, b, t)
        BY <2>4, AwaitNames DEF WaysOK
      <3>2. CASE a # n
        BY <1>3, <3>1, <3>2
      <3>3. CASE a = n
        <4>1. (b = 0 /\ Way(out, rt, n, 0, t)) \/ (b - 1 \in Nat /\ Way(out, rt, n, b - 1, t))
          BY <1>8, <2>4, <3>1, <3>3
        <4> QED BY <1>1, <4>1
      <3> QED BY <3>2, <3>3
    <2> QED BY <2>2, <2>3, <2>4
  <1> QED BY <1>2, <1>6, <1>9, <1>10 DEF c

(* OUTBOUND becomes the calls that the top frame is to serve.              *)
LEMMA ServedWays ==
  ASSUME NEW ts, NEW us, NEW out, NEW st, WaysOK(ts, out, st, 0), Continues(ts, us),
         \A t \in DOMAIN ts : us[t].state = ts[t].state, DOMAIN us = DOMAIN ts,
         NEW n \in DOMAIN st, n \in Nat, n # 0, \A j \in DOMAIN out : j \in Nat \ {0},
         st[n].calls = << >>, 0 \notin DOMAIN st,
         NEW rt, DOMAIN rt = DOMAIN st, \A i \in DOMAIN st : i # n => rt[i] = st[i],
         rt[n].calls = out, rt[n].from = st[n].from
  PROVE  WaysOK(us, << >>, rt, 0)
  <1> DEFINE Was(a, b) == IF a = n /\ b # 0 THEN 0 ELSE a
  <1>1. \A t, a, b : a # n /\ a # 0 => (Way(<< >>, rt, a, b, t) <=> Way(out, st, a, b, t))
    <2> TAKE t, a, b
    <2> HAVE a # n /\ a # 0
    <2>1. (a \in DOMAIN st <=> a \in DOMAIN rt) /\ (a \in DOMAIN st => rt[a] = st[a])
      OBVIOUS
    <2> QED BY <2>1 DEF Way
  <1>2. \A t, b : Way(<< >>, rt, n, b, t) <=> (b = 0 /\ st[n].from = t) \/ (b \in DOMAIN out /\ out[b] = t)
    BY DEF Way
  <1>3. \A t, b : Way(out, st, n, b, t) <=> (b = 0 /\ st[n].from = t)
    <2>1. DOMAIN st[n].calls = {}
      OBVIOUS
    <2> QED BY <2>1 DEF Way
  <1>4. \A t, b : ~Way(<< >>, rt, 0, b, t) /\ (Way(out, st, 0, b, t) <=> b \in DOMAIN out /\ out[b] = t)
    BY DEF Way
  <1>5. \A t, b : /\ Way(<< >>, rt, n, b, t) => Way(out, st, IF b # 0 THEN 0 ELSE n, b, t)
                  /\ Way(out, st, 0, b, t) => b # 0 /\ Way(<< >>, rt, n, b, t)
    BY <1>2, <1>3, <1>4
  <1>6. \A t, a, b : Way(<< >>, rt, a, b, t) => Way(out, st, Was(a, b), b, t)
    BY <1>1, <1>4, <1>5
  <1>7. \A t, a, b : Way(out, st, a, b, t) => Way(<< >>, rt, IF a = 0 THEN n ELSE a, b, t)
    <2> TAKE t, a, b
    <2>1. a = n => (Way(out, st, a, b, t) => Way(<< >>, rt, a, b, t))
      BY <1>2, <1>3
    <2> QED BY <1>1, <1>5, <2>1
  <1>8. \A a, b \in Nat : Was(a, b) \in Nat /\ (IF a = 0 THEN n ELSE a) \in Nat
    OBVIOUS
  <1>9. \A a, b, x : a # 0 /\ x # 0 /\ Was(a, b) = Was(x, b) => a = x
    OBVIOUS
  <1> HIDE DEF Was
  <1> SUFFICES ASSUME NEW t \in Ids
               PROVE  /\ \A a, b, x, y \in Nat : Way(<< >>, rt, a, b, t) /\ Way(<< >>, rt, x, y, t)
                                                 => a = x /\ b = y
                      /\ (\E a, b \in Nat : Way(<< >>, rt, a, b, t))
                           => t \in DOMAIN us /\ us[t].state \in Suspended
                      /\ t \in DOMAIN us /\ us[t].state = "asked" /\ t # 0 =>
                           \E a, b \in Nat : Way(<< >>, rt, a, b, t)
    BY DEF WaysOK
  <1>10. ASSUME NEW a \in Nat, NEW b \in Nat, NEW x \in Nat, NEW y \in Nat,
                Way(<< >>, rt, a, b, t), Way(<< >>, rt, x, y, t)
         PROVE  a = x /\ b = y
    <2>1. Way(out, st, Was(a, b), b, t) /\ Way(out, st, Was(x, y), y, t)
      BY <1>6, <1>10
    <2>2. b = y /\ Was(a, b) = Was(x, b)
      BY <1>8, <2>1 DEF WaysOK
    <2>3. a # 0 /\ x # 0
      BY <1>4, <1>10
    <2> QED BY <1>9, <2>2, <2>3
  <1>11. ASSUME NEW a \in Nat, NEW b \in Nat, Way(<< >>, rt, a, b, t)
         PROVE  t \in DOMAIN us /\ us[t].state \in Suspended
    <2>1. \E d \in Nat : Way(out, st, d, b, t)
      BY <1>6, <1>8, <1>11
    <2>2. t \in DOMAIN ts /\ ts[t].state \in Suspended
      BY <2>1 DEF WaysOK
    <2> QED BY <2>2
  <1>12. ASSUME t \in DOMAIN us, us[t].state = "asked", t # 0
         PROVE  \E a, b \in Nat : Way(<< >>, rt, a, b, t)
    <2>1. PICK a \in Nat, b \in Nat : Way(out, st, a, b, t)
      BY <1>12 DEF WaysOK
    <2> QED BY <1>7, <1>8, <2>1
  <1> QED BY <1>10, <1>11, <1>12

(* Frames that serve the same calls, and are to.                           *)
LEMMA SameWays ==
  ASSUME NEW out, NEW st, NEW rt, DOMAIN rt = DOMAIN st,
         \A i \in DOMAIN st : rt[i].from = st[i].from /\ rt[i].calls = st[i].calls
  PROVE  \A a, b, t : Way(out, rt, a, b, t) <=> Way(out, st, a, b, t)
  BY DEF Way

LEMMA SetWays ==
  ASSUME NEW ts, NEW us, NEW out, NEW st, NEW rt, WaysOK(ts, out, st, 0), Continues(ts, us),
         DOMAIN rt = DOMAIN st,
         \A i \in DOMAIN st : rt[i].from = st[i].from /\ rt[i].calls = st[i].calls,
         \A t \in DOMAIN ts : ts[t].state \in Suspended => us[t].state \in Suspended,
         \A t \in DOMAIN us : us[t].state = "asked" => t \in DOMAIN ts /\ ts[t].state = "asked"
  PROVE  WaysOK(us, out, rt, 0)
  <1>1. \A a, b, t : Way(out, rt, a, b, t) <=> Way(out, st, a, b, t)
    BY SameWays
  <1>2. \A t \in DOMAIN us : us[t].state = "asked" /\ t # 0 =>
           /\ t # 0 /\ t \in DOMAIN ts /\ ts[t].state = "asked"
           /\ \A a, b \in Nat : Way(out, st, a, b, t) => Way(out, rt, a, b, t)
    BY <1>1
  <1> QED BY <1>1, <1>2, WaysStay

(* A task that has no call on its way sends one.                           *)
LEMMA AskWays ==
  ASSUME NEW ts, NEW us, NEW out \in Seq(Ids), NEW st, WaysOK(ts, out, st, 0), Continues(ts, us),
         NEW c \in Ids, c \in DOMAIN ts, ts[c].state = "running", us[c].state = "asked",
         \A t \in DOMAIN ts : t # c => us[t] = ts[t], DOMAIN us = DOMAIN ts,
         NEW oot, oot = Append(out, c), 0 \notin DOMAIN st
  PROVE  WaysOK(us, oot, st, 0)
  <1> DEFINE n == Len(oot)
  <1>1. /\ \A j : j \in DOMAIN oot <=> j \in DOMAIN out \/ j = n
        /\ \A j \in DOMAIN out : oot[j] = out[j]
        /\ oot[n] = c /\ n \notin DOMAIN out /\ n \in Nat
    BY PushedSeq
  <1> HIDE DEF n
  <1>2. \A t, a, b : Way(oot, st, a, b, t) <=> Way(out, st, a, b, t) \/ (t = c /\ a = 0 /\ b = n)
    BY <1>1 DEF Way
  <1>3. \A a, b \in Nat : ~Way(out, st, a, b, c)
    BY DEF WaysOK, Suspended
  <1> SUFFICES ASSUME NEW t \in Ids
               PROVE  /\ \A a, b, x, y \in Nat : Way(oot, st, a, b, t) /\ Way(oot, st, x, y, t)
                                                 => a = x /\ b = y
                      /\ (\E a, b \in Nat : Way(oot, st, a, b, t))
                           => t \in DOMAIN us /\ us[t].state \in Suspended
                      /\ t \in DOMAIN us /\ us[t].state = "asked" /\ t # 0 =>
                           \E a, b \in Nat : Way(oot, st, a, b, t)
    BY DEF WaysOK
  <1>4. CASE t = c
    <2>1. \A a, b \in Nat : Way(oot, st, a, b, t) <=> (a = 0 /\ b = n)
      BY <1>2, <1>3, <1>4
    <2>2. 0 \in Nat /\ n \in Nat
      BY <1>1
    <2>3. t \in DOMAIN us /\ us[t].state \in Suspended
      BY <1>4 DEF Suspended
    <2> QED BY <2>1, <2>2, <2>3
  <1>5. CASE t # c
    <2>1. \A a, b \in Nat : Way(oot, st, a, b, t) <=> Way(out, st, a, b, t)
      BY <1>2, <1>5
    <2>2. (\E a, b \in Nat : Way(oot, st, a, b, t)) => t \in DOMAIN us /\ us[t].state \in Suspended
      BY <1>5, <2>1 DEF WaysOK, Continues
    <2>3. t \in DOMAIN us /\ us[t].state = "asked" => \E a, b \in Nat : Way(oot, st, a, b, t)
      BY <1>5, <2>1, AwaitNames DEF WaysOK
    <2>4. \A a, b, x, y \in Nat : Way(oot, st, a, b, t) /\ Way(oot, st, x, y, t) => a = x /\ b = y
      BY <2>1 DEF WaysOK
    <2> QED BY <2>2, <2>3, <2>4
  <1> QED BY <1>4, <1>5

----------------------------------------------------------------------------
(* Drives                                                                  *)

LEMMA StartDrives ==
  ASSUME NEW ts, NEW us, NEW st, NEW rt, DrivesOK(ts, st), Continues(ts, us),
         DOMAIN us = DOMAIN ts, NEW t \in DOMAIN ts, \A u \in DOMAIN ts : u # t => us[u] = ts[u],
         ts[t].place # "driven", us[t].place = "driven",
         NEW n \in DOMAIN st, n = Len(st), st[n].own = {t}, st[n].at # "driving",
         DOMAIN rt = DOMAIN st, Len(rt) = Len(st), \A i \in DOMAIN st : i # n => rt[i] = st[i],
         rt[n].own = {t}, rt[n].at = "driving"
  PROVE  DrivesOK(us, rt)
  <1>1. \A i, u : Drives(rt, i, u) <=> Drives(st, i, u) \/ (i = n /\ u = t)
    BY DEF Drives
  <1>2. \A i : ~Drives(st, i, t) /\ ~Drives(st, n, i)
    BY DEF Drives, DrivesOK
  <1>3. \A u \in DOMAIN us : us[u].place = "driven" <=> \E i \in DOMAIN rt : Drives(rt, i, u)
    BY <1>1 DEF DrivesOK
  <1>4. \A i, j \in DOMAIN rt : \A u \in DOMAIN us : Drives(rt, i, u) /\ Drives(rt, j, u) => i = j
    BY <1>1, <1>2 DEF DrivesOK
  <1>5. \A i \in DOMAIN rt : \A u \in DOMAIN us :
          Drives(rt, i, u) /\ us[u].kind = "spawned" => i = Len(rt)
    BY <1>1 DEF DrivesOK, Continues
  <1>6. \A i \in DOMAIN st : rt[i].own = st[i].own
    OBVIOUS
  <1>7. \A i, j \in DOMAIN rt : \A u \in DOMAIN us :
          us[u].kind = "local" /\ u \in rt[i].own /\ u \in rt[j].own => i = j
    BY <1>6 DEF DrivesOK, Continues
  <1> QED BY <1>3, <1>4, <1>5, <1>7 DEF DrivesOK

LEMMA EndDrives ==
  ASSUME NEW ts, NEW us, NEW st, NEW rt, DrivesOK(ts, st), Continues(ts, us),
         DOMAIN us = DOMAIN ts, NEW t \in DOMAIN ts, \A u \in DOMAIN ts : u # t => us[u] = ts[u],
         us[t].place # "driven",
         NEW n \in DOMAIN st, st[n].own = {t}, st[n].at = "driving",
         DOMAIN rt = DOMAIN st, Len(rt) = Len(st), \A i \in DOMAIN st : i # n => rt[i] = st[i],
         rt[n].own = {t}, rt[n].at # "driving"
  PROVE  DrivesOK(us, rt)
  <1>1. \A i, u : Drives(rt, i, u) <=> Drives(st, i, u) /\ i # n
    BY DEF Drives
  <1>2. Drives(st, n, t) /\ \A i \in DOMAIN st : Drives(st, i, t) => i = n
    BY DEF Drives, DrivesOK
  <1>0. \A u : Drives(st, n, u) => u = t
    BY DEF Drives
  <1>3. \A u \in DOMAIN us : us[u].place = "driven" <=> \E i \in DOMAIN rt : Drives(rt, i, u)
    <2> TAKE u \in DOMAIN us
    <2>1. CASE u = t
      BY <1>1, <1>2, <2>1
    <2>2. CASE u # t
      BY <1>0, <1>1, <2>2 DEF DrivesOK
    <2> QED BY <2>1, <2>2
  <1>4. \A i, j \in DOMAIN rt : \A u \in DOMAIN us : Drives(rt, i, u) /\ Drives(rt, j, u) => i = j
    BY <1>1 DEF DrivesOK
  <1>5. \A i \in DOMAIN rt : \A u \in DOMAIN us :
          Drives(rt, i, u) /\ us[u].kind = "spawned" => i = Len(rt)
    BY <1>1 DEF DrivesOK, Continues
  <1>6. \A i \in DOMAIN st : rt[i].own = st[i].own
    OBVIOUS
  <1>7. \A i, j \in DOMAIN rt : \A u \in DOMAIN us :
          us[u].kind = "local" /\ u \in rt[i].own /\ u \in rt[j].own => i = j
    BY <1>6 DEF DrivesOK, Continues
  <1> QED BY <1>3, <1>4, <1>5, <1>7 DEF DrivesOK

LEMMA StopsStay ==
  ASSUME NEW ts, NEW us, NEW ab, StopsOK(ts, ab), Continues(ts, us), ab \subseteq DOMAIN ts,
         \A t \in DOMAIN ts : ts[t].state \in {"over", "cancelled"} =>
                                us[t].state \in {"over", "cancelled"}
  PROVE  StopsOK(us, ab)
  BY DEF StopsOK, Continues

----------------------------------------------------------------------------
(* Steps                                                                   *)

LEMMA FuturesInit == ASSUME AwaitsInit PROVE FuturesInv
  <1>1. DOMAIN tasks = {} /\ DOMAIN stack = {} /\ DOMAIN outbound = {}
    BY DEF AwaitsInit
  <1>2. TasksOK(tasks) /\ FramesOK(tasks, stack)
    BY <1>1, AwaitNames DEF AwaitsInit, TasksOK, FramesOK
  <1>3. ScalarsOK
    BY <1>1, AwaitNames DEF AwaitsInit, ScalarsOK
  <1>4. DrivesOK(tasks, stack) /\ StopsOK(tasks, abandoned)
    BY <1>1 DEF AwaitsInit, DrivesOK, StopsOK
  <1>5. WaysOK(tasks, outbound, stack, 0)
    BY <1>1 DEF WaysOK, Way
  <1> QED BY <1>2, <1>3, <1>4, <1>5 DEF FuturesInv

(* The task that made the call goes on, if it was not cancelled.           *)
LEMMA ResumedIs ==
  ASSUME NEW ts, TasksOK(ts), NEW c \in DOMAIN ts \cup {0}
  PROVE  LET us == Resumed(ts, c)
         IN  /\ TasksOK(us) /\ Continues(ts, us) /\ SamePlaces(ts, us)
             /\ DOMAIN us = DOMAIN ts /\ Len(us) = Len(ts)
             /\ \A t \in DOMAIN ts : \/ us[t] = ts[t]
                                     \/ ts[t].state \in {"calling", "asked"} /\ us[t].state = "running"
             /\ \A t \in DOMAIN ts : t # c => us[t] = ts[t]
  <1> DEFINE us == Resumed(ts, c)
  <1>1. CASE c # 0 /\ ts[c].state \in {"calling", "asked"}
    <2>1. c \in DOMAIN ts /\ us = SetState(ts, c, "running")
      BY <1>1 DEF Resumed, SetState
    <2> HIDE DEF us
    <2>2. KindOK(ts[c])
      BY <2>1, TasksAre
    <2>3. ts[c].kind \in RustKinds =>
            (ts[c].kind \in {"local", "spawned"} /\ ts[c].place = "none"
               => "running" \in {"over", "cancelled"})
      BY <1>1, <2>2 DEF KindOK
    <2>4. TasksOK(us) /\ Continues(ts, us) /\ OnlyAt(ts, us, c, "running", ts[c].place)
      BY <2>1, <2>3, StateChanges
    <2>5. SamePlaces(ts, us)
      BY <2>4 DEF SamePlaces, OnlyAt
    <2>6. \A t \in DOMAIN ts : \/ us[t] = ts[t]
                               \/ ts[t].state \in {"calling", "asked"} /\ us[t].state = "running"
      BY <1>1, <2>4 DEF OnlyAt
    <2> QED BY <2>4, <2>5, <2>6 DEF us, OnlyAt
  <1>2. CASE ~(c # 0 /\ ts[c].state \in {"calling", "asked"})
    <2>1. us = ts
      BY <1>2 DEF Resumed
    <2>2. Continues(ts, ts) /\ SamePlaces(ts, ts)
      BY DEF Continues, SamePlaces
    <2> QED BY <2>1, <2>2
  <1> QED BY <1>1, <1>2

(* An op begins: it awaits a new task, or a future that there is.          *)
NewFrame(f, t, from) ==
  /\ f \in Frame /\ f.own = {t} /\ f.at \in {"starting", "checking"}
  /\ f.calls = << >> /\ f.from = from /\ f.next = "checking"
Adds(ts, us, t) ==
  \E k \in Task : /\ us = Append(ts, k) /\ t = Len(ts) + 1 /\ t \in Ids
                  /\ KindOK(k) /\ k.place # "driven" /\ k.state = "running"
Finds(ts, us, t) ==
  us = ts /\ t \in DOMAIN ts /\ ts[t].kind \in {"background", "spawned", "blocking"}

LEMMA AddsIs ==
  ASSUME NEW ts, TasksOK(ts), NEW us, NEW t, Adds(ts, us, t)
  PROVE  /\ TasksOK(us) /\ Continues(ts, us) /\ SamePlaces(ts, us) /\ Len(us) = Len(ts) + 1
         /\ DOMAIN us = DOMAIN ts \cup {t} /\ t \notin DOMAIN ts /\ t \in Ids
         /\ \A u \in DOMAIN ts : us[u] = ts[u]
         /\ us[t].state = "running" /\ us[t].place # "driven" /\ us[t] \in Task /\ KindOK(us[t])
  <1>1. PICK k \in Task : /\ us = Append(ts, k) /\ t = Len(ts) + 1 /\ t \in Ids
                          /\ KindOK(k) /\ k.place # "driven" /\ k.state = "running"
    BY DEF Adds
  <1>2. ts \in Seq(Task)
    BY DEF TasksOK
  <1>3. /\ us \in Seq(Task) /\ Len(us) = t /\ t \notin DOMAIN ts /\ us[t] = k
        /\ \A u : u \in DOMAIN us <=> u \in DOMAIN ts \/ u = t
        /\ \A u \in DOMAIN ts : us[u] = ts[u]
    BY <1>1, <1>2, PushedSeq
  <1>4. t <= MaxTasks
    BY <1>1, AwaitNames
  <1>5. DOMAIN us = DOMAIN ts \cup {t}
    BY <1>3
  <1>6. TasksOK(us)
    BY <1>1, <1>3, <1>4 DEF TasksOK
  <1>7. Continues(ts, us) /\ SamePlaces(ts, us)
    BY <1>1, <1>3 DEF Continues, SamePlaces
  <1> QED BY <1>1, <1>3, <1>5, <1>6, <1>7

LEMMA FindsIs ==
  ASSUME NEW ts, TasksOK(ts), NEW us, NEW t, Finds(ts, us, t)
  PROVE  us = ts /\ Continues(ts, us) /\ SamePlaces(ts, us) /\ t \in DOMAIN ts /\ us[t].kind # "local"
  BY DEF Finds, Continues, SamePlaces

LEMMA BegunKeeps ==
  ASSUME NEW ts, NEW out, NEW st, NEW c \in DOMAIN ts \cup {0}, NEW ab,
         TasksOK(ts), FramesOK(ts, st), DrivesOK(ts, st), StopsOK(ts, ab), ab \subseteq DOMAIN ts,
         WaysOK(ts, out, st, c), c # 0 => NoWay(out, st, c) /\ ts[c].state \in Suspended,
         Len(st) < MaxDepth,
         \A i \in DOMAIN st : \A t \in DOMAIN ts : Drives(st, i, t) => ts[t].kind # "spawned",
         NEW f, NEW t, NewFrame(f, t, c), NEW us, Adds(ts, us, t) \/ Finds(ts, us, t),
         f.at = "starting" => us[t].kind = "parallel",
         NEW rt, rt = Append(st, f)
  PROVE  /\ TasksOK(us) /\ FramesOK(us, rt) /\ DrivesOK(us, rt) /\ StopsOK(us, ab)
         /\ WaysOK(us, out, rt, 0) /\ Continues(ts, us)
  <1>1. /\ TasksOK(us) /\ Continues(ts, us) /\ SamePlaces(ts, us) /\ t \in DOMAIN us
        /\ \A u \in DOMAIN ts : us[u] = ts[u]
        /\ \A u \in DOMAIN us : u \notin DOMAIN ts => us[u].state = "running"
        /\ t \in DOMAIN ts => us[t].kind # "local"
    <2>1. CASE Adds(ts, us, t)
      <3>1. /\ TasksOK(us) /\ Continues(ts, us) /\ SamePlaces(ts, us)
            /\ DOMAIN us = DOMAIN ts \cup {t} /\ t \notin DOMAIN ts
            /\ \A u \in DOMAIN ts : us[u] = ts[u]
            /\ us[t].state = "running"
        BY <2>1, AddsIs
      <3> QED BY <3>1
    <2>2. CASE Finds(ts, us, t)
      <3>1. us = ts /\ Continues(ts, us) /\ SamePlaces(ts, us) /\ t \in DOMAIN ts /\ us[t].kind # "local"
        BY <2>2, FindsIs
      <3> QED BY <3>1
    <2> QED BY <2>1, <2>2
  <1>2. FrameOK(us, f)
    <2>1. f.own = {t} /\ t \in DOMAIN us /\ f.from \in DOMAIN us \cup {0}
      BY <1>1 DEF NewFrame, Continues
    <2>2. (\E u \in f.own : us[u].kind \in RustKinds) => RustFrame(us, f)
      BY <2>1 DEF RustFrame
    <2> QED BY <2>1, <2>2 DEF NewFrame, FrameOK
  <1> DEFINE n == Len(rt)
  <1>3. /\ FramesOK(us, rt) /\ n \in Nat \ {0} /\ n \notin DOMAIN st
        /\ \A i : i \in DOMAIN rt <=> i \in DOMAIN st \/ i = n
        /\ \A i \in DOMAIN st : rt[i] = st[i]
        /\ rt[n] = f
    <2>1. f \in Frame /\ Continues(ts, us)
      BY <1>1 DEF NewFrame
    <2> HIDE DEF n
    <2>2. FramesOK(us, rt)
      BY <1>2, <2>1, PushFrame
    <2>3. st \in Seq(Frame)
      BY DEF FramesOK
    <2> QED BY <2>1, <2>2, <2>3, PushedSeq DEF n
  <1> HIDE DEF n
  <1>4. DrivesOK(us, rt)
    <2>1. f.at # "driving" /\ f.own = {t}
      BY DEF NewFrame
    <2>2. Quiet(st, rt)
      BY <1>3, <2>1 DEF Quiet
    <2>3. \A i \in DOMAIN st : st[i].own \subseteq DOMAIN ts
      BY FramesAre
    <2>4. \A i \in DOMAIN st : \A u \in DOMAIN ts :
            Drives(st, i, u) /\ ts[u].kind = "spawned" => i = Len(rt)
      OBVIOUS
    <2>5. \A i, j \in DOMAIN rt : \A u \in DOMAIN us :
            us[u].kind = "local" /\ u \in rt[i].own /\ u \in rt[j].own => i = j
      <3> SUFFICES ASSUME NEW i \in DOMAIN rt, NEW j \in DOMAIN rt, NEW u \in DOMAIN us,
                          us[u].kind = "local", u \in rt[i].own, u \in rt[j].own
                   PROVE  i = j
        OBVIOUS
      <3>1. CASE u \in DOMAIN ts
        <4>1. i # n /\ j # n
          BY <1>1, <1>3, <2>1, <3>1
        <4>2. i \in DOMAIN st /\ j \in DOMAIN st /\ u \in st[i].own /\ u \in st[j].own
          BY <1>3, <4>1
        <4> QED BY <1>1, <3>1, <4>2 DEF DrivesOK
      <3>2. CASE u \notin DOMAIN ts
        BY <1>3, <2>3, <3>2
      <3> QED BY <3>1, <3>2
    <2> QED BY <1>1, <2>2, <2>3, <2>4, <2>5, QuietDrives
  <1>5. WaysOK(us, out, rt, 0)
    <2>1. rt[n].from = c /\ rt[n].calls = << >>
      BY <1>3 DEF NewFrame
    <2>2. c \in Ids \cup {0} /\ (c # 0 => c \in DOMAIN ts /\ NoWay(out, st, c))
      BY TasksAre
    <2>3. c \in DOMAIN ts => us[c].state \in Suspended
      BY <1>1, <2>2, TasksAre, AwaitNames
    <2>4. \A u \in DOMAIN us : us[u].state = "asked" => u \in DOMAIN ts /\ ts[u].state = "asked"
      BY <1>1
    <2>5. \A u \in DOMAIN ts : ts[u].state \in Suspended => us[u].state \in Suspended
      BY <1>1
    <2>6. Serving(st, rt, n, c)
      BY <1>3, <2>1 DEF Serving
    <2>7. Continues(ts, us)
      BY <1>1
    <2>8. WaysOK(ts, out, st, c) /\ c \in Ids \cup {0} /\ (c \in DOMAIN ts => us[c].state \in Suspended)
      BY <2>2, <2>3
    <2> QED BY <2>2, <2>4, <2>5, <2>6, <2>7, <2>8, PushWays
  <1>6. StopsOK(us, ab)
    BY <1>1, StopsStay
  <1> QED BY <1>1, <1>3, <1>4, <1>5, <1>6

(* The variables of a task of an event loop.                               *)
LoopTask(k) ==
  /\ k.rt \in Loops /\ k.state = "running" /\ k.place = "none" /\ k.bind \in BOOLEAN
  /\ \/ k.kind = "async" /\ k.idx = 0 /\ ~k.bind
     \/ k.kind = "ref" /\ k.idx \in Nat \ {0}
     \/ k.kind = "parallel" /\ k.idx \in Nat /\ ~k.bind
Resets(k) ==
  /\ flags' = flags \ {<<k.rt, k.kind, k.idx>>}
  /\ results' = IF k.kind = "ref" THEN results
                ELSE [results EXCEPT ![<<k.rt, k.kind, k.idx>>] = 0]

LEMMA ResetsKeep ==
  ASSUME ScalarsOK, NEW k, Resets(k)
  PROVE  flags' \subseteq Variables /\ results' \in [Variables -> 0..MaxTasks]
  <1>1. 0 \in 0..MaxTasks
    BY AwaitNames
  <1> QED BY <1>1 DEF ScalarsOK, Resets

(* The executor of the manifest numbers its references.                    *)
Numbered(k) ==
  /\ k.kind = "ref" => k.by = manifest /\ k.idx = nextRuntimeRefID[manifest] + 1
  /\ nextRuntimeRefID' = IF k.kind = "ref" THEN [nextRuntimeRefID EXCEPT ![manifest] = @ + 1]
                                           ELSE nextRuntimeRefID

LEMMA NumbersGrow ==
  ASSUME ScalarsOK, Len(tasks) \in Nat, NEW k, Numbered(k)
  PROVE  /\ manifest \in Manifests /\ nextRuntimeRefID' \in [Manifests -> 0..(Len(tasks) + 1)]
         /\ \A m \in Manifests : /\ nextRuntimeRefID[m] \in Nat /\ nextRuntimeRefID'[m] \in Nat
                                 /\ nextRuntimeRefID[m] <= nextRuntimeRefID'[m]
         /\ k.kind = "ref" => /\ k.by = manifest /\ k.idx = nextRuntimeRefID'[manifest]
                              /\ nextRuntimeRefID[manifest] < nextRuntimeRefID'[manifest]
  <1>1. manifest \in Manifests /\ nextRuntimeRefID \in [Manifests -> 0..Len(tasks)]
    BY DEF ScalarsOK
  <1>2. \A m \in Manifests : /\ nextRuntimeRefID[m] \in Nat /\ nextRuntimeRefID[m] <= Len(tasks)
                            /\ nextRuntimeRefID[m] \in 0..(Len(tasks) + 1)
                            /\ nextRuntimeRefID[m] + 1 \in 0..(Len(tasks) + 1)
    BY <1>1
  <1>3. CASE k.kind = "ref"
    <2>1. nextRuntimeRefID' = [nextRuntimeRefID EXCEPT ![manifest] = nextRuntimeRefID[manifest] + 1]
      BY <1>3 DEF Numbered
    <2>2. \A m \in Manifests :
            nextRuntimeRefID'[m] = IF m = manifest THEN nextRuntimeRefID[manifest] + 1
                                                   ELSE nextRuntimeRefID[m]
      BY <1>1, <2>1
    <2>3. nextRuntimeRefID' \in [Manifests -> 0..(Len(tasks) + 1)]
      BY <1>1, <1>2, <2>1
    <2> QED BY <1>1, <1>2, <1>3, <2>2, <2>3 DEF Numbered
  <1>4. CASE k.kind # "ref"
    <2>1. nextRuntimeRefID' = nextRuntimeRefID
      BY <1>4 DEF Numbered
    <2>2. nextRuntimeRefID \in [Manifests -> 0..(Len(tasks) + 1)]
      BY <1>1, <1>2
    <2> QED BY <1>1, <1>2, <1>4, <2>1, <2>2
  <1> QED BY <1>3, <1>4

LEMMA NumbersStay ==
  ASSUME ScalarsOK, Len(tasks) \in Nat, NEW n \in Nat, Len(tasks) <= n
  PROVE  nextRuntimeRefID \in [Manifests -> 0..n]
  <1>1. nextRuntimeRefID \in [Manifests -> 0..Len(tasks)] /\ 0..Len(tasks) \subseteq 0..n
    BY DEF ScalarsOK
  <1> QED BY <1>1

(* What the begin of an op changes.                                        *)
NewTaskIs(ts, us, t) ==
  /\ Adds(ts, us, t)
  /\ \/ us[t].kind \in RustKinds /\ UNCHANGED <<flags, results, nextRuntimeRefID>>
     \/ LoopTask(us[t]) /\ Resets(us[t]) /\ Numbered(us[t])
Enters(ts, below, from, t, f) ==
  /\ NewFrame(f, t, from) /\ stack' = Append(below, f)
  /\ \/ Finds(ts, tasks', t) /\ UNCHANGED <<flags, results, nextRuntimeRefID>>
     \/ NewTaskIs(ts, tasks', t)
  /\ f.at = "starting" => /\ Adds(ts, tasks', t) /\ tasks'[t].kind = "parallel" 
                          /\ tasks'[t].idx = 0

LEMMA AwaitIs ==
  ASSUME NEW t \in Ids, NEW at \in {"starting", "checking"}, NEW from \in 0..MaxTasks,
         NEW inside \in BOOLEAN
  PROVE  NewFrame(Await({t}, at, from, inside), t, from) /\ Await({t}, at, from, inside).at = at
  BY DEF Await, NewFrame, Frame

LEMMA StartedIs ==
  ASSUME TasksOK(tasks), NEW ts, TasksOK(ts), Len(ts) = Len(tasks), NEW k, k \in Task,
         LoopTask(k), NextId \in Ids, tasks' = Append(ts, k), Resets(k), Numbered(k)
  PROVE  NewTaskIs(ts, tasks', NextId) /\ tasks'[NextId] = k
  <1>1. k.kind \notin RustKinds
    BY DEF LoopTask, RustKinds
  <1>2. k.bind => k.kind = "ref"
    BY DEF LoopTask
  <1>3. KindOK(k) /\ k.place # "driven"
    BY <1>1, <1>2 DEF KindOK, LoopTask
  <1>4. NextId = Len(ts) + 1
    BY DEF NextId
  <1>5. Adds(ts, tasks', NextId)
    BY <1>3, <1>4 DEF Adds, LoopTask
  <1>6. tasks'[NextId] = k
    BY <1>4, PushedSeq DEF TasksOK
  <1> QED BY <1>5, <1>6 DEF NewTaskIs

LEMMA FutureIs ==
  ASSUME NEW kind, NEW place,
         <<kind, place>> \in {<<"local", "futures">>, <<"background", "locals">>,
                             <<"spawned", "spawned">>, <<"blocking", "spawned">>}
  PROVE  LET k == NewFuture(kind, place)
         IN  /\ k \in Task /\ k.kind \in RustKinds /\ k.kind = kind /\ k.place # "driven"
             /\ k.state = "running" /\ KindOK(k)
  <1> DEFINE k == NewFuture(kind, place)
  <1>1. /\ kind \in RustKinds /\ place \in PlacesOf(kind) /\ place \notin {"none", "driven"}
        /\ place \in {"none", "futures", "joins", "locals", "spawned", "driven"}
    BY DEF RustKinds, PlacesOf
  <1>2. k.kind = kind /\ k.place = place /\ k.state = "running" /\ k.rt = "rust" /\ k \in Task
    BY <1>1, AwaitNames DEF NewFuture, NewTask, Task
  <1> HIDE DEF k
  <1>3. KindOK(k)
    BY <1>1, <1>2 DEF KindOK
  <1> QED BY <1>1, <1>2, <1>3 DEF k

LEMMA BeginIs ==
  ASSUME ScalarsOK, TasksOK(tasks), NEW ts, TasksOK(ts), Len(ts) = Len(tasks), DOMAIN ts = Made,
         \A u \in Made : ts[u].kind = tasks[u].kind,
         NEW below, NEW from \in 0..MaxTasks, NEW inside \in BOOLEAN,
         Begin(ts, below, from, inside)
  PROVE  /\ \E t, f : Enters(ts, below, from, t, f)
         /\ Len(below) < MaxDepth /\ begun' \in 0..MaxBegun
  <1>1. Len(below) < MaxDepth /\ begun' \in 0..MaxBegun
    <2>1. Len(below) < MaxDepth /\ begun < MaxBegun /\ begun' = begun + 1
      BY DEF Begin
    <2>2. begun \in 0..MaxBegun
      BY DEF ScalarsOK
    <2> QED BY <2>1, <2>2, AwaitNames
  <1>2. 0 \in 0..MaxTasks
    BY AwaitNames
  <1>3. ASSUME BeginAsync(ts, below, from, inside) PROVE \E t, f : Enters(ts, below, from, t, f)
    <2>1. PICK rt \in Loops : StartLoopTask(ts, "async", rt, 0, FALSE)
      BY <1>3 DEF BeginAsync
    <2> DEFINE k == NewTask("async", rt, 0, FALSE, "none")
               f == Await({NextId}, "checking", from, inside)
    <2>2. k \in Task /\ LoopTask(k) /\ k.kind = "async" /\ k.kind # "ref"
      BY <1>2 DEF NewTask, Task, LoopTask
    <2>3. NextId \in Ids /\ tasks' = Append(ts, k) /\ Resets(k)
      BY <2>1 DEF StartLoopTask, Resets, NewTask
    <2>4. NewFrame(f, NextId, from) /\ f.at = "checking"
      BY <2>3, AwaitIs
    <2>5. stack' = Append(below, f) /\ nextRuntimeRefID' = nextRuntimeRefID
      BY <1>3 DEF BeginAsync
    <2>8. Numbered(k)
      BY <2>2, <2>5 DEF Numbered
    <2> HIDE DEF f, k
    <2>6. NewTaskIs(ts, tasks', NextId)
      BY <1>2, <2>2, <2>3, <2>8, StartedIs
    <2>7. Enters(ts, below, from, NextId, f)
      BY <2>4, <2>5, <2>6 DEF Enters
    <2> QED BY <2>7
  <1>4. ASSUME BeginRef(ts, below, from, inside) PROVE \E t, f : Enters(ts, below, from, t, f)
    <2> DEFINE n == nextRuntimeRefID[manifest] + 1
    <2>1. PICK rt \in Loops, bind \in BOOLEAN : StartLoopTask(ts, "ref", rt, n, bind)
      BY <1>4 DEF BeginRef
    <2> DEFINE k == NewTask("ref", rt, n, bind, "none")
               f == Await({NextId}, "checking", from, inside)
    <2>3. NextId \in Ids /\ tasks' = Append(ts, k) /\ Resets(k)
      BY <2>1 DEF StartLoopTask, Resets, NewTask
    <2>8. n \in 0..MaxTasks /\ n \in Nat \ {0} /\ manifest \in Manifests
      <3>1. /\ nextRuntimeRefID[manifest] \in Nat /\ nextRuntimeRefID[manifest] <= Len(tasks)
            /\ Len(tasks) \in Nat /\ manifest \in Manifests
        BY TasksAre DEF ScalarsOK
      <3>2. NextId <= MaxTasks /\ NextId = Len(tasks) + 1
        BY <2>3, AwaitNames DEF NextId
      <3> QED BY <3>1, <3>2, AwaitNames
    <2>4. NewFrame(f, NextId, from) /\ f.at = "checking"
      BY <2>3, AwaitIs
    <2>5. /\ stack' = Append(below, f)
          /\ nextRuntimeRefID' = [nextRuntimeRefID EXCEPT ![manifest] = @ + 1]
      BY <1>4 DEF BeginRef
    <2> HIDE DEF n
    <2>2. k \in Task /\ LoopTask(k) /\ k.kind = "ref" /\ k.idx = n /\ k.by = manifest
      BY <2>8 DEF NewTask, Task, LoopTask
    <2>9. Numbered(k)
      BY <2>2, <2>5 DEF Numbered, n
    <2> HIDE DEF f, k
    <2>6. NewTaskIs(ts, tasks', NextId)
      BY <2>2, <2>3, <2>9, StartedIs
    <2>7. Enters(ts, below, from, NextId, f)
      BY <2>4, <2>5, <2>6 DEF Enters
    <2> QED BY <2>7
  <1>5. ASSUME BeginParallel(ts, below, from, inside) PROVE \E t, f : Enters(ts, below, from, t, f)
    <2>1. PICK rt \in Loops : StartLoopTask(ts, "parallel", rt, 0, FALSE)
      BY <1>5 DEF BeginParallel
    <2> DEFINE k == NewTask("parallel", rt, 0, FALSE, "none")
               f == Await({NextId}, "starting", from, inside)
    <2>2. k \in Task /\ LoopTask(k) /\ k.kind = "parallel" /\ k.kind # "ref" /\ k.idx = 0
      BY <1>2 DEF NewTask, Task, LoopTask
    <2>3. NextId \in Ids /\ tasks' = Append(ts, k) /\ Resets(k)
      BY <2>1 DEF StartLoopTask, Resets, NewTask
    <2>4. NewFrame(f, NextId, from)
      BY <2>3, AwaitIs
    <2>5. stack' = Append(below, f) /\ nextRuntimeRefID' = nextRuntimeRefID
      BY <1>5 DEF BeginParallel
    <2>8. Numbered(k)
      BY <2>2, <2>5 DEF Numbered
    <2> HIDE DEF f, k
    <2>6. NewTaskIs(ts, tasks', NextId) /\ tasks'[NextId] = k
      BY <1>2, <2>2, <2>3, <2>8, StartedIs
    <2>7. Enters(ts, below, from, NextId, f)
      BY <2>2, <2>4, <2>5, <2>6 DEF Enters, NewTaskIs
    <2> QED BY <2>7
  <1>6. ASSUME BeginRust(ts, below, from, inside) PROVE \E t, f : Enters(ts, below, from, t, f)
    <2>1. PICK k \in {NewFuture("local", "futures"), NewFuture("spawned", "spawned")} :
            tasks' = Append(ts, k)
      BY <1>6 DEF BeginRust
    <2>2. k \in Task /\ k.kind \in RustKinds /\ k.place # "driven" /\ k.state = "running" /\ KindOK(k)
      BY FutureIs
    <2> DEFINE f == Await({NextId}, "checking", from, inside)
    <2>3. NextId \in Ids /\ NextId = Len(ts) + 1
      BY <1>6 DEF BeginRust, NextId
    <2>4. NewFrame(f, NextId, from) /\ f.at = "checking"
      BY <2>3, AwaitIs
    <2>5. stack' = Append(below, f) /\ UNCHANGED <<flags, results, nextRuntimeRefID>>
      BY <1>6 DEF BeginRust
    <2> HIDE DEF f
    <2>6. Adds(ts, tasks', NextId)
      BY <2>1, <2>2, <2>3 DEF Adds
    <2>7. tasks'[NextId] = k
      BY <2>1, <2>2, <2>3, PushedSeq DEF TasksOK
    <2>8. Enters(ts, below, from, NextId, f)
      BY <2>2, <2>4, <2>5, <2>6, <2>7 DEF Enters, NewTaskIs
    <2> QED BY <2>8
  <1>7. ASSUME BeginHandle(ts, below, from, inside) PROVE \E t, f : Enters(ts, below, from, t, f)
    <2>1. PICK t \in Made : /\ tasks[t].kind \in {"background", "spawned", "blocking"}
                            /\ stack' = Append(below, Await({t}, "checking", from, inside))
      BY <1>7 DEF BeginHandle
    <2> DEFINE f == Await({t}, "checking", from, inside)
    <2>2. t \in Ids
      BY TasksAre
    <2>3. NewFrame(f, t, from) /\ f.at = "checking" /\ stack' = Append(below, f)
      BY <2>1, <2>2, AwaitIs
    <2>4. Finds(ts, tasks', t) /\ UNCHANGED <<flags, results, nextRuntimeRefID>>
      BY <1>7, <2>1 DEF BeginHandle, Finds
    <2> HIDE DEF f
    <2>5. Enters(ts, below, from, t, f)
      BY <2>3, <2>4 DEF Enters
    <2> QED BY <2>5
  <1> QED BY <1>1, <1>3, <1>4, <1>5, <1>6, <1>7 DEF Begin

(* The scalars, when tasks come and go on.                                 *)
LEMMA ScalarsKeep ==
  ASSUME ScalarsOK, Continues(tasks, tasks'), UNCHANGED <<mode, manifest, outbound, abandoned, got>>,
         begun' \in 0..MaxBegun, flags' \subseteq Variables, results' \in [Variables -> 0..MaxTasks],
         nextRuntimeRefID' \in [Manifests -> 0..Len(tasks')]
  PROVE  ScalarsOK'
  BY DEF ScalarsOK, Made, Continues

LEMMA BeginKeeps ==
  ASSUME FuturesInv, NEW ts, NEW below, NEW c \in DOMAIN ts \cup {0}, NEW inside \in BOOLEAN,
         Continues(tasks, ts), DOMAIN ts = Made, Len(ts) = Len(tasks), TasksOK(ts),
         FramesOK(ts, below), DrivesOK(ts, below), StopsOK(ts, abandoned),
         WaysOK(ts, outbound, below, c),
         c # 0 => NoWay(outbound, below, c) /\ ts[c].state \in Suspended,
         \A i \in DOMAIN below : \A t \in DOMAIN ts : Drives(below, i, t) => ts[t].kind # "spawned",
         Begin(ts, below, c, inside), UNCHANGED <<mode, manifest, outbound, abandoned, got>>
  PROVE  FuturesInv'
  <1>1. ScalarsOK /\ TasksOK(tasks) /\ c \in 0..MaxTasks
    BY TasksAre, AwaitNames DEF FuturesInv
  <1>2. \A u \in Made : ts[u].kind = tasks[u].kind
    BY DEF Continues, Made
  <1>3. /\ \E t, f : Enters(ts, below, c, t, f)
        /\ Len(below) < MaxDepth /\ begun' \in 0..MaxBegun
    BY <1>1, <1>2, BeginIs
  <1>4. PICK t, f : Enters(ts, below, c, t, f)
    BY <1>3
  <1>5. /\ NewFrame(f, t, c) /\ (Adds(ts, tasks', t) \/ Finds(ts, tasks', t)) /\ stack' = Append(below, f)
        /\ f.at = "starting" => tasks'[t].kind = "parallel"
    BY <1>4 DEF Enters, NewTaskIs
  <1>6. abandoned \subseteq DOMAIN ts
    BY <1>1 DEF ScalarsOK
  <1>7. /\ TasksOK(tasks') /\ FramesOK(tasks', stack') /\ DrivesOK(tasks', stack')
        /\ StopsOK(tasks', abandoned) /\ WaysOK(tasks', outbound, stack', 0) /\ Continues(ts, tasks')
    BY <1>3, <1>5, <1>6, BegunKeeps
  <1>8. Continues(tasks, tasks')
    BY <1>7 DEF Continues
  <1>9. Len(tasks) \in Nat
    BY <1>1, TasksAre
  <1>10. /\ flags' \subseteq Variables /\ results' \in [Variables -> 0..MaxTasks]
         /\ nextRuntimeRefID' \in [Manifests -> 0..Len(tasks')]
    <2>1. CASE Finds(ts, tasks', t) /\ UNCHANGED <<flags, results, nextRuntimeRefID>>
      <3>1. tasks' = ts
        BY <2>1 DEF Finds
      <3> QED BY <1>1, <1>9, <2>1, <3>1 DEF ScalarsOK
    <2>2. CASE NewTaskIs(ts, tasks', t)
      <3>1. Len(tasks') = Len(tasks) + 1
        <4>1. Adds(ts, tasks', t)
          BY <2>2 DEF NewTaskIs
        <4> QED BY <4>1, AddsIs
      <3>2. CASE UNCHANGED <<flags, results, nextRuntimeRefID>>
        <4>1. nextRuntimeRefID \in [Manifests -> 0..Len(tasks')]
          BY <1>1, <1>9, <3>1, NumbersStay
        <4> QED BY <1>1, <3>2, <4>1 DEF ScalarsOK
      <3>3. CASE Resets(tasks'[t]) /\ Numbered(tasks'[t])
        <4>1. flags' \subseteq Variables /\ results' \in [Variables -> 0..MaxTasks]
          BY <1>1, <3>3, ResetsKeep
        <4>2. nextRuntimeRefID' \in [Manifests -> 0..Len(tasks')]
          BY <1>1, <1>9, <3>1, <3>3, NumbersGrow
        <4> QED BY <4>1, <4>2
      <3> QED BY <2>2, <3>2, <3>3 DEF NewTaskIs
    <2> QED BY <1>4, <2>1, <2>2 DEF Enters
  <1>11. ScalarsOK'
    BY <1>1, <1>3, <1>8, <1>10, ScalarsKeep
  <1> QED BY <1>7, <1>11 DEF FuturesInv

(* The stack stays.                                                        *)
LEMMA StackStays ==
  ASSUME FuturesInv, TasksOK(tasks'), SamePlaces(tasks, tasks'), UNCHANGED <<stack, abandoned>>,
         \A t \in Made : tasks[t].state \in {"over", "cancelled"} =>
                           tasks'[t].state \in {"over", "cancelled"}
  PROVE  FramesOK(tasks', stack') /\ DrivesOK(tasks', stack') /\ StopsOK(tasks', abandoned')
  <1>1. /\ TasksOK(tasks) /\ FramesOK(tasks, stack) /\ ScalarsOK /\ DrivesOK(tasks, stack)
        /\ StopsOK(tasks, abandoned)
    BY DEF FuturesInv
  <1>2. Continues(tasks, tasks')
    BY DEF SamePlaces
  <1>3. FramesOK(tasks', stack')
    BY <1>1, <1>2, FrameStays DEF FramesOK
  <1>4. StopsOK(tasks', abandoned')
    BY <1>1, <1>2, StopsStay DEF ScalarsOK, Made
  <1>5. \A i \in DOMAIN stack : stack[i].own \subseteq DOMAIN tasks
    BY <1>1, FramesAre
  <1>6. Quiet(stack, stack)
    BY DEF Quiet
  <1>7. \A i, j \in DOMAIN stack : \A t \in DOMAIN tasks' :
          tasks'[t].kind = "local" /\ t \in stack[i].own /\ t \in stack[j].own => i = j
    BY <1>1, <1>2, <1>5 DEF DrivesOK, Continues
  <1>8. \A i \in DOMAIN stack : \A t \in DOMAIN tasks :
          Drives(stack, i, t) /\ tasks[t].kind = "spawned" => i = Len(stack)
    BY <1>1 DEF DrivesOK
  <1>9. DrivesOK(tasks', stack)
    BY <1>1, <1>5, <1>6, <1>7, <1>8, QuietDrives
  <1> QED BY <1>3, <1>4, <1>9

(* A frame changes, but not what it awaits, drives or serves.              *)
LEMMA FrameChanges ==
  ASSUME FuturesInv, NEW k \in DOMAIN stack, NEW f \in Frame, FrameOK(tasks, f),
         stack' = [stack EXCEPT ![k] = f],
         f.own = stack[k].own, f.at = "driving" <=> stack[k].at = "driving",
         f.from = stack[k].from, f.calls = stack[k].calls,
         UNCHANGED <<mode, manifest, tasks, flags, results, nextRuntimeRefID, outbound, begun, abandoned, got>>
  PROVE  FuturesInv'
  <1>1. /\ TasksOK(tasks) /\ FramesOK(tasks, stack) /\ ScalarsOK /\ DrivesOK(tasks, stack)
        /\ StopsOK(tasks, abandoned) /\ WaysOK(tasks, outbound, stack, 0)
    BY DEF FuturesInv
  <1>2. Continues(tasks, tasks) /\ SamePlaces(tasks, tasks)
    BY DEF Continues, SamePlaces
  <1>3. /\ FramesOK(tasks, stack') /\ DOMAIN stack' = DOMAIN stack /\ Len(stack') = Len(stack)
        /\ stack'[k] = f /\ \A i \in DOMAIN stack : i # k => stack'[i] = stack[i]
    <2>1. FramesOK(tasks, stack')
      BY <1>1, <1>2, SetFrame
    <2>2. stack \in Seq(Frame)
      BY <1>1 DEF FramesOK
    <2> QED BY <2>1, <2>2, SetSeq
  <1>4. \A i \in DOMAIN stack :
          /\ stack'[i].own = stack[i].own /\ stack'[i].from = stack[i].from
          /\ stack'[i].calls = stack[i].calls /\ (stack'[i].at = "driving" <=> stack[i].at = "driving")
    BY <1>3
  <1>5. DrivesOK(tasks, stack')
    BY <1>3, <1>4, <1>1 DEF DrivesOK, Drives
  <1>6. WaysOK(tasks, outbound, stack', 0)
    BY <1>1, <1>2, <1>3, <1>4, SetWays
  <1>7. ScalarsOK'
    BY <1>1, <1>2, ScalarsKeep DEF ScalarsOK
  <1> QED BY <1>1, <1>3, <1>5, <1>6, <1>7 DEF FuturesInv

(* A frame that does not drive ends, after its await ts are the tasks.     *)
LEMMA ReturnKeeps ==
  ASSUME FuturesInv, stack # << >>, Top.calls = << >>, Top.at # "driving",
         NEW ts, TasksOK(ts), DOMAIN ts = Made, SamePlaces(tasks, ts), Return(ts),
         \A t \in Made : ts[t].state \in {tasks[t].state, "cancelled"},
         StopsOK(ts, abandoned'), abandoned' \subseteq Made,
         got' \in [Ids -> 0..MaxTasks],
         UNCHANGED <<mode, manifest, flags, results, nextRuntimeRefID, outbound, begun>>
  PROVE  FuturesInv'
  <1> DEFINE c == Top.from
             us == Resumed(ts, c)
  <1>1. /\ TasksOK(tasks) /\ FramesOK(tasks, stack) /\ ScalarsOK /\ DrivesOK(tasks, stack)
        /\ StopsOK(tasks, abandoned) /\ WaysOK(tasks, outbound, stack, 0)
    BY DEF FuturesInv
  <1>2. stack' = Front(stack) /\ tasks' = us /\ Continues(tasks, ts)
    BY DEF Return, SamePlaces
  <1>3. /\ Len(stack) \in DOMAIN stack /\ Top = stack[Len(stack)] /\ FrameOK(tasks, Top)
        /\ \A i : i \in DOMAIN stack' <=> i \in DOMAIN stack /\ i # Len(stack)
        /\ \A i \in DOMAIN stack' : stack'[i] = stack[i]
    BY <1>1, <1>2, PopFrame DEF Top
  <1>4. c \in DOMAIN ts \cup {0}
    BY <1>3 DEF FrameOK, Made
  <1>5. /\ TasksOK(us) /\ SamePlaces(ts, us) /\ DOMAIN us = DOMAIN ts /\ Len(us) = Len(ts)
        /\ \A t \in DOMAIN ts : \/ us[t] = ts[t]
                                \/ ts[t].state \in {"calling", "asked"} /\ us[t].state = "running"
    BY <1>4, ResumedIs
  <1> HIDE DEF us
  <1>6. Continues(ts, us) /\ Continues(tasks, us) /\ SamePlaces(tasks, us)
    BY <1>2, <1>5 DEF SamePlaces, Continues, Made
  <1>7. FramesOK(us, stack')
    BY <1>1, <1>2, <1>6, PopFrame
  <1>8. DrivesOK(us, stack')
    <2>1. Quiet(stack, stack')
      BY <1>3 DEF Quiet
    <2>2. \A i \in DOMAIN stack : stack[i].own \subseteq DOMAIN tasks
      BY <1>1, FramesAre
    <2>3. \A i \in DOMAIN stack : \A t \in DOMAIN tasks :
            Drives(stack, i, t) /\ tasks[t].kind = "spawned" => i = Len(stack')
      BY <1>1, <1>3 DEF DrivesOK, Drives
    <2>4. \A i, j \in DOMAIN stack' : \A t \in DOMAIN us :
            us[t].kind = "local" /\ t \in stack'[i].own /\ t \in stack'[j].own => i = j
      BY <1>1, <1>3, <1>6, <2>2 DEF DrivesOK, Continues
    <2> QED BY <1>1, <1>6, <2>1, <2>2, <2>3, <2>4, QuietDrives
  <1>9. WaysOK(us, outbound, stack', 0)
    <2>1. DOMAIN tasks \subseteq Ids
      BY <1>1, TasksAre
    <2>2. /\ WaysOK(tasks, outbound, stack', c)
          /\ c # 0 => NoWay(outbound, stack', c)
      BY <1>1, <1>2, <2>1, PopWays DEF Top
    <2>3. \A t \in DOMAIN tasks : tasks[t].state \in Suspended => ts[t].state \in Suspended
      BY DEF Suspended, Made
    <2>4. \A t \in DOMAIN ts : ts[t].state = "asked" /\ t # c =>
            /\ t # c /\ t \in DOMAIN tasks /\ tasks[t].state = "asked"
      BY DEF Made
    <2>5. WaysOK(ts, outbound, stack', c)
      BY <1>2, <2>2, <2>3, <2>4, WaysStay
    <2> QED BY <1>4, <2>2, <2>5, ResumedWays DEF us
  <1>10. StopsOK(us, abandoned')
    BY <1>5, <1>6, StopsStay DEF Made
  <1>11. ScalarsOK'
    <2>1. Made' = Made /\ Len(us) = Len(tasks)
      BY <1>1, <1>2, <1>5, TasksAre DEF Made
    <2> QED BY <1>1, <1>2, <2>1 DEF ScalarsOK
  <1> QED BY <1>2, <1>5, <1>7, <1>8, <1>9, <1>10, <1>11 DEF FuturesInv

LEMMA TheTop ==
  ASSUME FuturesInv, stack # << >>
  PROVE  /\ Len(stack) \in DOMAIN stack /\ Len(stack) \in Nat \ {0} /\ Top = stack[Len(stack)]
         /\ Top \in Frame /\ FrameOK(tasks, Top) /\ 0 \notin DOMAIN stack
         /\ Top.own \subseteq Made /\ Top.from \in Made \cup {0}
         /\ \A i \in DOMAIN stack : i \in Nat \ {0} /\ i <= Len(stack)
         /\ Top.at # "serving" => Top.calls = << >>
  <1>1. FramesOK(tasks, stack) /\ stack \in Seq(Frame)
    BY DEF FuturesInv, FramesOK
  <1>2. /\ Len(stack) \in DOMAIN stack /\ Len(stack) \in Nat \ {0} /\ Top = stack[Len(stack)]
        /\ Top \in Frame
        /\ \A i \in DOMAIN stack : i \in Nat \ {0} /\ i <= Len(stack)
    BY <1>1, TopIs DEF Top
  <1>3. FrameOK(tasks, Top)
    BY <1>1, <1>2 DEF FramesOK
  <1> QED BY <1>2, <1>3 DEF FrameOK, Made

(* The calls that wait are handed over to the top frame.                   *)
LEMMA ServedKeeps ==
  ASSUME FuturesInv, stack # << >>, Top.at # "serving", NEW next \in {"checking", "pumping", "done"},
         Served(next), next = "done" => RustFrame(tasks, Top),
         TasksOK(tasks'), Continues(tasks, tasks'), Made' = Made,
         \A t \in Made : tasks'[t].state = tasks[t].state,
         DrivesOK(tasks', stack'), got' \in [Ids -> 0..MaxTasks],
         UNCHANGED <<mode, manifest, flags, results, nextRuntimeRefID, begun, abandoned>>
  PROVE  FuturesInv'
  <1> DEFINE n == Len(stack)
             f == [Top EXCEPT !.at = "serving", !.calls = outbound, !.next = next]
  <1>1. /\ TasksOK(tasks) /\ FramesOK(tasks, stack) /\ ScalarsOK
        /\ StopsOK(tasks, abandoned) /\ WaysOK(tasks, outbound, stack, 0)
    BY DEF FuturesInv
  <1>2. /\ n \in DOMAIN stack /\ n \in Nat \ {0} /\ Top = stack[n] /\ Top \in Frame
        /\ FrameOK(tasks, Top) /\ Top.calls = << >> /\ 0 \notin DOMAIN stack
    BY TheTop
  <1>3. outbound \in Seq(Ids)
    BY <1>1 DEF ScalarsOK
  <1>4. /\ f \in Frame /\ f.at = "serving" /\ f.own = Top.own /\ f.from = Top.from
        /\ f.calls = outbound /\ f.next = next
    BY <1>2, <1>3 DEF Frame
  <1>5. stack' = [stack EXCEPT ![n] = f] /\ outbound' = << >>
    BY DEF Served, SetTop
  <1> HIDE DEF f, n
  <1>6. FrameOK(tasks, f)
    <2>1. RustFrame(tasks, Top) => RustFrame(tasks, f)
      BY <1>4 DEF RustFrame
    <2> QED BY <1>2, <1>4, <2>1 DEF FrameOK
  <1>7. FrameOK(tasks', f)
    BY <1>6, FrameStays
  <1>8. FramesOK(tasks', stack')
    BY <1>1, <1>2, <1>4, <1>5, <1>7, SetFrame
  <1>9. /\ DOMAIN stack' = DOMAIN stack /\ \A i \in DOMAIN stack : i # n => stack'[i] = stack[i]
        /\ stack'[n] = f
    BY <1>1, <1>2, <1>4, <1>5, SetSeq DEF FramesOK
  <1>10. WaysOK(tasks', outbound', stack', 0)
    <2>1. /\ stack'[n].calls = outbound /\ stack'[n].from = stack[n].from
          /\ stack[n].calls = << >> /\ n \in Nat /\ n # 0
      BY <1>2, <1>4, <1>9
    <2>2. \A j \in DOMAIN outbound : j \in Nat \ {0}
      BY <1>3
    <2>3. DOMAIN tasks' = DOMAIN tasks /\ \A t \in DOMAIN tasks : tasks'[t].state = tasks[t].state
      BY DEF Made
    <2>4. WaysOK(tasks', << >>, stack', 0)
      <3>1. /\ n \in DOMAIN stack /\ 0 \notin DOMAIN stack /\ DOMAIN stack' = DOMAIN stack
            /\ \A i \in DOMAIN stack : i # n => stack'[i] = stack[i]
            /\ WaysOK(tasks, outbound, stack, 0) /\ Continues(tasks, tasks')
        BY <1>1, <1>2, <1>9
      <3> QED BY <2>1, <2>2, <2>3, <3>1, ServedWays
    <2> QED BY <1>5, <2>4
  <1>11. StopsOK(tasks', abandoned')
    <2>1. abandoned \subseteq DOMAIN tasks
      BY <1>1 DEF ScalarsOK, Made
    <2> QED BY <1>1, <2>1, StopsStay DEF Made
  <1>12. ScalarsOK'
    <2>1. Len(tasks') = Len(tasks)
      BY <1>1, TasksAre DEF Made
    <2>2. << >> \in Seq(Ids)
      OBVIOUS
    <2> QED BY <1>1, <1>5, <2>1, <2>2 DEF ScalarsOK
  <1> QED BY <1>8, <1>10, <1>11, <1>12 DEF FuturesInv

LEMMA TheTasks ==
  ASSUME FuturesInv
  PROVE  /\ Made \subseteq Ids /\ Made = DOMAIN tasks /\ Made = 1..Len(tasks) /\ Len(tasks) \in Nat
         /\ \A t \in Made : tasks[t] \in Task /\ KindOK(tasks[t])
         /\ TasksOK(tasks) /\ FramesOK(tasks, stack) /\ ScalarsOK /\ DrivesOK(tasks, stack)
         /\ WaysOK(tasks, outbound, stack, 0) /\ StopsOK(tasks, abandoned)
  BY TasksAre DEF FuturesInv, Made

LEMMA TaskEnds ==
  ASSUME FuturesInv, NEW t \in Made, Finish(t)
  PROVE  FuturesInv'
  <1>1. tasks' = SetState(tasks, t, "over") /\ tasks[t].state = "running"
    BY DEF Finish, SetState, Polled, Elsewhere
  <1>2. TasksOK(tasks') /\ Continues(tasks, tasks') /\ OnlyAt(tasks, tasks', t, "over", tasks[t].place)
    BY <1>1, TheTasks, StateChanges
  <1>3. SamePlaces(tasks, tasks')
    BY <1>2 DEF SamePlaces, OnlyAt
  <1>4. \A u \in Made : u # t => tasks'[u] = tasks[u]
    BY <1>2 DEF OnlyAt, Made
  <1>5. UNCHANGED <<mode, manifest, nextRuntimeRefID, outbound, stack, begun, abandoned, got>>
    BY DEF Finish
  <1>6. FramesOK(tasks', stack') /\ DrivesOK(tasks', stack') /\ StopsOK(tasks', abandoned')
    BY <1>2, <1>3, <1>4, <1>5, StackStays DEF OnlyAt
  <1>7. WaysOK(tasks', outbound', stack', 0)
    <2>1. \A u \in DOMAIN tasks : tasks[u].state \in Suspended => tasks'[u].state \in Suspended
      BY <1>1, <1>4 DEF Suspended, Made
    <2>2. \A u \in DOMAIN tasks' : tasks'[u].state = "asked" => u \in DOMAIN tasks /\ tasks[u].state = "asked"
      BY <1>2, <1>4 DEF OnlyAt, Made
    <2>3. WaysOK(tasks', outbound, stack, 0)
      BY <1>2, <2>1, <2>2, TheTasks, SetWays
    <2> QED BY <1>5, <2>3
  <1>8. flags' \subseteq Variables /\ results' \in [Variables -> 0..MaxTasks]
    <2>1. CASE IsRust(t)
      BY <2>1, TheTasks DEF Finish, ScalarsOK
    <2>2. CASE ~IsRust(t)
      <3>1. Flag(t) \in Variables
        BY <2>2, TheTasks DEF Flag, Variables, IsRust, KindOK, Task
      <3>2. t \in 0..MaxTasks
        BY TheTasks, AwaitNames
      <3>3. /\ flags' = flags \cup {Flag(t)} /\ results' = [results EXCEPT ![ResultVar(t)] = t]
            /\ flags \subseteq Variables /\ results \in [Variables -> 0..MaxTasks]
        BY <2>2, TheTasks DEF Finish, ScalarsOK
      <3> QED BY <3>1, <3>2, <3>3
    <2> QED BY <2>1, <2>2
  <1>9. ScalarsOK'
    <2>1. Made' = Made /\ Len(tasks') = Len(tasks)
      BY <1>2 DEF OnlyAt, Made
    <2> QED BY <1>5, <1>8, <2>1, TheTasks DEF ScalarsOK
  <1> QED BY <1>2, <1>6, <1>7, <1>9 DEF FuturesInv

LEMMA TaskAsks ==
  ASSUME FuturesInv, NEW t \in Made, Ask(t)
  PROVE  FuturesInv'
  <1>1. /\ tasks' = SetState(tasks, t, "asked") /\ tasks[t].state = "running"
        /\ tasks[t].kind \in RustKinds
    BY DEF Ask, SetState, Polled, Elsewhere, IsRust
  <1>2. TasksOK(tasks') /\ Continues(tasks, tasks') /\ OnlyAt(tasks, tasks', t, "asked", tasks[t].place)
    <2>1. ~(tasks[t].kind \in {"local", "spawned"} /\ tasks[t].place = "none")
      BY <1>1, TheTasks DEF KindOK
    <2> QED BY <1>1, <2>1, TheTasks, StateChanges
  <1>3. SamePlaces(tasks, tasks')
    BY <1>2 DEF SamePlaces, OnlyAt
  <1>4. \A u \in Made : u # t => tasks'[u] = tasks[u]
    BY <1>2 DEF OnlyAt, Made
  <1>5. /\ UNCHANGED <<mode, manifest, flags, results, nextRuntimeRefID, stack, begun, abandoned, got>>
        /\ outbound' = Append(outbound, t)
    BY DEF Ask
  <1>6. FramesOK(tasks', stack') /\ DrivesOK(tasks', stack') /\ StopsOK(tasks', abandoned')
    <2>1. \A u \in Made : tasks[u].state \in {"over", "cancelled"} =>
                           tasks'[u].state \in {"over", "cancelled"}
      BY <1>1, <1>4
    <2> QED BY <1>2, <1>3, <1>5, <2>1, StackStays
  <1>7. WaysOK(tasks', outbound', stack', 0)
    <2>1. outbound \in Seq(Ids) /\ t \in Ids /\ t \in DOMAIN tasks
      BY TheTasks DEF ScalarsOK
    <2>2. /\ DOMAIN tasks' = DOMAIN tasks /\ tasks'[t].state = "asked"
          /\ \A u \in DOMAIN tasks : u # t => tasks'[u] = tasks[u]
      BY <1>2 DEF OnlyAt
    <2>3. 0 \notin DOMAIN stack
      BY TheTasks, FramesAre
    <2>4. WaysOK(tasks', outbound', stack, 0)
      BY <1>1, <1>2, <1>5, <2>1, <2>2, <2>3, TheTasks, AskWays
    <2> QED BY <1>5, <2>4
  <1>8. ScalarsOK'
    <2>1. Made' = Made /\ Len(tasks') = Len(tasks)
      BY <1>2 DEF OnlyAt, Made
    <2>2. outbound' \in Seq(Ids)
      BY <1>5, TheTasks DEF ScalarsOK
    <2> QED BY <1>5, <2>1, <2>2, TheTasks DEF ScalarsOK
  <1> QED BY <1>2, <1>6, <1>7, <1>8 DEF FuturesInv

LEMMA SpawnKeepsFutures ==
  ASSUME FuturesInv, SpawnBackground \/ SpawnSend \/ SpawnBlocking
  PROVE  FuturesInv'
  <1>1. PICK k \in Task : /\ KindOK(k) /\ k.place # "driven" /\ k.state = "running"
                          /\ tasks' = Append(tasks, k) /\ NextId \in Ids
                          /\ begun < MaxBegun /\ begun' = begun + 1
                          /\ UNCHANGED <<mode, manifest, flags, results, nextRuntimeRefID, outbound, stack, abandoned, got>>
    BY FutureIs DEF SpawnBackground, SpawnSend, SpawnBlocking, SpawnRust
  <1>2. Adds(tasks, tasks', NextId)
    BY <1>1 DEF Adds, NextId
  <1>3. /\ TasksOK(tasks') /\ Continues(tasks, tasks') /\ SamePlaces(tasks, tasks')
        /\ Len(tasks') = Len(tasks) + 1
        /\ DOMAIN tasks' = DOMAIN tasks \cup {NextId}
        /\ \A u \in DOMAIN tasks : tasks'[u] = tasks[u]
        /\ tasks'[NextId].state = "running"
    BY <1>2, TheTasks, AddsIs
  <1>4. FramesOK(tasks', stack') /\ DrivesOK(tasks', stack') /\ StopsOK(tasks', abandoned')
    BY <1>1, <1>3, StackStays DEF Made
  <1>5. WaysOK(tasks', outbound', stack', 0)
    <2>1. \A u \in DOMAIN tasks' : tasks'[u].state = "asked" => u \in DOMAIN tasks /\ tasks[u].state = "asked"
      BY <1>3
    <2>2. WaysOK(tasks', outbound, stack, 0)
      BY <1>3, <2>1, TheTasks, SetWays
    <2> QED BY <1>1, <2>2
  <1>6. ScalarsOK'
    <2>1. begun' \in 0..MaxBegun
      <3>1. begun \in 0..MaxBegun
        BY TheTasks DEF ScalarsOK
      <3> QED BY <1>1, <3>1, AwaitNames
    <2>2. nextRuntimeRefID' \in [Manifests -> 0..Len(tasks')]
      <3>1. Len(tasks) \in Nat /\ Len(tasks') = Len(tasks) + 1
        BY <1>1, <1>3, TheTasks
      <3>2. nextRuntimeRefID \in [Manifests -> 0..Len(tasks')]
        BY <3>1, TheTasks, NumbersStay
      <3> QED BY <1>1, <1>3, <3>2
    <2>3. flags' \subseteq Variables /\ results' \in [Variables -> 0..MaxTasks]
      BY <1>1, TheTasks DEF ScalarsOK
    <2> QED BY <1>1, <1>3, <2>1, <2>2, <2>3, TheTasks, ScalarsKeep
  <1> QED BY <1>3, <1>4, <1>5, <1>6 DEF FuturesInv

(* The top frame goes on to another place where it does not drive either.  *)
LEMMA TopMoves ==
  ASSUME FuturesInv, stack # << >>, Top.at # "driving", Top.at = "serving" => Top.calls = << >>,
         NEW at \in {"checking", "pumping"},
         SetTop([Top EXCEPT !.at = at]),
         UNCHANGED <<mode, manifest, tasks, flags, results, nextRuntimeRefID, outbound, begun, abandoned, got>>
  PROVE  FuturesInv'
  <1> DEFINE f == [Top EXCEPT !.at = at]
             n == Len(stack)
  <1>1. /\ n \in DOMAIN stack /\ Top = stack[n] /\ Top \in Frame /\ FrameOK(tasks, Top)
        /\ Top.calls = << >>
    BY TheTop
  <1>2. /\ f \in Frame /\ f.at = at /\ f.own = Top.own /\ f.from = Top.from /\ f.calls = Top.calls
        /\ f.next = Top.next
    BY <1>1 DEF Frame
  <1>3. stack' = [stack EXCEPT ![n] = f]
    BY DEF SetTop
  <1> HIDE DEF f, n
  <1>4. FrameOK(tasks, f)
    <2>1. RustFrame(tasks, Top) => RustFrame(tasks, f)
      BY <1>2 DEF RustFrame
    <2> QED BY <1>1, <1>2, <2>1 DEF FrameOK
  <1>5. f.at = "driving" <=> stack[n].at = "driving"
    BY <1>1, <1>2
  <1> QED BY <1>1, <1>2, <1>3, <1>4, <1>5, FrameChanges

LEMMA MovesKeepFutures ==
  ASSUME FuturesInv, Branched \/ StartPump
  PROVE  FuturesInv'
  <1>1. CASE Branched
    BY <1>1, TopMoves DEF Branched, TopAt
  <1>2. CASE StartPump
    BY <1>2, TopMoves DEF StartPump, TopAt
  <1> QED BY <1>1, <1>2

LEMMA ExpireKeepsFutures ==
  ASSUME FuturesInv, NEW i, Expire(i)
  PROVE  FuturesInv'
  <1> DEFINE f == [stack[i] EXCEPT !.late = TRUE]
  <1>1. i \in DOMAIN stack /\ stack' = [stack EXCEPT ![i] = f]
    BY DEF Expire
  <1>2. stack[i] \in Frame /\ FrameOK(tasks, stack[i])
    BY <1>1, TheTasks, FramesAre
  <1>3. /\ f \in Frame /\ f.at = stack[i].at /\ f.own = stack[i].own /\ f.from = stack[i].from
        /\ f.calls = stack[i].calls /\ f.next = stack[i].next
    BY <1>2 DEF Frame
  <1>4. UNCHANGED <<mode, manifest, tasks, flags, results, nextRuntimeRefID, outbound, begun, abandoned, got>>
    BY DEF Expire
  <1> HIDE DEF f
  <1>5. FrameOK(tasks, f)
    <2>1. RustFrame(tasks, stack[i]) => RustFrame(tasks, f)
      BY <1>3 DEF RustFrame
    <2> QED BY <1>2, <1>3, <2>1 DEF FrameOK
  <1> QED BY <1>1, <1>3, <1>4, <1>5, FrameChanges

LEMMA ServedIs ==
  ASSUME FuturesInv, stack # << >>, NEW next \in {"checking", "pumping", "done"}, Served(next)
  PROVE  /\ DOMAIN stack' = DOMAIN stack /\ Len(stack') = Len(stack) /\ stack' # << >>
         /\ \A i \in DOMAIN stack : i # Len(stack) => stack'[i] = stack[i]
         /\ stack'[Len(stack)].at = "serving" /\ stack'[Len(stack)].own = Top.own
         /\ stack'[Len(stack)].next = next /\ outbound' = << >>
  <1> DEFINE n == Len(stack)
             f == [Top EXCEPT !.at = "serving", !.calls = outbound, !.next = next]
  <1>1. n \in DOMAIN stack /\ Top = stack[n] /\ Top \in Frame /\ stack \in Seq(Frame)
    BY TheTop, TheTasks DEF FramesOK
  <1>2. outbound \in Seq(Ids)
    BY TheTasks DEF ScalarsOK
  <1>3. /\ f \in Frame /\ f.at = "serving" /\ f.own = Top.own /\ f.next = next
        /\ stack' = [stack EXCEPT ![n] = f] /\ outbound' = << >>
    BY <1>1, <1>2 DEF Frame, Served, SetTop
  <1> HIDE DEF n, f
  <1>4. /\ DOMAIN stack' = DOMAIN stack /\ Len(stack') = Len(stack) /\ stack' # << >>
        /\ stack'[n] = f
        /\ \A i \in DOMAIN stack : i # n => stack'[i] = stack[i]
    BY <1>1, <1>3, SetSeq
  <1> QED BY <1>3, <1>4 DEF n

(* ... from a place where the top frame did not drive.                     *)
LEMMA StillServed ==
  ASSUME FuturesInv, stack # << >>, Top.at \in {"checking", "pumping"},
         NEW next \in {"checking", "pumping", "done"}, Served(next),
         next = "done" => RustFrame(tasks, Top),
         UNCHANGED <<mode, manifest, tasks, flags, results, nextRuntimeRefID, begun, abandoned, got>>
  PROVE  FuturesInv'
  <1>1. Len(stack) \in DOMAIN stack /\ Top = stack[Len(stack)]
    BY TheTop
  <1>2. \A i \in DOMAIN stack : /\ stack'[i].own = stack[i].own
                                /\ stack'[i].at = "driving" <=> stack[i].at = "driving"
    BY <1>1, ServedIs
  <1>3. DOMAIN stack' = DOMAIN stack /\ Len(stack') = Len(stack)
    BY ServedIs
  <1>4. DrivesOK(tasks, stack')
    BY <1>2, <1>3, TheTasks DEF DrivesOK, Drives
  <1>5. Continues(tasks, tasks') /\ TasksOK(tasks') /\ Made' = Made /\ DrivesOK(tasks', stack')
    BY <1>4, TheTasks DEF Continues, Made
  <1>6. \A t \in Made : tasks'[t].state = tasks[t].state
    OBVIOUS
  <1>7. got' \in [Ids -> 0..MaxTasks]
    BY TheTasks DEF ScalarsOK
  <1> QED BY <1>5, <1>6, <1>7, ServedKeeps

LEMMA EndPumpKeepsFutures ==
  ASSUME FuturesInv, EndPump
  PROVE  FuturesInv'
  <1>1. stack # << >> /\ Top.at = "pumping"
    BY DEF EndPump, TopAt
  <1>2. UNCHANGED <<mode, manifest, tasks, flags, results, nextRuntimeRefID, begun, abandoned, got>>
    BY DEF EndPump
  <1>3. CASE TopRust \/ Inside
    BY <1>1, <1>2, <1>3, TopMoves DEF EndPump
  <1>4. CASE ~(TopRust \/ Inside)
    <2>1. Served("checking")
      BY <1>4 DEF EndPump, Served
    <2> QED BY <1>1, <1>2, <2>1, StillServed
  <1> QED BY <1>3, <1>4

(* The future that the top frame awaits.                                   *)
LEMMA TheFuture ==
  ASSUME FuturesInv, stack # << >>, NEW t \in Top.own, IsRust(t)
  PROVE  /\ Top.own = {t} /\ t \in Made /\ RustFrame(tasks, Top) /\ TopRust
         /\ tasks[t].kind \in RustKinds /\ tasks[t].place \in PlacesOf(tasks[t].kind)
  <1>1. FrameOK(tasks, Top) /\ t \in Made
    BY TheTop
  <1>2. RustFrame(tasks, Top)
    BY <1>1 DEF FrameOK, IsRust
  <1>3. Top.own = {t}
    BY <1>2 DEF RustFrame
  <1> QED BY <1>1, <1>2, <1>3, TheTasks DEF TopRust, IsRust, KindOK

LEMMA NotFoundKeepsFutures ==
  ASSUME FuturesInv, DriveNotFound
  PROVE  FuturesInv'
  <1>1. PICK t \in Top.own : IsRust(t)
    BY DEF DriveNotFound
  <1>2. stack # << >> /\ Top.at = "checking" /\ Served("done")
    BY DEF DriveNotFound, TopAt
  <1>3. RustFrame(tasks, Top)
    BY <1>1, <1>2, TheFuture
  <1>4. UNCHANGED <<mode, manifest, tasks, flags, results, nextRuntimeRefID, begun, abandoned, got>>
    BY DEF DriveNotFound
  <1> QED BY <1>2, <1>3, <1>4, StillServed

LEMMA StartDriveKeepsFutures ==
  ASSUME FuturesInv, StartDrive
  PROVE  FuturesInv'
  <1> DEFINE n == Len(stack)
             f == [Top EXCEPT !.at = "driving"]
  <1>1. PICK t \in Top.own : /\ IsRust(t) /\ tasks[t].place \in Tables
                             /\ tasks' = SetPlace(tasks, t, "driven")
    BY DEF StartDrive, SetPlace
  <1>2. stack # << >> /\ Top.at = "checking" /\ stack' = [stack EXCEPT ![n] = f]
    BY DEF StartDrive, TopAt, SetTop
  <1>3. /\ n \in DOMAIN stack /\ Top = stack[n] /\ Top \in Frame /\ stack \in Seq(Frame)
        /\ FrameOK(tasks, Top) /\ n = Len(stack)
    BY <1>2, TheTop, TheTasks DEF FramesOK
  <1>4. Top.own = {t} /\ t \in Made /\ tasks[t].kind \in RustKinds /\ RustFrame(tasks, Top)
    BY <1>1, <1>2, TheFuture
  <1>5. tasks[t].place # "driven"
    BY <1>1 DEF Tables
  <1>6. /\ f \in Frame /\ f.at = "driving" /\ f.own = Top.own /\ f.from = Top.from
        /\ f.calls = Top.calls /\ f.next = Top.next
    BY <1>3 DEF Frame
  <1> HIDE DEF n, f
  <1>7. TasksOK(tasks') /\ Continues(tasks, tasks') /\ OnlyAt(tasks, tasks', t, tasks[t].state, "driven")
    <2>1. "driven" \in PlacesOf(tasks[t].kind)
      BY DEF PlacesOf
    <2> QED BY <1>1, <1>4, <2>1, TheTasks, PlaceChanges
  <1>8. /\ DOMAIN stack' = DOMAIN stack /\ Len(stack') = Len(stack) /\ stack'[n] = f
        /\ \A i \in DOMAIN stack : i # n => stack'[i] = stack[i]
    BY <1>2, <1>3, <1>6, SetSeq
  <1>9. FramesOK(tasks', stack')
    <2>1. RustFrame(tasks, f)
      BY <1>4, <1>6 DEF RustFrame
    <2>2. FrameOK(tasks, f)
      BY <1>2, <1>3, <1>6, <2>1 DEF FrameOK
    <2>3. FrameOK(tasks', f)
      BY <1>7, <2>2, FrameStays
    <2> QED BY <1>2, <1>3, <1>6, <1>7, <2>3, TheTasks, SetFrame
  <1>10. DrivesOK(tasks', stack')
    <2>1. /\ DOMAIN tasks' = DOMAIN tasks /\ t \in DOMAIN tasks
          /\ \A u \in DOMAIN tasks : u # t => tasks'[u] = tasks[u]
          /\ tasks'[t].place = "driven" /\ Continues(tasks, tasks')
      BY <1>4, <1>7 DEF OnlyAt, Made
    <2>2. /\ stack[n].own = {t} /\ stack[n].at # "driving"
          /\ stack'[n].own = {t} /\ stack'[n].at = "driving"
      BY <1>2, <1>3, <1>4, <1>6, <1>8
    <2> QED BY <1>3, <1>5, <1>8, <2>1, <2>2, TheTasks, StartDrives
  <1>11. \A u \in Made : tasks'[u].state = tasks[u].state
    BY <1>7 DEF OnlyAt, Made
  <1>12. UNCHANGED <<mode, manifest, flags, results, nextRuntimeRefID, outbound, begun, abandoned, got>>
    BY DEF StartDrive
  <1>13. WaysOK(tasks', outbound', stack', 0)
    <2>1. \A i \in DOMAIN stack : stack'[i].from = stack[i].from /\ stack'[i].calls = stack[i].calls
      BY <1>3, <1>6, <1>8
    <2>2. \A u \in DOMAIN tasks' : tasks'[u].state = "asked" => u \in DOMAIN tasks /\ tasks[u].state = "asked"
      BY <1>7, <1>11 DEF OnlyAt, Made
    <2>3. \A u \in DOMAIN tasks : tasks[u].state \in Suspended => tasks'[u].state \in Suspended
      BY <1>11 DEF Made
    <2>4. WaysOK(tasks', outbound, stack', 0)
      BY <1>7, <1>8, <2>1, <2>2, <2>3, TheTasks, SetWays
    <2> QED BY <1>12, <2>4
  <1>14. ScalarsOK' /\ StopsOK(tasks', abandoned')
    <2>1. Made' = Made /\ Len(tasks') = Len(tasks) /\ abandoned \subseteq DOMAIN tasks
      BY <1>7, TheTasks DEF OnlyAt, Made, ScalarsOK
    <2>2. StopsOK(tasks', abandoned)
      BY <1>7, <1>11, <2>1, TheTasks, StopsStay
    <2> QED BY <1>12, <2>1, <2>2, TheTasks DEF ScalarsOK
  <1> QED BY <1>7, <1>9, <1>10, <1>13, <1>14 DEF FuturesInv

(* A drive ends: its future has another place, or none.                    *)
LEMMA DriveEnds ==
  ASSUME FuturesInv, stack # << >>, Top.at = "driving", NEW t \in Top.own,
         NEW x \in PlacesOf(tasks[t].kind), x # "driven",
         x = "none" => tasks[t].state = "over",
         tasks' = SetPlace(tasks, t, x),
         NEW next \in {"checking", "pumping", "done"}, Served(next),
         got' \in [Ids -> 0..MaxTasks],
         UNCHANGED <<mode, manifest, flags, results, nextRuntimeRefID, begun, abandoned>>
  PROVE  FuturesInv'
  <1> DEFINE n == Len(stack)
  <1>1. n \in DOMAIN stack /\ Top = stack[n] /\ FrameOK(tasks, Top)
    BY TheTop
  <1>2. RustFrame(tasks, Top)
    BY <1>1 DEF FrameOK
  <1>3. Top.own = {t} /\ t \in Made /\ tasks[t].kind \in RustKinds
    BY <1>2 DEF RustFrame, Made
  <1>4. TasksOK(tasks') /\ Continues(tasks, tasks') /\ OnlyAt(tasks, tasks', t, tasks[t].state, x)
    BY <1>3, TheTasks, PlaceChanges
  <1>5. /\ DOMAIN stack' = DOMAIN stack /\ Len(stack') = Len(stack)
        /\ stack'[n].own = {t} /\ stack'[n].at # "driving"
        /\ \A i \in DOMAIN stack : i # n => stack'[i] = stack[i]
    BY <1>3, ServedIs
  <1> HIDE DEF n
  <1>6. DrivesOK(tasks', stack')
    <2>1. /\ DOMAIN tasks' = DOMAIN tasks /\ t \in DOMAIN tasks /\ tasks'[t].place # "driven"
          /\ \A u \in DOMAIN tasks : u # t => tasks'[u] = tasks[u]
      BY <1>3, <1>4 DEF OnlyAt, Made
    <2>2. stack[n].own = {t} /\ stack[n].at = "driving"
      BY <1>1, <1>3
    <2>3. n \in DOMAIN stack /\ Continues(tasks, tasks') /\ DrivesOK(tasks, stack)
      BY <1>1, <1>4, TheTasks
    <2> QED BY <1>5, <2>1, <2>2, <2>3, EndDrives
  <1>7. Made' = Made /\ \A u \in Made : tasks'[u].state = tasks[u].state
    BY <1>4 DEF OnlyAt, Made
  <1> QED BY <1>2, <1>4, <1>6, <1>7, ServedKeeps

LEMMA EndDriveKeepsFutures ==
  ASSUME FuturesInv, DriveDone \/ DrivePending
  PROVE  FuturesInv'
  <1>1. stack # << >> /\ Top.at = "driving"
    BY DEF DriveDone, DrivePending, TopAt
  <1>2. CASE DriveDone
    <2>1. PICK t \in Top.own : /\ tasks[t].state = "over" /\ tasks' = SetPlace(tasks, t, "none")
                               /\ got' = [got EXCEPT ![t] = t]
      BY <1>2 DEF DriveDone, SetPlace
    <2>2. "none" \in PlacesOf(tasks[t].kind) /\ Served("done")
      BY <1>2 DEF PlacesOf, DriveDone
    <2>3. t \in 0..MaxTasks
      BY <1>1, TheTop, TheTasks, AwaitNames
    <2>4. got' \in [Ids -> 0..MaxTasks]
      BY <2>1, <2>3, TheTasks DEF ScalarsOK
    <2>5. UNCHANGED <<mode, manifest, flags, results, nextRuntimeRefID, begun, abandoned>>
      BY <1>2 DEF DriveDone
    <2> QED BY <1>1, <2>1, <2>2, <2>4, <2>5, DriveEnds
  <1>3. CASE DrivePending
    <2>1. PICK t \in Top.own : tasks' = SetPlace(tasks, t, PutBack(t))
      BY <1>3 DEF DrivePending, SetPlace
    <2>2. /\ PutBack(t) \in PlacesOf(tasks[t].kind) /\ PutBack(t) # "driven" /\ PutBack(t) # "none"
      BY DEF PlacesOf, PutBack
    <2>3. PICK next \in {"checking", "pumping", "done"} : Served(next)
      BY <1>3 DEF DrivePending
    <2>4. got' \in [Ids -> 0..MaxTasks]
      BY <1>3, TheTasks DEF ScalarsOK, DrivePending
    <2>5. UNCHANGED <<mode, manifest, flags, results, nextRuntimeRefID, begun, abandoned>>
      BY <1>3 DEF DrivePending
    <2> QED BY <1>1, <2>1, <2>2, <2>3, <2>4, <2>5, DriveEnds
  <1> QED BY <1>2, <1>3

LEMMA CollectKeepsFutures ==
  ASSUME FuturesInv, Collect
  PROVE  FuturesInv'
  <1>1. stack # << >> /\ Top.at = "checking" /\ ~TopRust /\ Return(tasks)
    BY DEF Collect, TopAt
  <1>2. Top.calls = << >> /\ Top.own \subseteq Made
    BY <1>1, TheTop
  <1>3. SamePlaces(tasks, tasks)
    BY DEF SamePlaces, Continues
  <1>4. /\ abandoned' = abandoned \cup {t \in Top.own : tasks[t].state # "over"}
        /\ got' = [t \in Ids |-> IF t \in Top.own THEN results[ResultVar(t)] ELSE got[t]]
        /\ UNCHANGED <<mode, manifest, flags, results, nextRuntimeRefID, outbound, begun>>
    BY DEF Collect
  <1>5. StopsOK(tasks, abandoned') /\ abandoned' \subseteq Made
    <2>1. \A t \in Top.own : tasks[t].kind \notin RustKinds
      BY <1>1 DEF TopRust, IsRust
    <2> QED BY <1>2, <1>4, <2>1, TheTasks DEF StopsOK, RustKinds, ScalarsOK
  <1>6. got' \in [Ids -> 0..MaxTasks]
    <2>1. results \in [Variables -> 0..MaxTasks] /\ got \in [Ids -> 0..MaxTasks]
      BY TheTasks DEF ScalarsOK
    <2>2. \A t \in Top.own : ResultVar(t) \in Variables
      <3> SUFFICES ASSUME NEW t \in Top.own PROVE ResultVar(t) \in Variables
        OBVIOUS
      <3>1. tasks[t].kind \notin RustKinds /\ t \in Made
        BY <1>1, <1>2 DEF TopRust, IsRust
      <3>2. tasks[t] \in Task /\ tasks[t].rt \in Loops
        BY <3>1, TheTasks DEF KindOK
      <3>3. Flag(t) \in Variables
        BY <3>1, <3>2 DEF Flag, Variables, Task
      <3>4. <<tasks[t].rt, "bound", 0>> \in Variables
        BY <3>2, AwaitNames DEF Variables
      <3> QED BY <3>3, <3>4 DEF ResultVar
    <2> QED BY <1>4, <2>1, <2>2
  <1> QED BY <1>1, <1>2, <1>3, <1>4, <1>5, <1>6, TheTasks, ReturnKeeps DEF Made

LEMMA TimeOutKeepsFutures ==
  ASSUME FuturesInv, TimeOut
  PROVE  FuturesInv'
  <1>1. stack # << >> /\ Top.at = "checking" /\ ~TopRust /\ Return(tasks)
    BY DEF TimeOut, TopAt
  <1>2. Top.calls = << >> /\ Top.own \subseteq Made
    BY <1>1, TheTop
  <1>3. SamePlaces(tasks, tasks)
    BY DEF SamePlaces, Continues
  <1>4. /\ abandoned' = abandoned \cup Top.own
        /\ UNCHANGED <<mode, manifest, flags, results, nextRuntimeRefID, outbound, begun, got>>
    BY DEF TimeOut
  <1>5. StopsOK(tasks, abandoned') /\ abandoned' \subseteq Made
    <2>1. \A t \in Top.own : tasks[t].kind \notin RustKinds
      BY <1>1 DEF TopRust, IsRust
    <2> QED BY <1>2, <1>4, <2>1, TheTasks DEF StopsOK, RustKinds, ScalarsOK
  <1>6. got' \in [Ids -> 0..MaxTasks]
    BY <1>4, TheTasks DEF ScalarsOK
  <1> QED BY <1>1, <1>2, <1>3, <1>4, <1>5, <1>6, TheTasks, ReturnKeeps DEF Made

(* A future released is in no table; one that a frame below drives stays.  *)
LEMMA ReleasedIs ==
  ASSUME FuturesInv, NEW t \in Made, IsRust(t)
  PROVE  /\ Released(t) \in Task /\ KindOK(Released(t))
         /\ Released(t).kind = tasks[t].kind /\ Released(t).rt = tasks[t].rt
         /\ Released(t).idx = tasks[t].idx /\ Released(t).bind = tasks[t].bind
         /\ Released(t).by = tasks[t].by
         /\ Released(t).place = "driven" <=> tasks[t].place = "driven"
         /\ \/ Released(t).state = tasks[t].state
            \/ tasks[t].place \in {"futures", "locals", "spawned"} /\ Released(t).state = "cancelled"
         /\ tasks[t].kind \in {"local", "spawned"} =>
              tasks[t].place = "driven" \/ Released(t).state \in {"over", "cancelled"}
  <1>1. tasks[t] \in Task /\ KindOK(tasks[t]) /\ tasks[t].kind \in RustKinds
    BY TheTasks DEF IsRust
  <1>2. tasks[t].rt = "rust" /\ tasks[t].place \in PlacesOf(tasks[t].kind) /\ "none" \in PlacesOf(tasks[t].kind)
    BY <1>1 DEF KindOK, PlacesOf
  <1>3. CASE tasks[t].place \in {"none", "driven"}
    <2>1. Released(t) = tasks[t]
      BY <1>3 DEF Released
    <2> QED BY <1>1, <1>2, <1>3, <2>1 DEF KindOK
  <1>4. CASE tasks[t].place \notin {"none", "driven"}
    <2> DEFINE x == IF \/ tasks[t].place = "joins" \/ tasks[t].kind = "blocking"
                       \/ tasks[t].state = "over"
                    THEN tasks[t].state ELSE "cancelled"
               k == [tasks[t] EXCEPT !.place = "none", !.state = x]
    <2>1. Released(t) = k
      BY <1>4 DEF Released
    <2>2. x \in {tasks[t].state, "cancelled"} /\ (tasks[t].place = "joins" => x = tasks[t].state)
      OBVIOUS
    <2>3. tasks[t].place = "joins" => tasks[t].kind \notin {"local", "spawned"}
      BY <1>2 DEF PlacesOf
    <2>4. tasks[t].kind \in {"local", "spawned"} => x \in {"over", "cancelled"}
      BY <2>3
    <2> HIDE DEF x
    <2>5. /\ k \in Task /\ k.kind = tasks[t].kind /\ k.rt = tasks[t].rt /\ k.idx = tasks[t].idx
          /\ k.bind = tasks[t].bind /\ k.by = tasks[t].by /\ k.state = x /\ k.place = "none"
      BY <1>1, <2>2 DEF Task
    <2>6. tasks[t].place \in {"futures", "locals", "spawned", "joins"}
      BY <1>1, <1>4 DEF Task
    <2> HIDE DEF k
    <2>7. KindOK(k)
      BY <1>1, <1>2, <2>4, <2>5 DEF KindOK
    <2> QED BY <1>4, <2>1, <2>2, <2>4, <2>5, <2>6, <2>7
  <1> QED BY <1>3, <1>4

LEMMA TimeOutRustKeepsFutures ==
  ASSUME FuturesInv, TimeOutRust
  PROVE  FuturesInv'
  <1> DEFINE ts == [t \in Made |-> IF t \in Top.own THEN Released(t) ELSE tasks[t]]
             n == Len(stack)
  <1>1. stack # << >> /\ Top.at = "checking" /\ TopRust /\ Return(ts)
    BY DEF TimeOutRust, TopAt
  <1>2. PICK o \in Top.own : IsRust(o)
    BY <1>1 DEF TopRust
  <1>3. Top.own = {o} /\ o \in Made
    BY <1>1, <1>2, TheFuture
  <1>4. n \in DOMAIN stack /\ Top = stack[n] /\ Top.calls = << >>
    BY <1>1, TheTop
  <1>5. DOMAIN ts = Made /\ \A t \in Made : ts[t] = IF t = o THEN Released(o) ELSE tasks[t]
    BY <1>3
  <1>6. /\ abandoned' = abandoned \cup {o}
        /\ UNCHANGED <<mode, manifest, flags, results, nextRuntimeRefID, outbound, begun, got>>
    BY <1>3 DEF TimeOutRust
  <1>14. \A t \in Made : ts[t] \in Task /\ KindOK(ts[t])
    BY <1>2, <1>3, ReleasedIs, TheTasks
  <1>15. ts \in Seq(Task) /\ Len(ts) = Len(tasks)
    <2>1. Len(tasks) \in Nat /\ DOMAIN ts = 1..Len(tasks) /\ ts = [t \in 1..Len(tasks) |-> ts[t]]
      BY TheTasks
    <2>2. \A t \in 1..Len(tasks) : ts[t] \in Task
      BY <1>14, TheTasks
    <2> QED BY <2>1, <2>2
  <1> HIDE DEF ts, n
  <1>7. TasksOK(ts)
    BY <1>5, <1>14, <1>15, TheTasks DEF TasksOK
  <1>8. /\ Released(o).kind = tasks[o].kind /\ Released(o).rt = tasks[o].rt
        /\ Released(o).idx = tasks[o].idx /\ Released(o).bind = tasks[o].bind
        /\ Released(o).by = tasks[o].by
        /\ Released(o).place = "driven" <=> tasks[o].place = "driven"
        /\ \/ Released(o).state = tasks[o].state
           \/ tasks[o].place \in {"futures", "locals", "spawned"} /\ Released(o).state = "cancelled"
        /\ tasks[o].kind \in {"local", "spawned"} =>
             tasks[o].place = "driven" \/ Released(o).state \in {"over", "cancelled"}
    BY <1>2, <1>3, ReleasedIs
  <1>9. SamePlaces(tasks, ts)
    BY <1>5, <1>8 DEF SamePlaces, Continues, Made
  <1>10. \A t \in Made : ts[t].state \in {tasks[t].state, "cancelled"}
    BY <1>5, <1>8
  <1>11. tasks[o].kind \in {"local", "spawned"} => tasks[o].place # "driven"
    <2> SUFFICES ASSUME tasks[o].kind \in {"local", "spawned"}, tasks[o].place = "driven"
                 PROVE  FALSE
      OBVIOUS
    <2>1. PICK i \in DOMAIN stack : Drives(stack, i, o)
      BY <1>3, TheTasks DEF DrivesOK
    <2>2. i = n
      <3>1. CASE tasks[o].kind = "spawned"
        BY <1>3, <2>1, <3>1, TheTasks DEF DrivesOK, n
      <3>2. CASE tasks[o].kind = "local"
        <4>1. o \in stack[i].own /\ o \in stack[n].own /\ o \in DOMAIN tasks
          BY <1>3, <1>4, <2>1, TheTasks DEF Drives
        <4> QED BY <1>4, <3>2, <4>1, TheTasks DEF DrivesOK
      <3> QED BY <3>1, <3>2
    <2> QED BY <1>1, <1>4, <2>1, <2>2 DEF Drives
  <1>12. StopsOK(ts, abandoned') /\ abandoned' \subseteq Made
    <2>1. abandoned \subseteq Made /\ StopsOK(tasks, abandoned)
      BY TheTasks DEF ScalarsOK
    <2>2. \A t \in abandoned \cup {o} : ts[t].kind \in {"local", "spawned"} =>
                                         ts[t].state \in {"over", "cancelled"}
      <3> SUFFICES ASSUME NEW t \in abandoned \cup {o}, ts[t].kind \in {"local", "spawned"}
                   PROVE  ts[t].state \in {"over", "cancelled"}
        OBVIOUS
      <3>1. CASE t = o
        BY <1>3, <1>5, <1>8, <1>11, <3>1
      <3>2. CASE t # o
        BY <1>5, <2>1, <3>2 DEF StopsOK
      <3> QED BY <3>1, <3>2
    <2> QED BY <1>3, <1>6, <2>1, <2>2 DEF StopsOK
  <1>13. got' \in [Ids -> 0..MaxTasks]
    BY <1>6, TheTasks DEF ScalarsOK
  <1>16. Top.at # "driving"
    BY <1>1
  <1> QED BY <1>1, <1>4, <1>5, <1>6, <1>7, <1>9, <1>10, <1>12, <1>13, <1>16, ReturnKeeps

LEMMA EndServeKeepsFutures ==
  ASSUME FuturesInv, EndServe
  PROVE  FuturesInv'
  <1>1. stack # << >> /\ Top.at = "serving" /\ Top.calls = << >>
    BY DEF EndServe, TopAt
  <1>2. UNCHANGED <<mode, manifest, flags, results, nextRuntimeRefID, outbound, begun, abandoned, got>>
    BY DEF EndServe
  <1>3. CASE Top.next = "done"
    <2>1. Return(tasks)
      BY <1>3 DEF EndServe
    <2>2. SamePlaces(tasks, tasks)
      BY DEF SamePlaces, Continues
    <2>3. /\ StopsOK(tasks, abandoned') /\ abandoned' \subseteq Made /\ got' \in [Ids -> 0..MaxTasks]
          /\ DOMAIN tasks = Made /\ TasksOK(tasks)
      BY <1>2, TheTasks DEF ScalarsOK
    <2> QED BY <1>1, <1>2, <2>1, <2>2, <2>3, ReturnKeeps
  <1>4. CASE Top.next # "done"
    <2>1. SetTop([Top EXCEPT !.at = Top.next]) /\ UNCHANGED tasks
      BY <1>4 DEF EndServe
    <2>2. Top.next \in {"checking", "pumping"}
      BY <1>1, <1>4, TheTop DEF Frame
    <2> QED BY <1>1, <1>2, <2>1, <2>2, TopMoves
  <1> QED BY <1>3, <1>4

LEMMA HostPumpKeepsFutures ==
  ASSUME FuturesInv, HostPump
  PROVE  FuturesInv'
  <1> DEFINE f == Await({}, "pumping", 0, FALSE)
  <1>1. /\ f \in Frame /\ f.own = {} /\ f.at = "pumping" /\ f.calls = << >> /\ f.from = 0
        /\ f.next = "checking"
    BY AwaitNames DEF Await, Frame
  <1>2. stack = << >> /\ stack' = << f >>
    BY DEF HostPump
  <1>3. UNCHANGED <<mode, manifest, tasks, flags, results, nextRuntimeRefID, outbound, begun, abandoned, got>>
    BY DEF HostPump
  <1> HIDE DEF f
  <1>4. DOMAIN stack = {} /\ DOMAIN stack' = {1} /\ stack'[1] = f /\ stack' \in Seq(Frame) /\ Len(stack') = 1
    BY <1>1, <1>2
  <1>5. FramesOK(tasks, stack')
    <2>1. FrameOK(tasks, f)
      BY <1>1 DEF FrameOK
    <2> QED BY <1>4, <2>1, AwaitNames DEF FramesOK
  <1>6. DrivesOK(tasks, stack')
    BY <1>1, <1>4, TheTasks DEF DrivesOK, Drives
  <1>7. WaysOK(tasks, outbound, stack', 0)
    <2>1. \A t : (1 \in DOMAIN stack' /\ stack'[1].from = t) => t = 0
      BY <1>1, <1>4
    <2>2. DOMAIN stack'[1].calls = {}
      BY <1>1, <1>4
    <2>3. \A t \in Ids : \A a, b : Way(outbound, stack', a, b, t) <=> Way(outbound, stack, a, b, t)
      BY <1>4, <2>1, <2>2, AwaitNames DEF Way
    <2>4. Continues(tasks, tasks)
      BY DEF Continues
    <2>5. \A t \in DOMAIN tasks : tasks[t].state = "asked" /\ t # 0 =>
            \A a, b \in Nat : Way(outbound, stack, a, b, t) => Way(outbound, stack', a, b, t)
      BY <2>3, TheTasks
    <2>6. \A t \in Ids : \A a, b \in Nat : Way(outbound, stack', a, b, t) => Way(outbound, stack, a, b, t)
      BY <2>3
    <2> QED BY <2>4, <2>5, <2>6, TheTasks, WaysStay
  <1>8. ScalarsOK' /\ StopsOK(tasks', abandoned')
    BY <1>3, TheTasks DEF ScalarsOK, Made
  <1> QED BY <1>3, <1>5, <1>6, <1>7, <1>8, TheTasks DEF FuturesInv

(* A further branch: its task k joins what the top frame f awaits.         *)
Branches(f, k) ==
  /\ NewTaskIs(tasks, tasks', NextId) /\ tasks'[NextId] = k /\ LoopTask(k) /\ Resets(k)
  /\ k.kind = "parallel" /\ k.idx = Cardinality(Top.own)
  /\ f \in Frame /\ f.own = Top.own \cup {NextId} /\ f.at = Top.at /\ f.from = Top.from
  /\ f.calls = Top.calls /\ f.next = Top.next
  /\ stack' = [stack EXCEPT ![Len(stack)] = f]

LEMMA BranchIs ==
  ASSUME FuturesInv, StartBranch
  PROVE  /\ \E f, k : Branches(f, k)
         /\ IsFiniteSet(Top.own) /\ Cardinality(Top.own) \in Nat
  <1> DEFINE n == Len(stack)
             c == Cardinality(Top.own)
             f == [Top EXCEPT !.own = Top.own \cup {NextId}]
  <1>1. stack # << >> /\ Top.at = "starting"
    BY DEF StartBranch, TopAt
  <1>2. PICK rt \in Loops : StartLoopTask(tasks, "parallel", rt, c, FALSE)
    BY DEF StartBranch
  <1>3. stack' = [stack EXCEPT ![n] = f]
    BY DEF StartBranch, SetTop
  <1>4. UNCHANGED <<mode, manifest, nextRuntimeRefID, outbound, begun, abandoned, got>>
    BY DEF StartBranch
  <1>5. /\ n \in DOMAIN stack /\ Top = stack[n] /\ Top \in Frame /\ FrameOK(tasks, Top)
        /\ Top.own \subseteq Made /\ stack \in Seq(Frame) /\ Top.calls = << >>
    BY <1>1, TheTop, TheTasks DEF FramesOK
  <1>6. NextId \in Ids /\ NextId = Len(tasks) + 1 /\ NextId \notin Made
    BY <1>2, TheTasks DEF StartLoopTask, NextId
  <1>7. c \in 0..MaxTasks /\ IsFiniteSet(Top.own) /\ c \in Nat
    <2>1. IsFiniteSet(Ids) /\ Cardinality(Ids) = MaxTasks
      <3>1. 1 \in Int /\ MaxTasks \in Int /\ 1 <= MaxTasks
        BY AwaitNames
      <3>2. Cardinality(1..MaxTasks) = MaxTasks - 1 + 1 /\ IsFiniteSet(1..MaxTasks)
        BY <3>1, FS_Interval
      <3> QED BY <3>1, <3>2, AwaitNames
    <2>2. Top.own \subseteq Ids
      BY <1>5, TheTasks
    <2>3. IsFiniteSet(Top.own) /\ c <= MaxTasks /\ c \in Nat
      BY <2>1, <2>2, FS_Subset, FS_CardinalityType
    <2> QED BY <2>3, AwaitNames
  <1> HIDE DEF c
  <1> DEFINE k == NewTask("parallel", rt, c, FALSE, "none")
  <1>8. k \in Task /\ LoopTask(k) /\ k.kind = "parallel" /\ k.idx = c
    BY <1>7 DEF NewTask, Task, LoopTask
  <1>9. tasks' = Append(tasks, k) /\ Resets(k)
    BY <1>2 DEF StartLoopTask, Resets, NewTask
  <1>10. /\ f \in Frame /\ f.own = Top.own \cup {NextId} /\ f.at = Top.at /\ f.from = Top.from
         /\ f.calls = Top.calls /\ f.next = Top.next
    BY <1>5, <1>6 DEF Frame
  <1> HIDE DEF k, n, f
  <1>11. NewTaskIs(tasks, tasks', NextId) /\ tasks'[NextId] = k
    <2>1. Numbered(k)
      BY <1>4, <1>8 DEF Numbered
    <2> QED BY <1>6, <1>8, <1>9, <2>1, TheTasks, StartedIs
  <1>12. Branches(f, k)
    BY <1>3, <1>8, <1>9, <1>10, <1>11 DEF Branches, c, n
  <1> QED BY <1>7, <1>12 DEF c

LEMMA StartBranchKeepsFutures ==
  ASSUME FuturesInv, StartBranch
  PROVE  FuturesInv'
  <1> DEFINE n == Len(stack)
  <1>1. stack # << >> /\ Top.at = "starting"
    BY DEF StartBranch, TopAt
  <1>2. UNCHANGED <<mode, manifest, nextRuntimeRefID, outbound, begun, abandoned, got>>
    BY DEF StartBranch
  <1>3. /\ n \in DOMAIN stack /\ Top = stack[n] /\ Top \in Frame /\ FrameOK(tasks, Top)
        /\ Top.own \subseteq Made /\ stack \in Seq(Frame) /\ Top.calls = << >>
    BY <1>1, TheTop, TheTasks DEF FramesOK
  <1>4. PICK f, k : Branches(f, k)
    BY BranchIs
  <1>5. stack' = [stack EXCEPT ![n] = f]
    BY <1>4 DEF Branches
  <1>6. k.kind = "parallel" /\ Resets(k)
    BY <1>4 DEF Branches
  <1>7. /\ f \in Frame /\ f.own = Top.own \cup {NextId} /\ f.at = Top.at /\ f.from = Top.from
        /\ f.calls = Top.calls /\ f.next = Top.next
    BY <1>4 DEF Branches
  <1>8. NewTaskIs(tasks, tasks', NextId) /\ tasks'[NextId] = k
    BY <1>4 DEF Branches
  <1> HIDE DEF n
  <1>9. /\ TasksOK(tasks') /\ Continues(tasks, tasks') /\ SamePlaces(tasks, tasks')
        /\ Len(tasks') = Len(tasks) + 1
        /\ DOMAIN tasks' = DOMAIN tasks \cup {NextId}
        /\ \A u \in DOMAIN tasks : tasks'[u] = tasks[u]
        /\ tasks'[NextId].state = "running"
    <2>1. Adds(tasks, tasks', NextId)
      BY <1>8 DEF NewTaskIs
    <2>2. TasksOK(tasks)
      BY TheTasks
    <2> QED BY <2>1, <2>2, AddsIs
  <1>10. /\ DOMAIN stack' = DOMAIN stack /\ Len(stack') = Len(stack) /\ stack'[n] = f
         /\ \A i \in DOMAIN stack : i # n => stack'[i] = stack[i]
    BY <1>5, <1>3, <1>7, SetSeq
  <1>11. FrameOK(tasks', f)
    <2>1. \A t \in f.own : tasks'[t].kind = "parallel"
      BY <1>1, <1>3, <1>6, <1>7, <1>8, <1>9 DEF FrameOK, Made
    <2>2. "parallel" \notin RustKinds
      BY DEF RustKinds
    <2>3. f.own \subseteq DOMAIN tasks' /\ f.from \in DOMAIN tasks' \cup {0}
      BY <1>3, <1>7, <1>9 DEF FrameOK, Made
    <2>4. ~RustFrame(tasks, Top)
      BY <1>1, <1>3, <2>2 DEF FrameOK, RustFrame
    <2> QED BY <1>1, <1>3, <1>7, <2>1, <2>2, <2>3, <2>4 DEF FrameOK
  <1>12. FramesOK(tasks', stack')
    BY <1>5, <1>3, <1>7, <1>9, <1>11, TheTasks, SetFrame
  <1>13. DrivesOK(tasks', stack')
    <2>1. Quiet(stack, stack')
      BY <1>1, <1>3, <1>7, <1>10 DEF Quiet
    <2>2. \A i \in DOMAIN stack : stack[i].own \subseteq DOMAIN tasks
      BY TheTasks, FramesAre
    <2>3. \A i \in DOMAIN stack : \A t \in DOMAIN tasks :
            Drives(stack, i, t) /\ tasks[t].kind = "spawned" => i = Len(stack')
      BY <1>10, TheTasks DEF DrivesOK
    <2>4. \A i \in DOMAIN stack' : \A t \in DOMAIN tasks' :
            tasks'[t].kind = "local" /\ t \in stack'[i].own => t \in DOMAIN tasks /\ t \in stack[i].own
      <3> SUFFICES ASSUME NEW i \in DOMAIN stack', NEW t \in DOMAIN tasks',
                          tasks'[t].kind = "local", t \in stack'[i].own
                   PROVE  t \in DOMAIN tasks /\ t \in stack[i].own
        OBVIOUS
      <3>1. t # NextId
        BY <1>6, <1>8
      <3>2. t \in stack[i].own
        BY <1>3, <1>7, <1>10, <3>1
      <3> QED BY <1>9, <3>1, <3>2
    <2>5. \A i, j \in DOMAIN stack' : \A t \in DOMAIN tasks' :
            tasks'[t].kind = "local" /\ t \in stack'[i].own /\ t \in stack'[j].own => i = j
      BY <1>9, <1>10, <2>4, TheTasks DEF DrivesOK
    <2> QED BY <1>9, <2>1, <2>2, <2>3, <2>5, TheTasks, QuietDrives
  <1>14. WaysOK(tasks', outbound', stack', 0)
    <2>1. \A i \in DOMAIN stack : stack'[i].from = stack[i].from /\ stack'[i].calls = stack[i].calls
      <3>1. stack'[n].from = stack[n].from /\ stack'[n].calls = stack[n].calls
        <4>1. stack'[n] = f /\ Top = stack[n]
          BY <1>3, <1>10
        <4>2. f.from = Top.from /\ f.calls = Top.calls
          BY <1>7
        <4> QED BY <4>1, <4>2
      <3> QED BY <1>10, <3>1
    <2>2. \A u \in DOMAIN tasks' : tasks'[u].state = "asked" => u \in DOMAIN tasks /\ tasks[u].state = "asked"
      BY <1>9
    <2>3. WaysOK(tasks', outbound, stack', 0)
      BY <1>9, <1>10, <2>1, <2>2, TheTasks, SetWays
    <2> QED BY <1>2, <2>3
  <1>15. StopsOK(tasks', abandoned')
    BY <1>2, <1>9, TheTasks, StopsStay DEF ScalarsOK, Made
  <1>16. ScalarsOK'
    <2>1. flags' \subseteq Variables /\ results' \in [Variables -> 0..MaxTasks]
      BY <1>6, TheTasks, ResetsKeep
    <2>2. nextRuntimeRefID' \in [Manifests -> 0..Len(tasks')]
      <3>1. Len(tasks) \in Nat /\ Len(tasks') = Len(tasks) + 1
        BY <1>2, <1>9, TheTasks
      <3>2. nextRuntimeRefID \in [Manifests -> 0..Len(tasks')]
        BY <3>1, TheTasks, NumbersStay
      <3> QED BY <1>2, <1>9, <3>2
    <2>3. begun' \in 0..MaxBegun
      BY <1>2, TheTasks DEF ScalarsOK
    <2> QED BY <1>2, <1>9, <2>1, <2>2, <2>3, TheTasks, ScalarsKeep
  <1> QED BY <1>9, <1>12, <1>13, <1>14, <1>15, <1>16 DEF FuturesInv

(* Only the top frame may drive a spawned future.                          *)
LEMMA SpawnedAtTop ==
  ASSUME FuturesInv, stack = << >> \/ Top.at # "driving" \/ \E t \in Top.own : tasks[t].kind # "spawned"
  PROVE  \A i \in DOMAIN stack : \A t \in Made : Drives(stack, i, t) => tasks[t].kind # "spawned"
  <1> SUFFICES ASSUME NEW i \in DOMAIN stack, NEW t \in Made, Drives(stack, i, t),
                      tasks[t].kind = "spawned"
               PROVE  FALSE
    OBVIOUS
  <1>1. i = Len(stack)
    BY TheTasks DEF DrivesOK
  <1>2. stack # << >>
    <2>1. DOMAIN stack # {}
      OBVIOUS
    <2> QED BY <2>1
  <1>3. Top = stack[Len(stack)] /\ FrameOK(tasks, Top)
    BY <1>2, TheTop
  <1>4. Top.at = "driving" /\ t \in Top.own
    BY <1>1, <1>3 DEF Drives
  <1>5. RustFrame(tasks, Top)
    BY <1>3, <1>4 DEF FrameOK
  <1>6. Top.own = {t}
    BY <1>4, <1>5 DEF RustFrame
  <1> QED BY <1>2, <1>4, <1>6

(* An op of the executor, or of a branch.                                  *)
LEMMA OpKeepsFutures ==
  ASSUME FuturesInv, Op \/ SyncBranch
  PROVE  FuturesInv'
  <1>1. Begin(tasks, stack, 0, FALSE) /\ UNCHANGED <<mode, manifest, outbound, abandoned, got>>
    BY DEF Op, SyncBranch
  <1>2. stack = << >> \/ Top.at # "driving"
    BY DEF Op, SyncBranch, TopAt
  <1>3. \A i \in DOMAIN stack : \A t \in DOMAIN tasks : Drives(stack, i, t) => tasks[t].kind # "spawned"
    BY <1>2, SpawnedAtTop DEF Made
  <1>4. Continues(tasks, tasks) /\ DOMAIN tasks = Made
    BY DEF Continues, Made
  <1> QED BY <1>1, <1>3, <1>4, TheTasks, BeginKeeps

(* What may run on the Golden Thread while the top frame drives.           *)
LEMMA PolledIs ==
  ASSUME FuturesInv, NEW t \in Made, Polled(t)
  PROVE  /\ tasks[t].state = "running"
         /\ Top.at # "driving" \/ \E o \in Top.own : tasks[o].kind # "spawned"
  <1>1. tasks[t].state = "running"
    BY DEF Polled
  <1>2. TopAt("pumping") => Top.at # "driving"
    BY DEF TopAt
  <1>3. CASE ~IsRust(t)
    BY <1>1, <1>2, <1>3 DEF Polled
  <1>4. CASE IsRust(t)
    BY <1>1, <1>2, <1>4 DEF Polled
  <1> QED BY <1>1, <1>3, <1>4

LEMMA CallOutKeepsFutures ==
  ASSUME FuturesInv, NEW t \in Made, CallOut(t)
  PROVE  FuturesInv'
  <1> DEFINE ts == SetState(tasks, t, "calling")
             inside == IsRust(t)
  <1>1. Polled(t) /\ Begin(ts, stack, t, inside) /\ UNCHANGED <<mode, manifest, outbound, abandoned, got>>
    BY DEF CallOut, SetState
  <1>2. inside \in BOOLEAN
    BY DEF IsRust
  <1>3. /\ tasks[t].state = "running"
        /\ Top.at # "driving" \/ \E o \in Top.own : tasks[o].kind # "spawned"
    BY <1>1, PolledIs
  <1> HIDE DEF ts, inside
  <1>4. TasksOK(ts) /\ Continues(tasks, ts) /\ OnlyAt(tasks, ts, t, "calling", tasks[t].place)
    <2>1. ~(tasks[t].kind \in {"local", "spawned"} /\ tasks[t].kind \in RustKinds /\ tasks[t].place = "none")
      BY <1>3, TheTasks DEF KindOK
    <2>2. tasks[t].kind \in RustKinds =>
            (tasks[t].kind \in {"local", "spawned"} /\ tasks[t].place = "none"
               => "calling" \in {"over", "cancelled"})
      BY <2>1
    <2> QED BY <2>2, TheTasks, StateChanges DEF ts
  <1>5. /\ DOMAIN ts = Made /\ Len(ts) = Len(tasks) /\ t \in DOMAIN ts
        /\ ts[t].state = "calling" /\ ts[t].place = tasks[t].place
        /\ \A u \in Made : u # t => ts[u] = tasks[u]
    BY <1>4 DEF OnlyAt, Made
  <1>6. SamePlaces(tasks, ts)
    BY <1>4, <1>5 DEF SamePlaces, Made
  <1>7. FramesOK(ts, stack)
    BY <1>4, TheTasks, FrameStays DEF FramesOK
  <1>8. \A i \in DOMAIN stack : \A u \in DOMAIN ts : Drives(stack, i, u) => ts[u].kind # "spawned"
    BY <1>3, <1>4, <1>5, SpawnedAtTop DEF Continues, Made
  <1>9. DrivesOK(ts, stack)
    <2>1. Quiet(stack, stack)
      BY DEF Quiet
    <2>2. \A i \in DOMAIN stack : stack[i].own \subseteq DOMAIN tasks
      BY TheTasks, FramesAre
    <2>3. \A i \in DOMAIN stack : \A u \in DOMAIN tasks :
            Drives(stack, i, u) /\ tasks[u].kind = "spawned" => i = Len(stack)
      BY TheTasks DEF DrivesOK
    <2>4. \A i, j \in DOMAIN stack : \A u \in DOMAIN ts :
            ts[u].kind = "local" /\ u \in stack[i].own /\ u \in stack[j].own => i = j
      BY <1>4, <1>5, TheTasks DEF DrivesOK, Continues
    <2> QED BY <1>6, <2>1, <2>2, <2>3, <2>4, TheTasks, QuietDrives
  <1>10. StopsOK(ts, abandoned)
    <2>1. abandoned \subseteq DOMAIN tasks
      BY TheTasks DEF ScalarsOK
    <2>2. \A u \in DOMAIN tasks : tasks[u].state \in {"over", "cancelled"} =>
                                   ts[u].state \in {"over", "cancelled"}
      BY <1>3, <1>5 DEF Made
    <2> QED BY <1>4, <2>1, <2>2, TheTasks, StopsStay
  <1>11. NoWay(outbound, stack, t)
    BY <1>3, TheTasks DEF WaysOK, NoWay, Suspended
  <1>12. WaysOK(ts, outbound, stack, t)
    <2>1. \A u \in DOMAIN tasks : tasks[u].state \in Suspended =>
            ts[u].state \in Suspended \/ NoWay(outbound, stack, u)
      BY <1>5, <1>11 DEF Made
    <2>2. \A u \in DOMAIN ts : ts[u].state = "asked" /\ u # t =>
            /\ u # 0 /\ u \in DOMAIN tasks /\ tasks[u].state = "asked"
      BY <1>5, TheTasks, AwaitNames DEF Made
    <2>3. \A u \in DOMAIN ts : ts[u].state = "asked" /\ u # t =>
            /\ u # 0 /\ u \in DOMAIN tasks /\ tasks[u].state = "asked"
            /\ \A a, b \in Nat : Way(outbound, stack, a, b, u) => Way(outbound, stack, a, b, u)
      BY <2>2
    <2> QED BY <1>4, <2>1, <2>3, TheTasks, WaysStay
  <1>13. t \in DOMAIN ts \cup {0} /\ ts[t].state \in Suspended
    BY <1>5 DEF Suspended
  <1> QED BY <1>1, <1>2, <1>4, <1>5, <1>7, <1>8, <1>9, <1>10, <1>11, <1>12, <1>13, BeginKeeps

(* The call at the head of the top frame's calls leaves them.              *)
LEMMA CallLeaves ==
  ASSUME FuturesInv, stack # << >>, Top.at = "serving", Top.calls # << >>,
         NEW below, below = [stack EXCEPT ![Len(stack)].calls = Tail(@)]
  PROVE  LET c == Head(Top.calls)
         IN  /\ FramesOK(tasks, below) /\ DrivesOK(tasks, below) /\ Len(below) = Len(stack)
             /\ WaysOK(tasks, outbound, below, c) /\ NoWay(outbound, below, c)
             /\ c \in Made /\ c # 0 /\ tasks[c].state \in Suspended
             /\ \A i \in DOMAIN below : \A t \in DOMAIN tasks :
                  Drives(below, i, t) => tasks[t].kind # "spawned"
  <1> DEFINE n == Len(stack)
             c == Head(Top.calls)
             f == [Top EXCEPT !.calls = Tail(Top.calls)]
  <1>1. /\ n \in DOMAIN stack /\ Top = stack[n] /\ Top \in Frame /\ FrameOK(tasks, Top)
        /\ stack \in Seq(Frame)
    BY TheTop, TheTasks DEF FramesOK
  <1>2. Top.calls \in Seq(Ids) /\ Tail(Top.calls) \in Seq(Ids)
    BY <1>1 DEF Frame
  <1>3. /\ f \in Frame /\ f.at = Top.at /\ f.own = Top.own /\ f.from = Top.from /\ f.next = Top.next
        /\ f.calls = Tail(Top.calls)
    BY <1>1, <1>2 DEF Frame
  <1>4. below = [stack EXCEPT ![n] = f]
    BY <1>1
  <1> HIDE DEF f, n
  <1>5. /\ DOMAIN below = DOMAIN stack /\ Len(below) = Len(stack) /\ below[n] = f
        /\ \A i \in DOMAIN stack : i # n => below[i] = stack[i]
    BY <1>1, <1>3, <1>4, SetSeq
  <1>6. FramesOK(tasks, below)
    <2>1. RustFrame(tasks, Top) => RustFrame(tasks, f)
      BY <1>3 DEF RustFrame
    <2>2. FrameOK(tasks, f)
      BY <1>1, <1>3, <2>1 DEF FrameOK
    <2>3. Continues(tasks, tasks)
      BY DEF Continues
    <2> QED BY <1>1, <1>3, <1>4, <2>2, <2>3, TheTasks, SetFrame
  <1>7. \A i \in DOMAIN stack : /\ below[i].own = stack[i].own
                                /\ below[i].at = "driving" <=> stack[i].at = "driving"
    BY <1>1, <1>3, <1>5
  <1>8. DrivesOK(tasks, below)
    BY <1>5, <1>7, TheTasks DEF DrivesOK, Drives
  <1>9. \A i \in DOMAIN below : \A t \in DOMAIN tasks :
          Drives(below, i, t) => tasks[t].kind # "spawned"
    <2>1. \A i \in DOMAIN stack : \A t \in Made : Drives(stack, i, t) => tasks[t].kind # "spawned"
      BY SpawnedAtTop
    <2> QED BY <1>5, <1>7, <2>1 DEF Drives, Made
  <1>10. /\ WaysOK(tasks, outbound, below, c) /\ NoWay(outbound, below, c)
         /\ c \in Ids /\ c \in DOMAIN tasks /\ tasks[c].state \in Suspended
    <2>1. /\ stack[n].calls # << >> /\ below[n].calls = Tail(stack[n].calls)
          /\ below[n].from = stack[n].from
      BY <1>1, <1>3, <1>5
    <2>2. LET d == Head(stack[n].calls)
          IN  /\ WaysOK(tasks, outbound, below, d) /\ NoWay(outbound, below, d)
              /\ d \in Ids /\ d \in DOMAIN tasks /\ tasks[d].state \in Suspended
      BY <1>1, <1>5, <2>1, TheTasks, TailWays
    <2> QED BY <1>1, <2>2
  <1>11. c \in Made /\ c # 0
    BY <1>10, AwaitNames DEF Made
  <1> HIDE DEF c
  <1> QED BY <1>5, <1>6, <1>8, <1>9, <1>10, <1>11 DEF c

LEMMA ServeCallKeepsFutures ==
  ASSUME FuturesInv, ServeCall
  PROVE  FuturesInv'
  <1> DEFINE below == [stack EXCEPT ![Len(stack)].calls = Tail(@)]
             c == Head(Top.calls)
  <1>1. stack # << >> /\ Top.at = "serving" /\ Top.calls # << >>
    BY DEF ServeCall, TopAt
  <1>2. UNCHANGED <<mode, manifest, outbound, abandoned, got>>
    BY DEF ServeCall
  <1>3. \/ /\ stack' = below /\ tasks' = Resumed(tasks, c)
           /\ UNCHANGED <<flags, results, nextRuntimeRefID, begun>>
        \/ Begin(tasks, below, c, FALSE)
    BY DEF ServeCall
  <1>4. /\ FramesOK(tasks, below) /\ DrivesOK(tasks, below) /\ Len(below) = Len(stack)
        /\ WaysOK(tasks, outbound, below, c) /\ NoWay(outbound, below, c)
        /\ c \in Made /\ c # 0 /\ tasks[c].state \in Suspended
        /\ \A i \in DOMAIN below : \A t \in DOMAIN tasks :
             Drives(below, i, t) => tasks[t].kind # "spawned"
    BY <1>1, CallLeaves
  <1> HIDE DEF below, c
  <1>5. CASE Begin(tasks, below, c, FALSE)
    <2>1. Continues(tasks, tasks) /\ DOMAIN tasks = Made /\ c \in DOMAIN tasks \cup {0}
      BY <1>4 DEF Continues, Made
    <2> QED BY <1>2, <1>4, <1>5, <2>1, TheTasks, BeginKeeps
  <1>6. CASE /\ stack' = below /\ tasks' = Resumed(tasks, c)
             /\ UNCHANGED <<flags, results, nextRuntimeRefID, begun>>
    <2>1. c \in DOMAIN tasks \cup {0}
      BY <1>4 DEF Made
    <2>2. /\ TasksOK(tasks') /\ Continues(tasks, tasks') /\ SamePlaces(tasks, tasks')
          /\ DOMAIN tasks' = DOMAIN tasks /\ Len(tasks') = Len(tasks)
          /\ \A t \in DOMAIN tasks : \/ tasks'[t] = tasks[t]
                                     \/ tasks[t].state \in {"calling", "asked"} /\ tasks'[t].state = "running"
      BY <1>6, <2>1, TheTasks, ResumedIs
    <2>3. FramesOK(tasks', stack')
      BY <1>4, <1>6, <2>2, FrameStays DEF FramesOK
    <2>4. DrivesOK(tasks', stack')
      <3>1. Quiet(below, below)
        BY DEF Quiet
      <3>2. \A i \in DOMAIN below : below[i].own \subseteq DOMAIN tasks
        BY <1>4, FramesAre
      <3>3. \A i \in DOMAIN below : \A u \in DOMAIN tasks :
              Drives(below, i, u) /\ tasks[u].kind = "spawned" => i = Len(below)
        BY <1>4
      <3>4. \A i, j \in DOMAIN below : \A u \in DOMAIN tasks' :
              tasks'[u].kind = "local" /\ u \in below[i].own /\ u \in below[j].own => i = j
        BY <1>4, <2>2 DEF DrivesOK, Continues
      <3> QED BY <1>4, <1>6, <2>2, <3>1, <3>2, <3>3, <3>4, QuietDrives
    <2>5. WaysOK(tasks', outbound', stack', 0)
      BY <1>2, <1>4, <1>6, <2>1, TheTasks, ResumedWays
    <2>6. StopsOK(tasks', abandoned')
      <3>1. abandoned \subseteq DOMAIN tasks
        BY TheTasks DEF ScalarsOK
      <3>2. \A u \in DOMAIN tasks : tasks[u].state \in {"over", "cancelled"} =>
                                     tasks'[u].state \in {"over", "cancelled"}
        BY <2>2
      <3>3. StopsOK(tasks', abandoned)
        BY <2>2, <3>1, <3>2, TheTasks, StopsStay
      <3> QED BY <1>2, <3>3
    <2>7. ScalarsOK'
      BY <1>2, <1>6, <2>2, TheTasks DEF ScalarsOK, Made
    <2> QED BY <2>2, <2>3, <2>4, <2>5, <2>6, <2>7 DEF FuturesInv
  <1> QED BY <1>3, <1>5, <1>6

(* Another manifest runs.                                                  *)
LEMMA EnterKeepsFutures ==
  ASSUME FuturesInv, NEW m \in Manifests, EnterManifest(m)
  PROVE  FuturesInv'
  <1>1. /\ manifest' = m
        /\ UNCHANGED <<mode, tasks, flags, results, nextRuntimeRefID, outbound, stack, begun,
                       abandoned, got>>
    BY DEF EnterManifest
  <1>2. ScalarsOK'
    BY <1>1 DEF FuturesInv, ScalarsOK, Made
  <1> QED BY <1>1, <1>2 DEF FuturesInv

LEMMA FuturesNext ==
  ASSUME FuturesInv, [AwaitsNext]_awaitsVars
  PROVE  FuturesInv'
  <1>1. CASE Op \/ SyncBranch
    BY <1>1, OpKeepsFutures
  <1>2. CASE StartBranch
    BY <1>2, StartBranchKeepsFutures
  <1>3. CASE HostPump
    BY <1>3, HostPumpKeepsFutures
  <1>4. CASE Loop
    BY <1>4, MovesKeepFutures, CollectKeepsFutures, TimeOutKeepsFutures, EndPumpKeepsFutures,
       TimeOutRustKeepsFutures, StartDriveKeepsFutures, NotFoundKeepsFutures,
       EndDriveKeepsFutures, ServeCallKeepsFutures, EndServeKeepsFutures DEF Loop
  <1>5. ASSUME NEW t \in Made, Finish(t) \/ Ask(t) \/ CallOut(t)
        PROVE  FuturesInv'
    BY <1>5, TaskEnds, TaskAsks, CallOutKeepsFutures
  <1>6. CASE SpawnBackground \/ SpawnSend \/ SpawnBlocking
    BY <1>6, SpawnKeepsFutures
  <1>7. ASSUME NEW i \in 1..MaxDepth, Expire(i)
        PROVE  FuturesInv'
    BY <1>7, ExpireKeepsFutures
  <1>8. CASE UNCHANGED awaitsVars
    BY <1>8 DEF awaitsVars, FuturesInv, ScalarsOK, Made
  <1>9. ASSUME NEW m \in Manifests, EnterManifest(m)
        PROVE  FuturesInv'
    BY <1>9, EnterKeepsFutures
  <1> QED BY <1>1, <1>2, <1>3, <1>4, <1>5, <1>6, <1>7, <1>8, <1>9 DEF AwaitsNext

LEMMA FuturesHold == AwaitsSpec => []FuturesInv
  <1>1. AwaitsInit => FuturesInv
    BY FuturesInit
  <1>2. FuturesInv /\ [AwaitsNext]_awaitsVars => FuturesInv'
    BY FuturesNext
  <1> QED BY <1>1, <1>2, PTL DEF AwaitsSpec

(* The ways of a task as Awaits counts them.                               *)
LEMMA WayOfTask ==
  ASSUME NEW t, NEW w
  PROVE  w \in Ways(t) <=> \E a, b : w = <<a, b>> /\ Way(outbound, stack, a, b, t)
  BY DEF Ways, Way

LEMMA OneWay ==
  ASSUME FuturesInv, NEW t \in Made, tasks[t].state = "asked"
  PROVE  Cardinality(Ways(t)) = 1
  <1>1. t \in Ids /\ t # 0
    BY TheTasks, AwaitNames
  <1>2. PICK a \in Nat, b \in Nat : Way(outbound, stack, a, b, t)
    BY <1>1, TheTasks DEF WaysOK, Made
  <1>3. \A d, e : Way(outbound, stack, d, e, t) => d \in Nat /\ e \in Nat
    <2>1. \A j \in DOMAIN outbound : j \in Nat
      BY TheTasks DEF ScalarsOK
    <2>2. \A i \in DOMAIN stack : i \in Nat /\ stack[i].calls \in Seq(Ids)
      BY TheTasks, FramesAre
    <2>3. \A i \in DOMAIN stack : \A j \in DOMAIN stack[i].calls : j \in Nat
      BY <2>2
    <2> QED BY <2>1, <2>2, <2>3 DEF Way
  <1>4. \A d, e : Way(outbound, stack, d, e, t) => d = a /\ e = b
    BY <1>1, <1>2, <1>3, TheTasks DEF WaysOK
  <1>5. Ways(t) = {<<a, b>>}
    BY <1>2, <1>4, WayOfTask
  <1> QED BY <1>5, FS_Singleton

LEMMA FuturesAreTyped == ASSUME FuturesInv PROVE AwaitsTypeOK
  <1>1. Len(tasks) <= MaxTasks /\ Len(tasks) \in Nat
    BY TheTasks DEF TasksOK
  <1>2. nextRuntimeRefID \in [Manifests -> 0..MaxTasks]
    BY <1>1, TheTasks, AwaitNames, NumbersStay
  <1>3. Len(stack) <= MaxDepth /\ \A i \in DOMAIN stack : stack[i] \in Frame
    BY TheTasks, FramesAre DEF FramesOK
  <1>4. \A t \in Made : tasks[t].place = "driven" <=>
          \E i \in DOMAIN stack : stack[i].at = "driving" /\ t \in stack[i].own
    BY TheTasks DEF DrivesOK, Drives, Made
  <1>5. abandoned \subseteq Ids
    BY TheTasks DEF ScalarsOK
  <1> QED BY <1>1, <1>2, <1>3, <1>4, <1>5, TheTasks DEF AwaitsTypeOK, ScalarsOK

(* No bridge call of a future gets lost or is served twice, however        *)
(* drives, pumps, nested awaits and timeouts follow each other, and a      *)
(* future whose await timed out does not run on.                           *)
THEOREM FuturesStayKept == AwaitsSpec => []FuturesAreKept
  <1>1. FuturesInv => FuturesAreKept
    <2> SUFFICES ASSUME FuturesInv PROVE FuturesAreKept
      OBVIOUS
    <2>1. CallsAreKept
      BY OneWay DEF CallsAreKept
    <2>2. AbandonedStops
      BY TheTasks DEF AbandonedStops, StopsOK
    <2> QED BY <2>1, <2>2, FuturesAreTyped DEF FuturesAreKept
  <1> QED BY <1>1, FuturesHold, PTL

----------------------------------------------------------------------------
(* Awaits: whose results are returned                                      *)

(* Frame i awaits t, a task of an event loop.                              *)
Owns(ts, st, i, t) == /\ i \in DOMAIN st /\ t \in st[i].own
                      /\ t \in DOMAIN ts /\ ts[t].kind \notin RustKinds
FlagOf(k) == <<k.rt, k.kind, k.idx>>
ResultOf(k) == IF k.bind THEN <<k.rt, "bound", 0>> ELSE FlagOf(k)

(* A task is awaited until it ends or is abandoned, tasks that are awaited *)
(* further out are older, and those of one frame are branches with         *)
(* variables of their own; the references of a manifest have numbers of    *)
(* their own, and those that are awaited are of the manifest that runs.    *)
OwnersOK(ts, st, ab, rid, cur) ==
  /\ \A t \in DOMAIN ts : ts[t].kind \notin RustKinds /\ ts[t].state # "over" =>
       t \in ab \/ \E i \in DOMAIN st : Owns(ts, st, i, t)
  /\ \A t, u \in DOMAIN ts :
       ts[t].kind = "ref" /\ ts[u].kind = "ref" /\ ts[t].by = ts[u].by /\ ts[t].idx = ts[u].idx
         => t = u
  /\ \A t \in DOMAIN ts : ts[t].kind = "ref" =>
       ts[t].by \in Manifests /\ ts[t].idx <= rid[ts[t].by]
  /\ \A i, t : Owns(ts, st, i, t) /\ ts[t].kind = "ref" => ts[t].by = cur
  /\ \A i, j \in DOMAIN st : \A t, u \in DOMAIN ts :
       Owns(ts, st, i, t) /\ Owns(ts, st, j, u) /\ i < j => t < u
  /\ \A i \in DOMAIN st : \A t, u \in DOMAIN ts :
       Owns(ts, st, i, t) /\ Owns(ts, st, i, u) /\ t # u =>
         ts[t].kind = "parallel" /\ ts[u].kind = "parallel" /\ ts[t].idx # ts[u].idx
  /\ \A i \in DOMAIN st : st[i].at = "starting" =>
       \A t \in st[i].own : ts[t].idx < Cardinality(st[i].own)

(* What is in the variables of a task that is awaited: nothing, its own    *)
(* result, or that of a task that may mislead it.  What a variable of a    *)
(* reference held before its await began does not count: it is returned    *)
(* only where one of another manifest has set the flag, and one of the two *)
(* binds its result.                                                       *)
Misled(st, ab, i, t, u) == u \in ab \/ t < u \/ \E j \in DOMAIN st : j < i /\ u \in st[j].own
Crosses(ts, ab, t, u) ==
  /\ u \in ab /\ u \in DOMAIN ts /\ ts[u].kind = "ref"
  /\ FlagOf(ts[u]) = FlagOf(ts[t]) /\ ts[u].by # ts[t].by
Gets(ts, st, ab, i, t, u) ==
  \/ u \in {0, t}
  \/ (ts[t].kind # "ref" \/ ts[t].bind) /\ Misled(st, ab, i, t, u)
  \/ Crosses(ts, ab, t, u)
Determined(ts, ab, fl, t) ==
  \/ ts[t].kind # "ref" \/ ts[t].state = "over"
  \/ /\ ~ts[t].bind /\ FlagOf(ts[t]) \in fl
     /\ \A u : Crosses(ts, ab, t, u) => ~ts[u].bind
Sees(ts, st, ab, fl, rs, i, t) ==
  /\ ts[t].kind = "ref" /\ FlagOf(ts[t]) \in fl =>
       ts[t].state = "over" \/ \E u : Crosses(ts, ab, t, u)
  /\ Determined(ts, ab, fl, t) => Gets(ts, st, ab, i, t, rs[ResultOf(ts[t])])
ResultsOK(ts, st, ab, fl, rs, gt) ==
  /\ \A t \in Ids : t \notin DOMAIN ts => gt[t] = 0
  /\ \A i \in DOMAIN st : \A t \in DOMAIN ts :
       Owns(ts, st, i, t) => gt[t] = 0 /\ Sees(ts, st, ab, fl, rs, i, t)

ResultsInv == /\ OwnersOK(tasks, stack, abandoned, nextRuntimeRefID, manifest)
              /\ ResultsOK(tasks, stack, abandoned, flags, results, got)

(* The frames of rt are those of st, where they await tasks of event loops.*)
Narrows(ts, us, st, rt) ==
  /\ \A i, t : Owns(us, rt, i, t) => Owns(ts, st, i, t) /\ t \in DOMAIN ts /\ i \in DOMAIN st
  /\ \A i \in DOMAIN rt : rt[i].at = "starting" =>
       /\ i \in DOMAIN st /\ st[i].at = "starting"
       /\ rt[i].own = st[i].own /\ st[i].own \subseteq DOMAIN ts
  /\ \A i \in DOMAIN st \cap DOMAIN rt : \A j \in DOMAIN st :
       j < i => j \in DOMAIN rt /\ rt[j].own = st[j].own

(* No task of an event loop begins or ends.                                *)
SameLoops(ts, us) ==
  /\ Continues(ts, us)
  /\ \A t \in DOMAIN us : t \notin DOMAIN ts => us[t].kind \in RustKinds
  /\ \A t \in DOMAIN ts : ts[t].kind \notin RustKinds =>
       (us[t].state = "over" <=> ts[t].state = "over")

LEMMA OwnersStay ==
  ASSUME NEW ts, NEW us, NEW st, NEW rt, NEW ab, NEW bb, NEW rid, NEW cur,
         OwnersOK(ts, st, ab, rid, cur), SameLoops(ts, us), Narrows(ts, us, st, rt), ab \subseteq bb,
         \A i, t : Owns(ts, st, i, t) => Owns(us, rt, i, t) \/ t \in bb \/ us[t].state = "over"
  PROVE  OwnersOK(us, rt, bb, rid, cur)
  <1>1. \A t \in DOMAIN us : us[t].kind \notin RustKinds =>
          /\ t \in DOMAIN ts /\ ts[t].kind \notin RustKinds
          /\ us[t].kind = ts[t].kind /\ us[t].idx = ts[t].idx /\ us[t].by = ts[t].by
          /\ us[t].state = "over" <=> ts[t].state = "over"
    BY DEF SameLoops, Continues
  <1>2. \A i, t : Owns(us, rt, i, t) => /\ Owns(ts, st, i, t) /\ t \in DOMAIN ts /\ i \in DOMAIN st
                                        /\ us[t].kind = ts[t].kind /\ us[t].idx = ts[t].idx
                                        /\ us[t].by = ts[t].by
    BY <1>1 DEF Narrows, Owns
  <1>3. \A t \in DOMAIN us : us[t].kind \notin RustKinds /\ us[t].state # "over" =>
          t \in bb \/ \E i \in DOMAIN rt : Owns(us, rt, i, t)
    <2> SUFFICES ASSUME NEW t \in DOMAIN us, us[t].kind \notin RustKinds, us[t].state # "over",
                        t \notin bb
                 PROVE  \E i \in DOMAIN rt : Owns(us, rt, i, t)
      OBVIOUS
    <2>1. PICK i \in DOMAIN st : Owns(ts, st, i, t)
      BY <1>1 DEF OwnersOK
    <2>2. Owns(us, rt, i, t)
      BY <2>1
    <2> QED BY <2>2 DEF Owns
  <1>4. /\ \A t, u \in DOMAIN us :
             us[t].kind = "ref" /\ us[u].kind = "ref" /\ us[t].by = us[u].by
               /\ us[t].idx = us[u].idx => t = u
        /\ \A t \in DOMAIN us : us[t].kind = "ref" =>
             us[t].by \in Manifests /\ us[t].idx <= rid[us[t].by]
    BY <1>1 DEF OwnersOK, RustKinds
  <1>8. \A i, t : Owns(us, rt, i, t) /\ us[t].kind = "ref" => us[t].by = cur
    BY <1>2 DEF OwnersOK
  <1>5. \A i, j \in DOMAIN rt : \A t, u \in DOMAIN us :
          Owns(us, rt, i, t) /\ Owns(us, rt, j, u) /\ i < j => t < u
    BY <1>2 DEF OwnersOK
  <1>6. \A i \in DOMAIN rt : \A t, u \in DOMAIN us :
          Owns(us, rt, i, t) /\ Owns(us, rt, i, u) /\ t # u =>
            us[t].kind = "parallel" /\ us[u].kind = "parallel" /\ us[t].idx # us[u].idx
    BY <1>2 DEF OwnersOK
  <1>7. \A i \in DOMAIN rt : rt[i].at = "starting" =>
          \A t \in rt[i].own : us[t].idx < Cardinality(rt[i].own)
    BY DEF OwnersOK, Narrows, SameLoops, Continues
  <1> QED BY <1>3, <1>4, <1>5, <1>6, <1>7, <1>8 DEF OwnersOK

LEMMA MisledStays ==
  ASSUME NEW ts, NEW us, NEW st, NEW rt, Narrows(ts, us, st, rt), NEW ab, NEW bb, ab \subseteq bb,
         NEW i \in DOMAIN st \cap DOMAIN rt, NEW t, NEW u, Misled(st, ab, i, t, u)
  PROVE  Misled(rt, bb, i, t, u)
  BY DEF Misled, Narrows

LEMMA CrossesStay ==
  ASSUME NEW ts, NEW us, Continues(ts, us), NEW ab, NEW bb, ab \subseteq bb, NEW t \in DOMAIN ts,
         NEW u, Crosses(ts, ab, t, u)
  PROVE  Crosses(us, bb, t, u)
  BY DEF Crosses, Continues, FlagOf

LEMMA ResultsStay ==
  ASSUME NEW ts, NEW us, NEW st, NEW rt, NEW ab, NEW bb, NEW fl, NEW rs, NEW gt, NEW ht,
         ResultsOK(ts, st, ab, fl, rs, gt), SameLoops(ts, us), Narrows(ts, us, st, rt),
         ab \subseteq bb,
         \A i, t : Owns(us, rt, i, t) => ht[t] = gt[t],
         \A t \in Ids : t \notin DOMAIN us => ht[t] = gt[t]
  PROVE  ResultsOK(us, rt, bb, fl, rs, ht)
  <1>1. ASSUME NEW i \in DOMAIN rt, NEW t \in DOMAIN us, Owns(us, rt, i, t)
        PROVE  ht[t] = 0 /\ Sees(us, rt, bb, fl, rs, i, t)
    <2>1. Owns(ts, st, i, t) /\ t \in DOMAIN ts /\ i \in DOMAIN st
      BY <1>1 DEF Narrows
    <2>2. gt[t] = 0 /\ Sees(ts, st, ab, fl, rs, i, t)
      BY <2>1 DEF ResultsOK
    <2>3. /\ us[t].kind = ts[t].kind /\ us[t].bind = ts[t].bind
          /\ us[t].state = "over" <=> ts[t].state = "over"
          /\ FlagOf(us[t]) = FlagOf(ts[t]) /\ ResultOf(us[t]) = ResultOf(ts[t])
      BY <1>1, <2>1 DEF SameLoops, Continues, Owns, FlagOf, ResultOf
    <2>4. \A u : Misled(st, ab, i, t, u) => Misled(rt, bb, i, t, u)
      BY <2>1, MisledStays
    <2>6. \A u : Crosses(ts, ab, t, u) => Crosses(us, bb, t, u)
      BY <2>1, CrossesStay DEF SameLoops
    <2>5. \A u : Gets(ts, st, ab, i, t, u) => Gets(us, rt, bb, i, t, u)
      BY <2>3, <2>4, <2>6 DEF Gets
    <2>7. Determined(us, bb, fl, t) => Determined(ts, ab, fl, t)
      <3>1. \A u : Crosses(ts, ab, t, u) => us[u].bind = ts[u].bind
        BY DEF Crosses, SameLoops, Continues
      <3> QED BY <2>3, <2>6, <3>1 DEF Determined
    <2> QED BY <1>1, <2>2, <2>3, <2>5, <2>6, <2>7 DEF Sees
  <1>2. \A t \in Ids : t \notin DOMAIN us => ht[t] = 0
    BY DEF ResultsOK, SameLoops, Continues
  <1> QED BY <1>1, <1>2 DEF ResultsOK

LEMMA VariablesAre ==
  ASSUME NEW ts, TasksOK(ts), NEW t \in DOMAIN ts, ts[t].kind \notin RustKinds
  PROVE  /\ FlagOf(ts[t]) \in Variables /\ ResultOf(ts[t]) \in Variables
         /\ ts[t].idx \in Nat /\ ts[t].bind \in BOOLEAN /\ (ts[t].bind => ts[t].kind = "ref")
  <1>1. ts[t] \in Task /\ KindOK(ts[t])
    BY TasksAre
  <1>2. /\ ts[t].kind \in {"async", "parallel", "ref"} /\ ts[t].rt \in Loops
        /\ ts[t].idx \in 0..MaxTasks /\ ts[t].bind \in BOOLEAN /\ (ts[t].bind => ts[t].kind = "ref")
    BY <1>1 DEF Task, KindOK
  <1>3. <<ts[t].rt, ts[t].kind, ts[t].idx>> \in Variables
    BY <1>2 DEF Variables
  <1>4. <<ts[t].rt, "bound", 0>> \in Variables
    BY <1>2, AwaitNames DEF Variables
  <1> QED BY <1>2, <1>3, <1>4 DEF FlagOf, ResultOf

(* A task t of an event loop joins frame m, the top of the stack.          *)
Joins(ts, us, st, rt, m, t) ==
  /\ m \in DOMAIN rt /\ DOMAIN st \subseteq DOMAIN rt
  /\ \A i \in DOMAIN rt : i \in Nat /\ i <= m
  /\ \A i, u : Owns(us, rt, i, u) <=> Owns(ts, st, i, u) \/ (i = m /\ u = t)
  /\ \A u : Owns(ts, st, m, u) =>
       ts[u].kind = "parallel" /\ us[t].kind = "parallel" /\ ts[u].idx # us[t].idx
  /\ \A i \in DOMAIN rt : rt[i].at = "starting" =>
       \A u \in rt[i].own : us[u].idx < Cardinality(rt[i].own)
  /\ \A j \in DOMAIN st : j < m => rt[j].own = st[j].own
Comes(ts, us, t) ==
  /\ TasksOK(ts) /\ TasksOK(us) /\ DOMAIN us = DOMAIN ts \cup {t} /\ t \notin DOMAIN ts
  /\ \A u \in DOMAIN ts : us[u] = ts[u] /\ u < t
  /\ us[t].kind \notin RustKinds /\ us[t].state = "running"

LEMMA OwnersJoin ==
  ASSUME NEW ts, NEW us, NEW st, NEW rt, NEW m, NEW t, NEW ab, NEW rid, NEW sid,
         NEW cur \in Manifests, OwnersOK(ts, st, ab, rid, cur), Comes(ts, us, t),
         Joins(ts, us, st, rt, m, t),
         \A x \in Manifests : rid[x] \in Nat /\ sid[x] \in Nat /\ rid[x] <= sid[x],
         us[t].kind = "ref" => us[t].by = cur /\ us[t].idx = sid[cur] /\ rid[cur] < sid[cur]
  PROVE  OwnersOK(us, rt, ab, sid, cur)
  <1>1. \A u \in DOMAIN us : u # t => u \in DOMAIN ts /\ us[u] = ts[u] /\ u < t
    BY DEF Comes
  <1>2. \A u \in DOMAIN us : us[u].kind = "ref" => us[u].idx \in Nat
    BY VariablesAre DEF Comes, RustKinds
  <1>3. \A u \in DOMAIN us : us[u].kind \notin RustKinds /\ us[u].state # "over" =>
          u \in ab \/ \E i \in DOMAIN rt : Owns(us, rt, i, u)
    <2> SUFFICES ASSUME NEW u \in DOMAIN us, us[u].kind \notin RustKinds, us[u].state # "over",
                        u \notin ab
                 PROVE  \E i : Owns(us, rt, i, u)
      BY DEF Owns
    <2>1. CASE u = t
      BY <2>1 DEF Joins
    <2>2. CASE u # t
      <3>1. PICK i \in DOMAIN st : Owns(ts, st, i, u)
        BY <1>1, <2>2 DEF OwnersOK
      <3> QED BY <3>1 DEF Joins
    <2> QED BY <2>1, <2>2
  <1>4. \A u \in DOMAIN ts : ts[u].kind = "ref" =>
          ts[u].by \in Manifests /\ ts[u].idx <= rid[ts[u].by] /\ ts[u].idx \in Nat
    BY <1>1, <1>2 DEF OwnersOK, Comes
  <1>5. \A u, v \in DOMAIN us :
          us[u].kind = "ref" /\ us[v].kind = "ref" /\ us[u].by = us[v].by
            /\ us[u].idx = us[v].idx => u = v
    <2> SUFFICES ASSUME NEW u \in DOMAIN us, NEW v \in DOMAIN us, us[u].kind = "ref",
                        us[v].kind = "ref", us[u].by = us[v].by, us[u].idx = us[v].idx, u # v
                 PROVE  FALSE
      OBVIOUS
    <2>1. CASE u # t /\ v # t
      BY <1>1, <2>1 DEF OwnersOK
    <2>2. CASE u = t
      <3>1. /\ us[u].idx = sid[cur] /\ rid[cur] < sid[cur] /\ us[v].by = cur
            /\ us[v].idx <= rid[cur] /\ us[v].idx \in Nat /\ rid[cur] \in Nat /\ sid[cur] \in Nat
        BY <1>1, <1>4, <2>2
      <3> QED BY <3>1
    <2>3. CASE v = t
      <3>1. /\ us[v].idx = sid[cur] /\ rid[cur] < sid[cur] /\ us[u].by = cur
            /\ us[u].idx <= rid[cur] /\ us[u].idx \in Nat /\ rid[cur] \in Nat /\ sid[cur] \in Nat
        BY <1>1, <1>4, <2>3
      <3> QED BY <3>1
    <2> QED BY <2>1, <2>2, <2>3
  <1>6. \A u \in DOMAIN us : us[u].kind = "ref" =>
          us[u].by \in Manifests /\ us[u].idx <= sid[us[u].by]
    <2> SUFFICES ASSUME NEW u \in DOMAIN us, us[u].kind = "ref"
                 PROVE  us[u].by \in Manifests /\ us[u].idx <= sid[us[u].by]
      OBVIOUS
    <2>1. CASE u = t
      BY <1>2, <2>1
    <2>2. CASE u # t
      <3>1. us[u].by \in Manifests /\ us[u].idx <= rid[us[u].by] /\ us[u].idx \in Nat
        BY <1>1, <1>4, <2>2
      <3>2. LET x == us[u].by IN rid[x] \in Nat /\ sid[x] \in Nat /\ rid[x] <= sid[x]
        BY <3>1
      <3> QED BY <3>1, <3>2
    <2> QED BY <2>1, <2>2
  <1>7. \A i, u : Owns(us, rt, i, u) /\ u # t => /\ Owns(ts, st, i, u) /\ i \in DOMAIN st
                                                 /\ u \in DOMAIN ts /\ us[u] = ts[u] /\ u < t
    BY <1>1 DEF Joins, Owns
  <1>8. \A i : Owns(us, rt, i, t) => i = m
    <2>1. \A i : ~Owns(ts, st, i, t)
      BY DEF Comes, Owns
    <2> QED BY <2>1 DEF Joins
  <1>9. \A i, j \in DOMAIN rt : \A u, v \in DOMAIN us :
          Owns(us, rt, i, u) /\ Owns(us, rt, j, v) /\ i < j => u < v
    <2> SUFFICES ASSUME NEW i \in DOMAIN rt, NEW j \in DOMAIN rt, NEW u \in DOMAIN us,
                        NEW v \in DOMAIN us, Owns(us, rt, i, u), Owns(us, rt, j, v), i < j
                 PROVE  u < v
      OBVIOUS
    <2>1. u # t
      <3>1. i \in Nat /\ j \in Nat /\ j <= m /\ m \in Nat
        BY DEF Joins
      <3> QED BY <1>8, <3>1
    <2>2. CASE v = t
      BY <1>7, <2>1, <2>2
    <2>3. CASE v # t
      <3>1. /\ Owns(ts, st, i, u) /\ i \in DOMAIN st /\ u \in DOMAIN ts
            /\ Owns(ts, st, j, v) /\ j \in DOMAIN st /\ v \in DOMAIN ts
        BY <1>7, <2>1, <2>3
      <3> QED BY <3>1 DEF OwnersOK
    <2> QED BY <2>2, <2>3
  <1>10. \A i \in DOMAIN rt : \A u, v \in DOMAIN us :
           Owns(us, rt, i, u) /\ Owns(us, rt, i, v) /\ u # v =>
             us[u].kind = "parallel" /\ us[v].kind = "parallel" /\ us[u].idx # us[v].idx
    <2> SUFFICES ASSUME NEW i \in DOMAIN rt, NEW u \in DOMAIN us, NEW v \in DOMAIN us,
                        Owns(us, rt, i, u), Owns(us, rt, i, v), u # v
                 PROVE  us[u].kind = "parallel" /\ us[v].kind = "parallel" /\ us[u].idx # us[v].idx
      OBVIOUS
    <2>1. CASE u # t /\ v # t
      BY <1>7, <2>1 DEF OwnersOK
    <2>2. CASE u = t
      <3>1. i = m /\ Owns(ts, st, m, v) /\ us[v] = ts[v]
        BY <1>7, <1>8, <2>2
      <3> QED BY <2>2, <3>1 DEF Joins
    <2>3. CASE v = t
      <3>1. i = m /\ Owns(ts, st, m, u) /\ us[u] = ts[u]
        BY <1>7, <1>8, <2>3
      <3> QED BY <2>3, <3>1 DEF Joins
    <2> QED BY <2>1, <2>2, <2>3
  <1>12. \A i, u : Owns(us, rt, i, u) /\ us[u].kind = "ref" => us[u].by = cur
    BY <1>7 DEF OwnersOK
  <1>11. \A i \in DOMAIN rt : rt[i].at = "starting" =>
           \A u \in rt[i].own : us[u].idx < Cardinality(rt[i].own)
    BY DEF Joins
  <1> QED BY <1>3, <1>5, <1>6, <1>9, <1>10, <1>11, <1>12 DEF OwnersOK

LEMMA ResultsJoin ==
  ASSUME NEW ts, NEW us, NEW st, NEW rt, NEW m, NEW t \in Ids, NEW ab, NEW fl, NEW rs, NEW gt,
         ResultsOK(ts, st, ab, fl, rs, gt), Comes(ts, us, t), Joins(ts, us, st, rt, m, t),
         NEW gl, gl \subseteq fl, FlagOf(us[t]) \notin gl,
         NEW qs, \A v \in Variables : qs[v] \in {rs[v], 0},
         us[t].kind # "ref" => ~us[t].bind /\ qs[FlagOf(us[t])] = 0
  PROVE  ResultsOK(us, rt, ab, gl, qs, gt)
  <1>1. ASSUME NEW i \in DOMAIN rt, NEW u \in DOMAIN us, Owns(us, rt, i, u)
        PROVE  gt[u] = 0 /\ Sees(us, rt, ab, gl, qs, i, u)
    <2>1. CASE u = t
      <3>1. gt[u] = 0
        BY <2>1 DEF ResultsOK, Comes
      <3>2. us[u].state # "over" /\ FlagOf(us[u]) \notin gl
        BY <2>1 DEF Comes
      <3>3. us[u].kind = "ref" => ~Determined(us, ab, gl, u)
        BY <3>2 DEF Determined
      <3>4. us[u].kind # "ref" => qs[ResultOf(us[u])] = 0
        BY <2>1 DEF ResultOf
      <3> QED BY <3>1, <3>2, <3>3, <3>4 DEF Sees, Gets
    <2>2. CASE u # t
      <3>1. Owns(ts, st, i, u) /\ u \in DOMAIN ts /\ i \in DOMAIN st /\ us[u] = ts[u]
        BY <1>1, <2>2 DEF Joins, Owns, Comes
      <3>2. gt[u] = 0 /\ Sees(ts, st, ab, fl, rs, i, u)
        BY <3>1 DEF ResultsOK
      <3>3. ResultOf(ts[u]) \in Variables
        BY <3>1, VariablesAre DEF Owns, Comes
      <3>4. qs[ResultOf(ts[u])] \in {rs[ResultOf(ts[u])], 0}
        BY <3>3
      <3>5. \A w : Misled(st, ab, i, u, w) => Misled(rt, ab, i, u, w)
        <4>1. \A j \in DOMAIN st : j < i => j \in DOMAIN rt /\ rt[j].own = st[j].own
          <5> SUFFICES ASSUME NEW j \in DOMAIN st, j < i PROVE j \in DOMAIN rt /\ rt[j].own = st[j].own
            OBVIOUS
          <5>1. j \in DOMAIN rt /\ m \in DOMAIN rt
            BY DEF Joins
          <5>2. j \in Nat /\ i \in Nat /\ m \in Nat /\ i <= m
            BY <1>1, <5>1 DEF Joins
          <5>3. j < m
            BY <5>2
          <5> QED BY <5>1, <5>3 DEF Joins
        <4> QED BY <4>1 DEF Misled
      <3>8. \A w : Crosses(ts, ab, u, w) => Crosses(us, ab, u, w)
        BY <3>1 DEF Crosses, Comes
      <3>6. \A w : Gets(ts, st, ab, i, u, w) => Gets(us, rt, ab, i, u, w)
        BY <3>1, <3>5, <3>8 DEF Gets
      <3>7. Gets(us, rt, ab, i, u, 0)
        BY DEF Gets
      <3>9. Determined(us, ab, gl, u) => Determined(ts, ab, fl, u)
        <4>1. \A w : Crosses(ts, ab, u, w) => us[w] = ts[w]
          BY DEF Crosses, Comes
        <4> QED BY <3>1, <3>8, <4>1 DEF Determined
      <3> QED BY <3>1, <3>2, <3>4, <3>6, <3>7, <3>8, <3>9 DEF Sees
    <2> QED BY <2>1, <2>2
  <1>2. \A u \in Ids : u \notin DOMAIN us => gt[u] = 0
    BY DEF ResultsOK, Comes
  <1> QED BY <1>1, <1>2 DEF ResultsOK

(* A task of an event loop ends, and writes its variables.                 *)
LEMMA OwnersEnd ==
  ASSUME NEW ts, NEW us, NEW st, NEW ab, NEW rid, NEW cur, NEW w \in DOMAIN ts,
         OwnersOK(ts, st, ab, rid, cur), Continues(ts, us), OnlyAt(ts, us, w, "over", ts[w].place),
         \A i \in DOMAIN st : st[i].own \subseteq DOMAIN ts
  PROVE  OwnersOK(us, st, ab, rid, cur)
  <1>1. \A i, t : Owns(us, st, i, t) <=> Owns(ts, st, i, t)
    BY DEF Owns, OnlyAt, Continues
  <1>2. DOMAIN us = DOMAIN ts /\ \A t \in DOMAIN ts : /\ us[t].kind = ts[t].kind /\ us[t].idx = ts[t].idx
                                                      /\ us[t].by = ts[t].by
                                                      /\ us[t].state # "over" => ts[t].state # "over"
    BY DEF OnlyAt, Continues
  <1>3. \A i \in DOMAIN st : st[i].at = "starting" =>
          \A t \in st[i].own : us[t].idx < Cardinality(st[i].own)
    BY <1>2 DEF OwnersOK
  <1>4. \A i, t : Owns(us, st, i, t) /\ us[t].kind = "ref" => us[t].by = cur
    BY <1>1, <1>2 DEF OwnersOK, Owns
  <1> QED BY <1>1, <1>2, <1>3, <1>4 DEF OwnersOK

LEMMA ResultsEnd ==
  ASSUME NEW ts, NEW us, NEW st, NEW ab, NEW rid, NEW cur, NEW fl, NEW rs, NEW gt,
         NEW w \in DOMAIN ts, TasksOK(ts), OwnersOK(ts, st, ab, rid, cur), ResultsOK(ts, st, ab, fl, rs, gt),
         Continues(ts, us), OnlyAt(ts, us, w, "over", ts[w].place),
         ts[w].kind \notin RustKinds, ts[w].state = "running",
         \A i \in DOMAIN st : i \in Nat,
         NEW gl, gl = fl \cup {FlagOf(ts[w])},
         rs \in [Variables -> 0..MaxTasks], NEW qs, qs = [rs EXCEPT ![ResultOf(ts[w])] = w]
  PROVE  ResultsOK(us, st, ab, gl, qs, gt)
  <1>1. DOMAIN us = DOMAIN ts /\ \A t \in DOMAIN ts : t # w => us[t] = ts[t]
    BY DEF OnlyAt
  <1>2. \A i, t : Owns(us, st, i, t) => Owns(ts, st, i, t) /\ i \in DOMAIN st /\ t \in DOMAIN ts
    BY <1>1 DEF Owns, Continues
  <1>3. /\ us[w].state = "over" /\ us[w].kind = ts[w].kind
        /\ FlagOf(us[w]) = FlagOf(ts[w]) /\ ResultOf(us[w]) = ResultOf(ts[w])
    BY DEF OnlyAt, Continues, FlagOf, ResultOf
  <1>4. ResultOf(ts[w]) \in Variables
    BY VariablesAre
  <1>5. qs[ResultOf(ts[w])] = w /\ \A v \in Variables : v # ResultOf(ts[w]) => qs[v] = rs[v]
    BY <1>4
  <1>6. ASSUME NEW i, NEW t, Owns(ts, st, i, t), ts[t].kind = "ref", t # w,
               FlagOf(ts[t]) = FlagOf(ts[w])
        PROVE  Crosses(ts, ab, t, w)
    <2>1. ts[w].kind = "ref" /\ ts[w].idx = ts[t].idx /\ t \in DOMAIN ts /\ ts[t].by = cur
      BY <1>6 DEF FlagOf, OwnersOK, Owns
    <2>2. ts[w].by # ts[t].by
      BY <1>6, <2>1 DEF OwnersOK
    <2>3. \A j : ~Owns(ts, st, j, w)
      BY <2>1, <2>2 DEF OwnersOK
    <2>4. w \in ab
      BY <2>3 DEF OwnersOK
    <2> QED BY <1>6, <2>1, <2>2, <2>4 DEF Crosses
  <1>7. ASSUME NEW i \in DOMAIN st, NEW t \in DOMAIN ts, Owns(ts, st, i, t), t # w,
               ResultOf(ts[t]) = ResultOf(ts[w])
        PROVE  \/ (ts[t].kind # "ref" \/ ts[t].bind) /\ Misled(st, ab, i, t, w)
               \/ Crosses(ts, ab, t, w)
    <2> SUFFICES ASSUME ~Crosses(ts, ab, t, w)
                 PROVE  (ts[t].kind # "ref" \/ ts[t].bind) /\ Misled(st, ab, i, t, w)
      OBVIOUS
    <2>1. ts[t].kind \notin RustKinds
      BY <1>7 DEF Owns
    <2>2. /\ ts[t].kind # "bound" /\ ts[w].kind # "bound"
          /\ ts[t].bind => ts[t].kind = "ref"
          /\ ts[w].bind => ts[w].kind = "ref"
      BY <2>1, TasksAre DEF Task, KindOK, RustKinds
    <2>3. ts[t].bind = FALSE /\ ts[w].bind = FALSE => FlagOf(ts[t]) = FlagOf(ts[w])
      BY <1>7 DEF ResultOf
    <2>4. ts[t].bind \in BOOLEAN /\ ts[w].bind \in BOOLEAN
      BY <2>1, VariablesAre
    <2>5. ts[t].bind <=> ts[w].bind
      BY <1>7, <2>2 DEF ResultOf, FlagOf
    <2>6. ts[t].kind # "ref" \/ ts[t].bind
      BY <1>6, <1>7, <2>3, <2>4, <2>5
    <2>7. CASE w \in ab
      BY <2>6, <2>7 DEF Misled
    <2>8. CASE w \notin ab
      <3>1. PICK j \in DOMAIN st : Owns(ts, st, j, w)
        BY <2>8 DEF OwnersOK
      <3>2. i \in Nat /\ j \in Nat
        OBVIOUS
      <3>3. j < i \/ i = j \/ i < j
        BY <3>2
      <3>4. j < i => Misled(st, ab, i, t, w)
        BY <3>1 DEF Misled, Owns
      <3>5. i < j => t < w
        BY <1>7, <3>1 DEF OwnersOK
      <3>6. i # j
        <4> SUFFICES ASSUME i = j PROVE FALSE
          OBVIOUS
        <4>1. ts[t].kind = "parallel" /\ ts[w].kind = "parallel" /\ ts[t].idx # ts[w].idx
          BY <1>7, <3>1 DEF OwnersOK
        <4>2. FlagOf(ts[t]) = FlagOf(ts[w])
          BY <2>2, <2>3, <2>4, <4>1
        <4> QED BY <4>1, <4>2 DEF FlagOf
      <3> QED BY <2>6, <3>3, <3>4, <3>5, <3>6 DEF Misled
    <2> QED BY <2>7, <2>8
  <1>8. ASSUME NEW i \in DOMAIN st, NEW t \in DOMAIN us, Owns(us, st, i, t)
        PROVE  gt[t] = 0 /\ Sees(us, st, ab, gl, qs, i, t)
    <2>1. Owns(ts, st, i, t) /\ t \in DOMAIN ts
      BY <1>2, <1>8
    <2>2. gt[t] = 0 /\ Sees(ts, st, ab, fl, rs, i, t)
      BY <2>1 DEF ResultsOK
    <2>5. \A u : Crosses(ts, ab, t, u) => Crosses(us, ab, t, u)
      BY <2>1, CrossesStay
    <2>3. CASE t = w
      BY <1>3, <1>5, <2>2, <2>3 DEF Sees, Gets
    <2>4. CASE t # w
      <3>1. us[t] = ts[t] /\ ResultOf(ts[t]) \in Variables
        BY <1>1, <2>1, <2>4, VariablesAre DEF Owns
      <3>2. ts[t].kind = "ref" /\ FlagOf(ts[t]) \in gl =>
              ts[t].state = "over" \/ \E u : Crosses(ts, ab, t, u)
        BY <1>6, <2>1, <2>2, <2>4 DEF Sees
      <3>3. Determined(us, ab, gl, t) => Gets(ts, st, ab, i, t, qs[ResultOf(ts[t])])
        <4>1. CASE ResultOf(ts[t]) # ResultOf(ts[w])
          <5>1. qs[ResultOf(ts[t])] = rs[ResultOf(ts[t])]
            BY <1>5, <3>1, <4>1
          <5>2. \A u : Crosses(ts, ab, t, u) => us[u].bind = ts[u].bind
            BY DEF Crosses, Continues
          <5>3. ASSUME ts[t].kind = "ref", ~ts[t].bind, FlagOf(ts[t]) = FlagOf(ts[w])
                PROVE  Crosses(ts, ab, t, w) /\ ts[w].bind
            BY <1>6, <2>1, <2>4, <4>1, <5>3 DEF ResultOf
          <5>4. Determined(us, ab, gl, t) => Determined(ts, ab, fl, t)
            BY <2>5, <3>1, <5>2, <5>3 DEF Determined
          <5> QED BY <2>2, <5>1, <5>4 DEF Sees
        <4>2. CASE ResultOf(ts[t]) = ResultOf(ts[w])
          <5>1. \/ (ts[t].kind # "ref" \/ ts[t].bind) /\ Misled(st, ab, i, t, w)
                \/ Crosses(ts, ab, t, w)
            BY <1>7, <2>1, <2>4, <4>2
          <5>2. qs[ResultOf(ts[t])] = w
            BY <1>5, <4>2
          <5> QED BY <5>1, <5>2 DEF Gets
        <4> QED BY <4>1, <4>2
      <3>4. \A u : Gets(ts, st, ab, i, t, u) => Gets(us, st, ab, i, t, u)
        BY <2>5, <3>1 DEF Gets
      <3> QED BY <2>2, <2>5, <3>1, <3>2, <3>3, <3>4 DEF Sees
    <2> QED BY <2>3, <2>4
  <1>9. \A t \in Ids : t \notin DOMAIN us => gt[t] = 0
    BY <1>1 DEF ResultsOK
  <1> QED BY <1>8, <1>9 DEF ResultsOK

----------------------------------------------------------------------------
(* Steps and whose results are returned                                    *)

LEMMA ResultsStart == ASSUME AwaitsInit PROVE ResultsInv
  <1>1. DOMAIN tasks = {} /\ DOMAIN stack = {}
    BY DEF AwaitsInit
  <1>2. \A t \in Ids : got[t] = 0
    BY DEF AwaitsInit
  <1>3. OwnersOK(tasks, stack, abandoned, nextRuntimeRefID, manifest)
    BY <1>1 DEF OwnersOK, Owns
  <1>4. ResultsOK(tasks, stack, abandoned, flags, results, got)
    BY <1>1, <1>2 DEF ResultsOK
  <1> QED BY <1>3, <1>4 DEF ResultsInv

(* No frame comes or goes, none awaits other tasks, and none of these ends.*)
LEMMA SameOwnsKeep ==
  ASSUME FuturesInv, ResultsInv, SameLoops(tasks, tasks'), DOMAIN tasks' = DOMAIN tasks,
         DOMAIN stack' = DOMAIN stack,
         \A i \in DOMAIN stack : /\ stack'[i].own = stack[i].own
                                 /\ stack'[i].at = "starting" => stack[i].at = "starting",
         UNCHANGED <<flags, results, nextRuntimeRefID, manifest, abandoned>>,
         \A t \in Ids : t \notin Made \/ tasks[t].kind \notin RustKinds => got'[t] = got[t]
  PROVE  ResultsInv'
  <1>1. \A i, t : Owns(tasks', stack', i, t) <=> Owns(tasks, stack, i, t)
    BY DEF Owns, SameLoops, Continues
  <1>2. \A i \in DOMAIN stack : stack[i].own \subseteq DOMAIN tasks
    BY TheTasks, FramesAre
  <1>3. Narrows(tasks, tasks', stack, stack')
    BY <1>1, <1>2 DEF Narrows, Owns
  <1>4. \A i, t : Owns(tasks, stack, i, t) =>
          Owns(tasks', stack', i, t) \/ t \in abandoned' \/ tasks'[t].state = "over"
    BY <1>1
  <1>5. abandoned \subseteq abandoned'
    OBVIOUS
  <1>6. OwnersOK(tasks', stack', abandoned', nextRuntimeRefID, manifest)
    BY <1>3, <1>4, <1>5, OwnersStay DEF ResultsInv
  <1>7. \A i, t : Owns(tasks', stack', i, t) => got'[t] = got[t]
    BY <1>1, TheTasks DEF Owns
  <1>8. \A t \in Ids : t \notin DOMAIN tasks' => got'[t] = got[t]
    BY DEF Made
  <1>9. ResultsOK(tasks', stack', abandoned', flags, results, got')
    BY <1>3, <1>5, <1>7, <1>8, ResultsStay DEF ResultsInv
  <1> QED BY <1>6, <1>9 DEF ResultsInv

(* The top frame changes, but not what it awaits.                          *)
LEMMA TopSet ==
  ASSUME FuturesInv, stack # << >>, NEW f, SetTop(f), f.own = Top.own, f.at # "starting"
  PROVE  /\ DOMAIN stack' = DOMAIN stack
         /\ \A i \in DOMAIN stack : /\ stack'[i].own = stack[i].own
                                    /\ stack'[i].at = "starting" => stack[i].at = "starting"
  <1>1. Len(stack) \in DOMAIN stack /\ Top = stack[Len(stack)]
    BY TheTop
  <1> QED BY <1>1 DEF SetTop

LEMMA TopWith ==
  ASSUME Top \in Frame, NEW at, at # "starting", NEW cs, NEW next,
         \/ SetTop([Top EXCEPT !.at = at])
         \/ SetTop([Top EXCEPT !.at = at, !.calls = cs, !.next = next])
  PROVE  \E f : SetTop(f) /\ f.own = Top.own /\ f.at # "starting"
  <1>1. /\ [Top EXCEPT !.at = at].own = Top.own /\ [Top EXCEPT !.at = at].at = at
        /\ [Top EXCEPT !.at = at, !.calls = cs, !.next = next].own = Top.own
        /\ [Top EXCEPT !.at = at, !.calls = cs, !.next = next].at = at
    BY DEF Frame
  <1>2. CASE SetTop([Top EXCEPT !.at = at])
    <2> WITNESS [Top EXCEPT !.at = at]
    <2> QED BY <1>1, <1>2
  <1>3. CASE SetTop([Top EXCEPT !.at = at, !.calls = cs, !.next = next])
    <2> WITNESS [Top EXCEPT !.at = at, !.calls = cs, !.next = next]
    <2> QED BY <1>1, <1>3
  <1> QED BY <1>2, <1>3

LEMMA SameTasks == Continues(tasks, tasks) /\ SameLoops(tasks, tasks)
  BY DEF Continues, SameLoops

LEMMA MovesKeepResults ==
  ASSUME FuturesInv, ResultsInv, Branched \/ StartPump \/ EndPump \/ DriveNotFound
  PROVE  ResultsInv'
  <1>1. stack # << >>
    BY DEF Branched, StartPump, EndPump, DriveNotFound, TopAt
  <1>2. Top \in Frame
    BY <1>1, TheTop
  <1>3. PICK f : SetTop(f) /\ f.own = Top.own /\ f.at # "starting"
    <2>1. \/ SetTop([Top EXCEPT !.at = "checking"]) \/ SetTop([Top EXCEPT !.at = "pumping"])
          \/ SetTop([Top EXCEPT !.at = "serving", !.calls = outbound, !.next = "checking"])
          \/ SetTop([Top EXCEPT !.at = "serving", !.calls = outbound, !.next = "done"])
      BY DEF Branched, StartPump, EndPump, DriveNotFound, Served
    <2> QED BY <1>2, <2>1, TopWith
  <1>4. UNCHANGED <<tasks, flags, results, nextRuntimeRefID, manifest, abandoned, got>>
    BY DEF Branched, StartPump, EndPump, DriveNotFound
  <1>5. /\ DOMAIN stack' = DOMAIN stack
        /\ \A i \in DOMAIN stack : /\ stack'[i].own = stack[i].own
                                   /\ stack'[i].at = "starting" => stack[i].at = "starting"
    BY <1>1, <1>3, TopSet
  <1>6. SameLoops(tasks, tasks') /\ DOMAIN tasks' = DOMAIN tasks
    BY <1>4, SameTasks
  <1> QED BY <1>4, <1>5, <1>6, SameOwnsKeep

LEMMA ExpireKeepsResults ==
  ASSUME FuturesInv, ResultsInv, NEW i, Expire(i)
  PROVE  ResultsInv'
  <1>1. i \in DOMAIN stack /\ stack[i] \in Frame
    BY TheTasks, FramesAre DEF Expire
  <1>2. /\ DOMAIN stack' = DOMAIN stack
        /\ \A j \in DOMAIN stack : /\ stack'[j].own = stack[j].own
                                   /\ stack'[j].at = "starting" => stack[j].at = "starting"
    BY <1>1 DEF Expire, Frame
  <1>3. UNCHANGED <<tasks, flags, results, nextRuntimeRefID, manifest, abandoned, got>>
    BY DEF Expire
  <1>4. SameLoops(tasks, tasks') /\ DOMAIN tasks' = DOMAIN tasks
    BY <1>3, SameTasks
  <1> QED BY <1>2, <1>3, <1>4, SameOwnsKeep

(* What a future does or where it is changes.                              *)
LEMMA FutureChanges ==
  ASSUME FuturesInv, NEW ts, NEW t \in Made, tasks[t].kind \in RustKinds, Continues(tasks, ts),
         DOMAIN ts = DOMAIN tasks, \A u \in DOMAIN tasks : u # t => ts[u] = tasks[u]
  PROVE  SameLoops(tasks, ts)
  BY DEF SameLoops, Made

LEMMA DrivesKeepResults ==
  ASSUME FuturesInv, ResultsInv, StartDrive \/ DriveDone \/ DrivePending
  PROVE  ResultsInv'
  <1>1. stack # << >>
    BY DEF StartDrive, DriveDone, DrivePending, TopAt
  <1>2. Top \in Frame /\ FrameOK(tasks, Top) /\ Top.own \subseteq Made
    BY <1>1, TheTop
  <1>3. PICK f : SetTop(f) /\ f.own = Top.own /\ f.at # "starting"
    <2>1. \/ SetTop([Top EXCEPT !.at = "driving"])
          \/ SetTop([Top EXCEPT !.at = "serving", !.calls = outbound, !.next = "checking"])
          \/ SetTop([Top EXCEPT !.at = "serving", !.calls = outbound, !.next = "pumping"])
          \/ SetTop([Top EXCEPT !.at = "serving", !.calls = outbound, !.next = "done"])
      BY DEF StartDrive, DriveDone, DrivePending, Served
    <2> QED BY <1>2, <2>1, TopWith
  <1>4. /\ DOMAIN stack' = DOMAIN stack
        /\ \A i \in DOMAIN stack : /\ stack'[i].own = stack[i].own
                                   /\ stack'[i].at = "starting" => stack[i].at = "starting"
    BY <1>1, <1>3, TopSet
  <1>5. PICK t \in Top.own : /\ \E x : tasks' = SetPlace(tasks, t, x)
                             /\ StartDrive => IsRust(t)
                             /\ got' = got \/ got' = [got EXCEPT ![t] = t]
    BY DEF StartDrive, DriveDone, DrivePending, SetPlace
  <1>6. t \in Made /\ tasks[t].kind \in RustKinds
    <2>1. CASE StartDrive
      BY <1>2, <1>5, <2>1 DEF IsRust
    <2>2. CASE DriveDone \/ DrivePending
      <3>1. Top.at = "driving"
        BY <2>2 DEF DriveDone, DrivePending, TopAt
      <3>2. RustFrame(tasks, Top)
        BY <1>2, <3>1 DEF FrameOK
      <3> QED BY <1>5, <3>2 DEF RustFrame, Made
    <2> QED BY <2>1, <2>2
  <1>7. /\ DOMAIN tasks' = DOMAIN tasks /\ Continues(tasks, tasks')
        /\ \A u \in DOMAIN tasks : u # t => tasks'[u] = tasks[u]
    BY <1>5, <1>6, TheTasks DEF SetPlace, Continues, Task
  <1>8. SameLoops(tasks, tasks')
    BY <1>6, <1>7, FutureChanges
  <1>9. UNCHANGED <<flags, results, nextRuntimeRefID, manifest, abandoned>>
    BY DEF StartDrive, DriveDone, DrivePending
  <1>10. \A u \in Ids : u \notin Made \/ tasks[u].kind \notin RustKinds => got'[u] = got[u]
    BY <1>5, <1>6, TheTasks DEF ScalarsOK
  <1> QED BY <1>4, <1>7, <1>8, <1>9, <1>10, SameOwnsKeep

LEMMA AskKeepsResults ==
  ASSUME FuturesInv, ResultsInv, NEW t \in Made, Ask(t)
  PROVE  ResultsInv'
  <1>1. /\ tasks' = SetState(tasks, t, "asked") /\ tasks[t].kind \in RustKinds
        /\ UNCHANGED <<flags, results, nextRuntimeRefID, manifest, stack, abandoned, got>>
    BY DEF Ask, SetState, IsRust
  <1>2. /\ DOMAIN tasks' = DOMAIN tasks /\ Continues(tasks, tasks')
        /\ \A u \in DOMAIN tasks : u # t => tasks'[u] = tasks[u]
    BY <1>1, TheTasks DEF SetState, Continues, Task
  <1>3. SameLoops(tasks, tasks')
    BY <1>1, <1>2, FutureChanges
  <1> QED BY <1>1, <1>2, <1>3, SameOwnsKeep

LEMMA FinishKeepsResults ==
  ASSUME FuturesInv, ResultsInv, NEW t \in Made, Finish(t)
  PROVE  ResultsInv'
  <1>1. tasks' = SetState(tasks, t, "over") /\ tasks[t].state = "running"
    BY DEF Finish, SetState, Polled, Elsewhere
  <1>2. UNCHANGED <<manifest, nextRuntimeRefID, stack, abandoned, got>>
    BY DEF Finish
  <1>3. Continues(tasks, tasks') /\ OnlyAt(tasks, tasks', t, "over", tasks[t].place)
    BY <1>1, TheTasks, StateChanges
  <1>4. CASE IsRust(t)
    <2>1. UNCHANGED <<flags, results>> /\ tasks[t].kind \in RustKinds
      BY <1>4 DEF Finish, IsRust
    <2>2. DOMAIN tasks' = DOMAIN tasks /\ \A u \in DOMAIN tasks : u # t => tasks'[u] = tasks[u]
      BY <1>3 DEF OnlyAt
    <2>3. SameLoops(tasks, tasks')
      BY <1>3, <2>1, <2>2, FutureChanges
    <2> QED BY <1>2, <2>1, <2>2, <2>3, SameOwnsKeep
  <1>5. CASE ~IsRust(t)
    <2>1. /\ flags' = flags \cup {FlagOf(tasks[t])}
          /\ results' = [results EXCEPT ![ResultOf(tasks[t])] = t]
          /\ tasks[t].kind \notin RustKinds /\ t \in DOMAIN tasks
      BY <1>5, TheTasks DEF Finish, IsRust, Flag, ResultVar, FlagOf, ResultOf
    <2>2. \A i \in DOMAIN stack : i \in Nat /\ stack[i].own \subseteq DOMAIN tasks
      BY TheTasks, FramesAre
    <2>3. results \in [Variables -> 0..MaxTasks]
      BY TheTasks DEF ScalarsOK
    <2>4. OwnersOK(tasks', stack, abandoned, nextRuntimeRefID, manifest)
      BY <1>3, <2>1, <2>2, OwnersEnd DEF ResultsInv
    <2>5. ResultsOK(tasks', stack, abandoned, flags', results', got)
      BY <1>1, <1>3, <2>1, <2>2, <2>3, TheTasks, ResultsEnd DEF ResultsInv
    <2> QED BY <1>2, <2>4, <2>5 DEF ResultsInv
  <1> QED BY <1>4, <1>5

(* The top frame ends.                                                     *)
LEMMA PopKeepsResults ==
  ASSUME FuturesInv, ResultsInv, stack # << >>, stack' = Front(stack),
         SameLoops(tasks, tasks'), DOMAIN tasks' = DOMAIN tasks, abandoned \subseteq abandoned',
         \A t \in Top.own : tasks[t].kind \notin RustKinds =>
           t \in abandoned' \/ tasks'[t].state = "over",
         \A t \in Ids : got'[t] = got[t] \/ t \in Top.own,
         UNCHANGED <<flags, results, nextRuntimeRefID, manifest>>
  PROVE  ResultsInv'
  <1>1. /\ Len(stack) \in DOMAIN stack /\ Top = stack[Len(stack)]
        /\ \A i : i \in DOMAIN stack' <=> i \in DOMAIN stack /\ i # Len(stack)
        /\ \A i \in DOMAIN stack' : stack'[i] = stack[i]
    BY TheTasks, SameTasks, PopFrame DEF Top
  <1>2. \A i \in DOMAIN stack : i \in Nat /\ i <= Len(stack) /\ stack[i].own \subseteq DOMAIN tasks
    BY TheTasks, FramesAre
  <1>3. \A i, t : Owns(tasks', stack', i, t) <=> Owns(tasks, stack, i, t) /\ i # Len(stack)
    BY <1>1 DEF Owns, SameLoops, Continues
  <1>4. \A i, t : Owns(tasks', stack', i, t) => t \notin Top.own /\ t \in Ids
    <2> SUFFICES ASSUME NEW i, NEW t, Owns(tasks', stack', i, t), t \in Top.own
                 PROVE  FALSE
      BY TheTasks DEF Owns
    <2>1. Owns(tasks, stack, i, t) /\ i \in DOMAIN stack /\ t \in DOMAIN tasks /\ i # Len(stack)
      BY <1>3 DEF Owns
    <2>2. Owns(tasks, stack, Len(stack), t)
      BY <1>1, <2>1 DEF Owns
    <2>3. i < Len(stack) /\ t \in Nat
      BY <1>1, <1>2, <2>1, TheTasks
    <2>4. t < t
      BY <1>1, <2>1, <2>2, <2>3 DEF OwnersOK, ResultsInv
    <2> QED BY <2>3, <2>4
  <1>5. Narrows(tasks, tasks', stack, stack')
    <2>1. \A i, t : Owns(tasks', stack', i, t) =>
            Owns(tasks, stack, i, t) /\ t \in DOMAIN tasks /\ i \in DOMAIN stack
      BY <1>3 DEF Owns
    <2>2. \A i \in DOMAIN stack' : stack'[i].at = "starting" =>
            /\ i \in DOMAIN stack /\ stack[i].at = "starting"
            /\ stack'[i].own = stack[i].own /\ stack[i].own \subseteq DOMAIN tasks
      BY <1>1, <1>2
    <2>3. \A i \in DOMAIN stack \cap DOMAIN stack' : \A j \in DOMAIN stack :
            j < i => j \in DOMAIN stack' /\ stack'[j].own = stack[j].own
      <3> SUFFICES ASSUME NEW i \in DOMAIN stack \cap DOMAIN stack', NEW j \in DOMAIN stack, j < i
                   PROVE  j \in DOMAIN stack' /\ stack'[j].own = stack[j].own
        OBVIOUS
      <3>1. j # Len(stack)
        BY <1>1, <1>2
      <3> QED BY <1>1, <3>1
    <2> QED BY <2>1, <2>2, <2>3 DEF Narrows
  <1>6. \A i, t : Owns(tasks, stack, i, t) =>
          Owns(tasks', stack', i, t) \/ t \in abandoned' \/ tasks'[t].state = "over"
    BY <1>1, <1>3 DEF Owns
  <1>7. OwnersOK(tasks', stack', abandoned', nextRuntimeRefID, manifest)
    BY <1>5, <1>6, OwnersStay DEF ResultsInv
  <1>8. \A i, t : Owns(tasks', stack', i, t) => got'[t] = got[t]
    BY <1>4
  <1>9. \A t \in Ids : t \notin DOMAIN tasks' => got'[t] = got[t]
    BY <1>1, <1>2
  <1>10. ResultsOK(tasks', stack', abandoned', flags, results, got')
    BY <1>5, <1>8, <1>9, ResultsStay DEF ResultsInv
  <1> QED BY <1>7, <1>10 DEF ResultsInv

LEMMA ResumedLoops ==
  ASSUME FuturesInv, NEW ts, TasksOK(ts), DOMAIN ts = DOMAIN tasks, SameLoops(tasks, ts),
         NEW c \in DOMAIN tasks \cup {0}
  PROVE  SameLoops(tasks, Resumed(ts, c)) /\ DOMAIN Resumed(ts, c) = DOMAIN tasks
  <1> DEFINE us == Resumed(ts, c)
  <1>1. /\ Continues(ts, us) /\ DOMAIN us = DOMAIN ts
        /\ \A t \in DOMAIN ts : \/ us[t] = ts[t]
                                \/ ts[t].state \in {"calling", "asked"} /\ us[t].state = "running"
    BY ResumedIs
  <1> HIDE DEF us
  <1>2. \A t \in DOMAIN ts : us[t].state = "over" <=> ts[t].state = "over"
    BY <1>1
  <1>3. SameLoops(tasks, us)
    BY <1>1, <1>2 DEF SameLoops, Continues
  <1> QED BY <1>1, <1>3 DEF us

LEMMA ReturnsKeepResults ==
  ASSUME FuturesInv, ResultsInv, Collect \/ TimeOut \/ TimeOutRust \/ (EndServe /\ Top.next = "done")
  PROVE  ResultsInv'
  <1>1. stack # << >>
    BY DEF Collect, TimeOut, TimeOutRust, EndServe, TopAt
  <1>2. Top.from \in DOMAIN tasks \cup {0} /\ Top.own \subseteq Made /\ FrameOK(tasks, Top)
    BY <1>1, TheTop, TheTasks
  <1>3. UNCHANGED <<flags, results, nextRuntimeRefID, manifest>>
    BY DEF Collect, TimeOut, TimeOutRust, EndServe
  <1>4. CASE Collect \/ TimeOut \/ (EndServe /\ Top.next = "done")
    <2>1. stack' = Front(stack) /\ tasks' = Resumed(tasks, Top.from)
      BY <1>4 DEF Collect, TimeOut, EndServe, Return
    <2>2. SameLoops(tasks, tasks') /\ DOMAIN tasks' = DOMAIN tasks
      BY <1>2, <2>1, SameTasks, TheTasks, ResumedLoops
    <2>3. abandoned \subseteq abandoned' /\ \A t \in Ids : got'[t] = got[t] \/ t \in Top.own
      BY <1>4 DEF Collect, TimeOut, EndServe
    <2>4. \A t \in Top.own : tasks[t].kind \notin RustKinds =>
            t \in abandoned' \/ tasks'[t].state = "over"
      <3>1. CASE Collect \/ TimeOut
        BY <1>2, <2>2, <3>1 DEF Collect, TimeOut, SameLoops, Made
      <3>2. CASE EndServe /\ Top.next = "done"
        BY <1>2, <3>2 DEF FrameOK, RustFrame
      <3> QED BY <1>4, <3>1, <3>2
    <2> QED BY <1>1, <1>3, <2>1, <2>2, <2>3, <2>4, PopKeepsResults
  <1>5. CASE TimeOutRust
    <2> DEFINE ts == [t \in Made |-> IF t \in Top.own THEN Released(t) ELSE tasks[t]]
    <2>1. PICK o \in Top.own : IsRust(o)
      BY <1>5 DEF TimeOutRust, TopRust
    <2>2. Top.own = {o} /\ o \in Made /\ tasks[o].kind \in RustKinds
      BY <1>1, <2>1, TheFuture
    <2>3. stack' = Front(stack) /\ tasks' = Resumed(ts, Top.from)
      BY <1>5 DEF TimeOutRust, Return
    <2>4. /\ Released(o) \in Task /\ KindOK(Released(o)) /\ Released(o).kind = tasks[o].kind
          /\ Released(o).rt = tasks[o].rt /\ Released(o).idx = tasks[o].idx
          /\ Released(o).bind = tasks[o].bind /\ Released(o).by = tasks[o].by
      BY <2>1, <2>2, ReleasedIs
    <2>5. /\ DOMAIN ts = DOMAIN tasks
          /\ \A t \in DOMAIN tasks : ts[t] = IF t = o THEN Released(o) ELSE tasks[t]
      BY <2>2, TheTasks
    <2> HIDE DEF ts
    <2>6. TasksOK(ts)
      <3>1. \A t \in DOMAIN tasks : ts[t] \in Task /\ KindOK(ts[t])
        BY <2>4, <2>5, TheTasks
      <3>2. ts \in Seq(Task) /\ Len(ts) = Len(tasks)
        <4>1. Len(tasks) \in Nat /\ DOMAIN tasks = 1..Len(tasks)
          BY TheTasks
        <4>2. ts = [t \in 1..Len(tasks) |-> ts[t]]
          BY <2>5, <4>1 DEF ts
        <4>3. \A t \in 1..Len(tasks) : ts[t] \in Task
          BY <3>1, <4>1
        <4> QED BY <4>1, <4>2, <4>3
      <3> QED BY <2>5, <3>1, <3>2, TheTasks DEF TasksOK
    <2>7. SameLoops(tasks, ts)
      <3>1. Continues(tasks, ts)
        BY <2>4, <2>5 DEF Continues
      <3>2. \A u \in DOMAIN tasks : u # o => ts[u] = tasks[u]
        BY <2>5
      <3> QED BY <2>2, <2>5, <3>1, <3>2, FutureChanges
    <2>8. SameLoops(tasks, tasks') /\ DOMAIN tasks' = DOMAIN tasks
      BY <1>2, <2>3, <2>5, <2>6, <2>7, ResumedLoops
    <2>9. /\ abandoned \subseteq abandoned' /\ \A t \in Ids : got'[t] = got[t] \/ t \in Top.own
          /\ \A t \in Top.own : tasks[t].kind \notin RustKinds =>
               t \in abandoned' \/ tasks'[t].state = "over"
      BY <1>5 DEF TimeOutRust
    <2> QED BY <1>1, <1>3, <2>3, <2>8, <2>9, PopKeepsResults
  <1> QED BY <1>4, <1>5

LEMMA AddedComes ==
  ASSUME NEW ts, TasksOK(ts), NEW us, NEW t, Adds(ts, us, t), us[t].kind \notin RustKinds
  PROVE  Comes(ts, us, t) /\ t \in Ids
  <1>1. /\ TasksOK(us) /\ DOMAIN us = DOMAIN ts \cup {t} /\ t \notin DOMAIN ts /\ t \in Ids
        /\ \A u \in DOMAIN ts : us[u] = ts[u]
        /\ us[t].state = "running"
    BY AddsIs
  <1>2. t = Len(ts) + 1
    BY DEF Adds
  <1>3. \A u \in DOMAIN ts : u < t
    BY <1>2, TasksAre
  <1> QED BY <1>1, <1>3 DEF Comes

(* A task of an event loop begins.                                         *)
LEMMA LoopTaskJoins ==
  ASSUME FuturesInv, FuturesInv', NEW ts, NEW st, NEW m, NEW t \in Ids,
         OwnersOK(ts, st, abandoned, nextRuntimeRefID, manifest),
         ResultsOK(ts, st, abandoned, flags, results, got),
         Comes(ts, tasks', t), Joins(ts, tasks', st, stack', m, t),
         LoopTask(tasks'[t]), Resets(tasks'[t]),
         Numbered(tasks'[t]), UNCHANGED <<manifest, abandoned, got>>
  PROVE  ResultsInv'
  <1>2. /\ manifest \in Manifests
        /\ \A x \in Manifests : /\ nextRuntimeRefID[x] \in Nat /\ nextRuntimeRefID'[x] \in Nat
                                /\ nextRuntimeRefID[x] <= nextRuntimeRefID'[x]
        /\ tasks'[t].kind = "ref" => /\ tasks'[t].by = manifest
                                     /\ tasks'[t].idx = nextRuntimeRefID'[manifest]
                                     /\ nextRuntimeRefID[manifest] < nextRuntimeRefID'[manifest]
    BY TheTasks, NumbersGrow
  <1>3. OwnersOK(tasks', stack', abandoned, nextRuntimeRefID', manifest)
    BY <1>2, OwnersJoin
  <1>4. /\ flags' = flags \ {FlagOf(tasks'[t])}
        /\ results' = IF tasks'[t].kind = "ref" THEN results
                      ELSE [results EXCEPT ![FlagOf(tasks'[t])] = 0]
        /\ results \in [Variables -> 0..MaxTasks]
    BY TheTasks DEF Resets, FlagOf, ScalarsOK
  <1>5. FlagOf(tasks'[t]) \in Variables
    BY VariablesAre DEF Comes
  <1>6. /\ flags' \subseteq flags /\ FlagOf(tasks'[t]) \notin flags'
        /\ \A v \in Variables : results'[v] \in {results[v], 0}
        /\ tasks'[t].kind # "ref" => ~tasks'[t].bind /\ results'[FlagOf(tasks'[t])] = 0
    BY <1>4, <1>5 DEF LoopTask
  <1>7. ResultsOK(tasks', stack', abandoned, flags', results', got)
    BY <1>6, ResultsJoin
  <1> QED BY <1>3, <1>7 DEF ResultsInv

(* An op begins.                                                           *)
LEMMA BeginKeepsResults ==
  ASSUME FuturesInv, FuturesInv', NEW ts, NEW below, NEW c \in DOMAIN ts \cup {0},
         NEW inside \in BOOLEAN, Continues(tasks, ts), DOMAIN ts = Made, Len(ts) = Len(tasks),
         TasksOK(ts), FramesOK(ts, below),
         OwnersOK(ts, below, abandoned, nextRuntimeRefID, manifest),
         ResultsOK(ts, below, abandoned, flags, results, got),
         Begin(ts, below, c, inside), UNCHANGED <<manifest, abandoned, got>>
  PROVE  ResultsInv'
  <1>1. PICK t, f : Enters(ts, below, c, t, f)
    <2>1. ScalarsOK /\ TasksOK(tasks) /\ c \in 0..MaxTasks
      BY TasksAre, AwaitNames DEF FuturesInv
    <2>2. \A u \in Made : ts[u].kind = tasks[u].kind
      BY DEF Continues, Made
    <2> QED BY <2>1, <2>2, BeginIs
  <1>2. /\ f \in Frame /\ f.own = {t} /\ stack' = Append(below, f)
        /\ f.at = "starting" => Adds(ts, tasks', t) /\ tasks'[t].kind = "parallel" /\ tasks'[t].idx = 0
    BY <1>1 DEF Enters, NewFrame
  <1>3. Continues(ts, tasks') /\ TasksOK(tasks') /\ t \in DOMAIN tasks'
    <2>1. CASE Finds(ts, tasks', t)
      <3>1. tasks' = ts /\ Continues(ts, tasks') /\ t \in DOMAIN ts
        BY <2>1, FindsIs
      <3> QED BY <3>1
    <2>2. CASE NewTaskIs(ts, tasks', t)
      <3>1. Adds(ts, tasks', t)
        BY <2>2 DEF NewTaskIs
      <3>2. TasksOK(tasks') /\ Continues(ts, tasks') /\ DOMAIN tasks' = DOMAIN ts \cup {t}
        BY <3>1, AddsIs
      <3> QED BY <3>2
    <2> QED BY <1>1, <2>1, <2>2 DEF Enters
  <1> DEFINE m == Len(stack')
  <1>4. /\ m \in Nat /\ m \notin DOMAIN below /\ stack'[m] = f
        /\ \A i : i \in DOMAIN stack' <=> i \in DOMAIN below \/ i = m
        /\ \A i \in DOMAIN below : stack'[i] = below[i] /\ i \in Nat /\ i < m
    <2>1. below \in Seq(Frame)
      BY DEF FramesOK
    <2> QED BY <1>2, <2>1, PushedSeq
  <1> HIDE DEF m
  <1>5. \A i \in DOMAIN below : below[i].own \subseteq DOMAIN ts
    BY FramesAre
  <1>6. \A i, u : Owns(tasks', stack', i, u) <=>
          Owns(ts, below, i, u) \/ (i = m /\ u = t /\ tasks'[t].kind \notin RustKinds)
    <2> TAKE i, u
    <2>1. CASE i = m
      BY <1>2, <1>3, <1>4, <2>1 DEF Owns
    <2>2. CASE i # m
      <3>1. \A v \in DOMAIN ts : v \in DOMAIN tasks' /\ tasks'[v].kind = ts[v].kind
        BY <1>3 DEF Continues
      <3> QED BY <1>4, <1>5, <2>2, <3>1 DEF Owns
    <2> QED BY <2>1, <2>2
  <1>7. CASE tasks'[t].kind \in RustKinds
    <2>1. SameLoops(ts, tasks') /\ UNCHANGED <<flags, results, nextRuntimeRefID>>
      <3>1. CASE Finds(ts, tasks', t) /\ UNCHANGED <<flags, results, nextRuntimeRefID>>
        BY <3>1 DEF Finds, SameLoops, Continues
      <3>2. CASE NewTaskIs(ts, tasks', t)
        <4>1. Adds(ts, tasks', t) /\ UNCHANGED <<flags, results, nextRuntimeRefID>>
          BY <1>7, <3>2 DEF NewTaskIs, LoopTask, RustKinds
        <4>2. /\ DOMAIN tasks' = DOMAIN ts \cup {t}
              /\ \A u \in DOMAIN ts : tasks'[u] = ts[u]
          BY <4>1, AddsIs
        <4> QED BY <1>3, <1>7, <4>1, <4>2 DEF SameLoops
      <3> QED BY <1>1, <3>1, <3>2 DEF Enters
    <2>2. f.at # "starting"
      BY <1>2, <1>7 DEF RustKinds
    <2>3. \A i, u : Owns(tasks', stack', i, u) <=> Owns(ts, below, i, u)
      BY <1>6, <1>7
    <2>4. Narrows(ts, tasks', below, stack')
      <3>1. \A i \in DOMAIN stack' : stack'[i].at = "starting" =>
              /\ i \in DOMAIN below /\ below[i].at = "starting"
              /\ stack'[i].own = below[i].own /\ below[i].own \subseteq DOMAIN ts
        BY <1>4, <1>5, <2>2
      <3>2. \A j \in DOMAIN below : j \in DOMAIN stack' /\ stack'[j].own = below[j].own
        BY <1>4
      <3> QED BY <2>3, <3>1, <3>2 DEF Narrows, Owns
    <2>5. OwnersOK(tasks', stack', abandoned, nextRuntimeRefID, manifest)
      BY <2>1, <2>3, <2>4, OwnersStay
    <2>6. ResultsOK(tasks', stack', abandoned, flags, results, got)
      BY <2>1, <2>4, ResultsStay
    <2> QED BY <2>1, <2>5, <2>6 DEF ResultsInv
  <1>8. CASE tasks'[t].kind \notin RustKinds
    <2>1. /\ Adds(ts, tasks', t) /\ LoopTask(tasks'[t]) /\ Resets(tasks'[t])
          /\ Numbered(tasks'[t])
      <3>1. ~Finds(ts, tasks', t)
        BY <1>8 DEF Finds, RustKinds
      <3> QED BY <1>1, <1>8, <3>1 DEF Enters, NewTaskIs
    <2>2. Comes(ts, tasks', t) /\ t \in Ids
      BY <1>8, <2>1, AddedComes
    <2>3. Joins(ts, tasks', below, stack', m, t)
      <3>1. m \in DOMAIN stack' /\ DOMAIN below \subseteq DOMAIN stack'
        BY <1>4
      <3>2. \A i \in DOMAIN stack' : i \in Nat /\ i <= m
        BY <1>4
      <3>3. \A u : ~Owns(ts, below, m, u)
        BY <1>4 DEF Owns
      <3>4. \A i \in DOMAIN stack' : stack'[i].at = "starting" =>
              \A u \in stack'[i].own : tasks'[u].idx < Cardinality(stack'[i].own)
        <4> SUFFICES ASSUME NEW i \in DOMAIN stack', stack'[i].at = "starting",
                            NEW u \in stack'[i].own
                     PROVE  tasks'[u].idx < Cardinality(stack'[i].own)
          OBVIOUS
        <4>1. CASE i = m
          <5>1. Cardinality({t}) = 1
            BY FS_Singleton
          <5>2. stack'[i] = f /\ u = t
            BY <1>2, <1>4, <4>1
          <5>3. tasks'[u].idx = 0
            BY <1>2, <5>2
          <5>4. stack'[i].own = {t}
            BY <1>2, <5>2
          <5> QED BY <5>1, <5>3, <5>4
        <4>2. CASE i # m
          <5>1. i \in DOMAIN below /\ stack'[i] = below[i]
            BY <1>4, <4>2
          <5>2. tasks'[u].idx = ts[u].idx
            BY <1>3, <1>5, <5>1 DEF Continues
          <5> QED BY <5>1, <5>2 DEF OwnersOK
        <4> QED BY <4>1, <4>2
      <3>5. \A j \in DOMAIN below : stack'[j].own = below[j].own
        BY <1>4
      <3>6. \A i, u : Owns(tasks', stack', i, u) <=> Owns(ts, below, i, u) \/ (i = m /\ u = t)
        BY <1>6, <1>8
      <3> QED BY <3>1, <3>2, <3>3, <3>4, <3>5, <3>6 DEF Joins
    <2> QED BY <2>1, <2>2, <2>3, LoopTaskJoins
  <1> QED BY <1>7, <1>8

(* What the tasks do changes, and what the frames are to do.               *)
LEMMA SameAwaits ==
  ASSUME FuturesInv, ResultsInv, NEW ts, DOMAIN ts = Made, SameLoops(tasks, ts),
         NEW st, DOMAIN st = DOMAIN stack,
         \A i \in DOMAIN stack : st[i].own = stack[i].own /\ st[i].at = stack[i].at
  PROVE  /\ OwnersOK(ts, st, abandoned, nextRuntimeRefID, manifest)
         /\ ResultsOK(ts, st, abandoned, flags, results, got)
  <1>1. \A i, t : Owns(ts, st, i, t) <=> Owns(tasks, stack, i, t)
    BY DEF Owns, SameLoops, Continues, Made
  <1>2. \A i \in DOMAIN stack : stack[i].own \subseteq DOMAIN tasks
    BY TheTasks, FramesAre
  <1>3. Narrows(tasks, ts, stack, st)
    BY <1>1, <1>2 DEF Narrows, Owns
  <1>4. \A i, t : Owns(tasks, stack, i, t) =>
          Owns(ts, st, i, t) \/ t \in abandoned \/ ts[t].state = "over"
    BY <1>1
  <1>5. OwnersOK(ts, st, abandoned, nextRuntimeRefID, manifest)
    BY <1>3, <1>4, OwnersStay DEF ResultsInv
  <1>6. ResultsOK(ts, st, abandoned, flags, results, got)
    BY <1>3, ResultsStay DEF ResultsInv
  <1> QED BY <1>5, <1>6

LEMMA OpKeepsResults ==
  ASSUME FuturesInv, FuturesInv', ResultsInv, Op \/ SyncBranch
  PROVE  ResultsInv'
  <1>1. Begin(tasks, stack, 0, FALSE) /\ UNCHANGED <<manifest, abandoned, got>>
    BY DEF Op, SyncBranch
  <1>2. /\ Continues(tasks, tasks) /\ DOMAIN tasks = Made /\ TasksOK(tasks) /\ FramesOK(tasks, stack)
        /\ 0 \in DOMAIN tasks \cup {0}
    BY SameTasks, TheTasks
  <1>3. /\ OwnersOK(tasks, stack, abandoned, nextRuntimeRefID, manifest)
        /\ ResultsOK(tasks, stack, abandoned, flags, results, got)
    BY DEF ResultsInv
  <1> QED BY <1>1, <1>2, <1>3, BeginKeepsResults

LEMMA CallOutKeepsResults ==
  ASSUME FuturesInv, FuturesInv', ResultsInv, NEW t \in Made, CallOut(t)
  PROVE  ResultsInv'
  <1> DEFINE ts == SetState(tasks, t, "calling")
             inside == IsRust(t)
  <1>1. Polled(t) /\ Begin(ts, stack, t, inside) /\ UNCHANGED <<manifest, abandoned, got>>
    BY DEF CallOut, SetState
  <1>2. inside \in BOOLEAN
    BY DEF IsRust
  <1>3. tasks[t].state = "running"
    BY <1>1, PolledIs
  <1> HIDE DEF ts, inside
  <1>4. TasksOK(ts) /\ Continues(tasks, ts) /\ OnlyAt(tasks, ts, t, "calling", tasks[t].place)
    <2>1. ~(tasks[t].kind \in {"local", "spawned"} /\ tasks[t].kind \in RustKinds /\ tasks[t].place = "none")
      BY <1>3, TheTasks DEF KindOK
    <2>2. tasks[t].kind \in RustKinds =>
            (tasks[t].kind \in {"local", "spawned"} /\ tasks[t].place = "none"
               => "calling" \in {"over", "cancelled"})
      BY <2>1
    <2> QED BY <2>2, TheTasks, StateChanges DEF ts
  <1>5. /\ DOMAIN ts = Made /\ Len(ts) = Len(tasks) /\ t \in DOMAIN ts \cup {0}
        /\ ts[t].state = "calling" /\ \A u \in DOMAIN tasks : u # t => ts[u] = tasks[u]
    BY <1>4 DEF OnlyAt, Made
  <1>6. FramesOK(ts, stack)
    BY <1>4, TheTasks, FrameStays DEF FramesOK
  <1>7. SameLoops(tasks, ts)
    BY <1>3, <1>4, <1>5 DEF SameLoops, Made
  <1>8. /\ OwnersOK(ts, stack, abandoned, nextRuntimeRefID, manifest)
        /\ ResultsOK(ts, stack, abandoned, flags, results, got)
    BY <1>5, <1>7, SameAwaits
  <1> QED BY <1>1, <1>2, <1>4, <1>5, <1>6, <1>8, BeginKeepsResults

LEMMA ServeCallKeepsResults ==
  ASSUME FuturesInv, FuturesInv', ResultsInv, ServeCall
  PROVE  ResultsInv'
  <1> DEFINE n == Len(stack)
             below == [stack EXCEPT ![n].calls = Tail(@)]
             c == Head(Top.calls)
  <1>1. stack # << >> /\ Top.at = "serving" /\ Top.calls # << >>
    BY DEF ServeCall, TopAt
  <1>2. UNCHANGED <<manifest, abandoned, got>>
    BY DEF ServeCall
  <1>3. \/ /\ stack' = below /\ tasks' = Resumed(tasks, c)
           /\ UNCHANGED <<flags, results, nextRuntimeRefID, begun>>
        \/ Begin(tasks, below, c, FALSE)
    BY DEF ServeCall
  <1>4. FramesOK(tasks, below) /\ c \in Made
    BY <1>1, CallLeaves
  <1>5. /\ DOMAIN below = DOMAIN stack
        /\ \A i \in DOMAIN stack : below[i].own = stack[i].own /\ below[i].at = stack[i].at
    <2>1. \A i \in DOMAIN stack : stack[i] \in Frame
      BY TheTasks, FramesAre
    <2> QED BY <2>1 DEF Frame
  <1> HIDE DEF below, c, n
  <1>6. CASE Begin(tasks, below, c, FALSE)
    <2>1. /\ Continues(tasks, tasks) /\ SameLoops(tasks, tasks) /\ DOMAIN tasks = Made
          /\ c \in DOMAIN tasks \cup {0} /\ TasksOK(tasks)
      BY <1>4, SameTasks, TheTasks
    <2>2. /\ OwnersOK(tasks, below, abandoned, nextRuntimeRefID, manifest)
          /\ ResultsOK(tasks, below, abandoned, flags, results, got)
      BY <1>5, <2>1, SameAwaits
    <2> QED BY <1>2, <1>4, <1>6, <2>1, <2>2, BeginKeepsResults
  <1>7. CASE /\ stack' = below /\ tasks' = Resumed(tasks, c)
             /\ UNCHANGED <<flags, results, nextRuntimeRefID, begun>>
    <2>1. SameLoops(tasks, tasks) /\ TasksOK(tasks) /\ c \in DOMAIN tasks \cup {0}
      BY <1>4, SameTasks, TheTasks
    <2>2. SameLoops(tasks, tasks') /\ DOMAIN tasks' = DOMAIN tasks
      BY <1>7, <2>1, ResumedLoops
    <2>3. /\ DOMAIN stack' = DOMAIN stack
          /\ \A i \in DOMAIN stack : /\ stack'[i].own = stack[i].own
                                     /\ stack'[i].at = "starting" => stack[i].at = "starting"
      BY <1>5, <1>7
    <2> QED BY <1>2, <1>7, <2>2, <2>3, SameOwnsKeep
  <1> QED BY <1>3, <1>6, <1>7

LEMMA EndServeKeepsResults ==
  ASSUME FuturesInv, ResultsInv, EndServe
  PROVE  ResultsInv'
  <1>1. CASE Top.next = "done"
    BY <1>1, ReturnsKeepResults
  <1>2. CASE Top.next # "done"
    <2>1. stack # << >> /\ SetTop([Top EXCEPT !.at = Top.next])
      BY <1>2 DEF EndServe, TopAt
    <2>2. UNCHANGED <<tasks, flags, results, nextRuntimeRefID, manifest, abandoned, got>>
      BY <1>2 DEF EndServe
    <2>3. Top \in Frame /\ Top.next # "starting"
      <3>1. Top \in Frame
        BY <2>1, TheTop
      <3> QED BY <3>1 DEF Frame
    <2>4. PICK f : SetTop(f) /\ f.own = Top.own /\ f.at # "starting"
      BY <2>1, <2>3, TopWith
    <2>5. /\ DOMAIN stack' = DOMAIN stack
          /\ \A i \in DOMAIN stack : /\ stack'[i].own = stack[i].own
                                     /\ stack'[i].at = "starting" => stack[i].at = "starting"
      BY <2>1, <2>4, TopSet
    <2>6. SameLoops(tasks, tasks') /\ DOMAIN tasks' = DOMAIN tasks
      BY <2>2, SameTasks
    <2> QED BY <2>2, <2>5, <2>6, SameOwnsKeep
  <1> QED BY <1>1, <1>2

LEMMA HostPumpKeepsResults ==
  ASSUME FuturesInv, ResultsInv, HostPump
  PROVE  ResultsInv'
  <1>1. UNCHANGED <<tasks, flags, results, nextRuntimeRefID, manifest, abandoned, got>>
    BY DEF HostPump
  <1>2. DOMAIN stack = {} /\ DOMAIN stack' = {1} /\ stack'[1].own = {} /\ stack'[1].at = "pumping"
    BY DEF HostPump, Await
  <1>3. /\ \A i, t : ~Owns(tasks, stack, i, t)
        /\ \A i, t : ~Owns(tasks', stack', i, t)
    BY <1>2 DEF Owns
  <1>4. Narrows(tasks, tasks', stack, stack')
    BY <1>2, <1>3 DEF Narrows
  <1>5. SameLoops(tasks, tasks')
    BY <1>1, SameTasks
  <1>6. OwnersOK(tasks', stack', abandoned, nextRuntimeRefID, manifest)
    BY <1>3, <1>4, <1>5, OwnersStay DEF ResultsInv
  <1>7. ResultsOK(tasks', stack', abandoned, flags, results, got)
    BY <1>4, <1>5, ResultsStay DEF ResultsInv
  <1> QED BY <1>1, <1>6, <1>7 DEF ResultsInv

LEMMA SpawnKeepsResults ==
  ASSUME FuturesInv, ResultsInv, SpawnBackground \/ SpawnSend \/ SpawnBlocking
  PROVE  ResultsInv'
  <1>1. PICK k \in Task : /\ KindOK(k) /\ k.place # "driven" /\ k.state = "running"
                          /\ k.kind \in RustKinds
                          /\ tasks' = Append(tasks, k) /\ NextId \in Ids
                          /\ UNCHANGED <<flags, results, nextRuntimeRefID, manifest, stack, abandoned, got>>
    BY FutureIs DEF SpawnBackground, SpawnSend, SpawnBlocking, SpawnRust, NewFuture, NewTask, RustKinds
  <1>2. Adds(tasks, tasks', NextId)
    BY <1>1 DEF Adds, NextId
  <1>3. TasksOK(tasks)
    BY TheTasks
  <1>4. /\ Continues(tasks, tasks') /\ DOMAIN tasks' = DOMAIN tasks \cup {NextId}
        /\ \A u \in DOMAIN tasks : tasks'[u] = tasks[u]
    BY <1>2, <1>3, AddsIs
  <1>5. tasks'[NextId] = k
    <2>1. tasks \in Seq(Task)
      BY <1>3 DEF TasksOK
    <2> QED BY <1>1, <2>1 DEF NextId
  <1>6. SameLoops(tasks, tasks')
    BY <1>1, <1>4, <1>5 DEF SameLoops
  <1>7. \A i \in DOMAIN stack : stack[i].own \subseteq DOMAIN tasks
    BY TheTasks, FramesAre
  <1>8. \A i, t : Owns(tasks', stack, i, t) <=> Owns(tasks, stack, i, t)
    BY <1>4, <1>7 DEF Owns
  <1>9. Narrows(tasks, tasks', stack, stack)
    BY <1>7, <1>8 DEF Narrows, Owns
  <1>10. OwnersOK(tasks', stack, abandoned, nextRuntimeRefID, manifest)
    BY <1>6, <1>8, <1>9, OwnersStay DEF ResultsInv
  <1>11. ResultsOK(tasks', stack, abandoned, flags, results, got)
    BY <1>6, <1>9, ResultsStay DEF ResultsInv
  <1> QED BY <1>1, <1>10, <1>11 DEF ResultsInv

(* A further branch of a parallel op has variables of its own.             *)
LEMMA StartBranchKeepsResults ==
  ASSUME FuturesInv, FuturesInv', ResultsInv, StartBranch
  PROVE  ResultsInv'
  <1> DEFINE n == Len(stack)
             t == NextId
             c == Cardinality(Top.own)
  <1>1. stack # << >> /\ Top.at = "starting" /\ UNCHANGED <<manifest, nextRuntimeRefID, abandoned, got>>
    BY DEF StartBranch, TopAt
  <1>2. /\ n \in DOMAIN stack /\ Top = stack[n] /\ FrameOK(tasks, Top)
        /\ Top.own \subseteq DOMAIN tasks /\ stack \in Seq(Frame)
        /\ \A i \in DOMAIN stack : i \in Nat /\ i <= n
    BY <1>1, TheTop, TheTasks DEF FramesOK
  <1>3. PICK f, k : Branches(f, k)
    BY BranchIs
  <1>4. IsFiniteSet(Top.own) /\ c \in Nat
    BY BranchIs
  <1>5. /\ Adds(tasks, tasks', t) /\ tasks'[t] = k /\ LoopTask(k) /\ Resets(k)
        /\ k.kind = "parallel" /\ k.idx = c
        /\ f \in Frame /\ f.own = Top.own \cup {t} /\ stack' = [stack EXCEPT ![n] = f]
    BY <1>3 DEF Branches, NewTaskIs
  <1> HIDE DEF n, t, c
  <1>6. k.kind \notin RustKinds /\ k.kind # "ref"
    BY <1>5 DEF RustKinds
  <1>7. Comes(tasks, tasks', t) /\ t \in Ids
    <2>1. TasksOK(tasks) /\ tasks'[t].kind \notin RustKinds
      BY <1>5, <1>6, TheTasks
    <2> QED BY <1>5, <2>1, AddedComes
  <1>8. /\ DOMAIN tasks' = DOMAIN tasks \cup {t} /\ t \notin DOMAIN tasks
        /\ \A u \in DOMAIN tasks : tasks'[u] = tasks[u]
    BY <1>7 DEF Comes
  <1>9. /\ DOMAIN stack' = DOMAIN stack /\ stack'[n] = f
        /\ \A i \in DOMAIN stack : i # n => stack'[i] = stack[i]
    BY <1>2, <1>5, SetSeq
  <1>10. \A i \in DOMAIN stack : stack[i].own \subseteq DOMAIN tasks
    BY TheTasks, FramesAre
  <1>11. \A i \in DOMAIN stack : stack[i].at = "starting" =>
           \A u \in stack[i].own : tasks[u].idx < Cardinality(stack[i].own)
    BY DEF ResultsInv, OwnersOK
  <1>12. \A u \in Top.own : tasks[u].idx < c /\ tasks[u].idx \in Nat /\ tasks[u].kind = "parallel"
    <2>1. \A u \in Top.own : tasks[u].kind = "parallel"
      BY <1>1, <1>2 DEF FrameOK
    <2>2. \A u \in Top.own : tasks[u] \in Task
      BY <1>2, TheTasks
    <2>3. \A u \in Top.own : tasks[u].idx \in Nat
      BY <2>2, AwaitNames DEF Task
    <2> QED BY <1>1, <1>2, <1>11, <2>1, <2>3 DEF c
  <1>13. Cardinality(f.own) = c + 1
    <2>1. t \notin Top.own
      BY <1>2, <1>8
    <2>2. Cardinality(Top.own \cup {t}) = Cardinality(Top.own) + 1
      BY <1>4, <2>1, FS_AddElement
    <2> QED BY <1>5, <2>2 DEF c
  <1>14. Joins(tasks, tasks', stack, stack', n, t)
    <2>1. \A i, u : Owns(tasks', stack', i, u) <=> Owns(tasks, stack, i, u) \/ (i = n /\ u = t)
      <3> TAKE i, u
      <3>1. CASE i = n
        <4>1. u \in f.own <=> u \in Top.own \/ u = t
          BY <1>5
        <4>2. stack'[i].own = f.own /\ stack[i].own = Top.own /\ i \in DOMAIN stack
          BY <1>2, <1>9, <3>1
        <4> QED BY <1>2, <1>5, <1>6, <1>8, <1>9, <3>1, <4>1, <4>2 DEF Owns
      <3>2. CASE i # n
        BY <1>8, <1>9, <1>10, <3>2 DEF Owns
      <3> QED BY <3>1, <3>2
    <2>2. \A u : Owns(tasks, stack, n, u) =>
            tasks[u].kind = "parallel" /\ tasks'[t].kind = "parallel" /\ tasks[u].idx # tasks'[t].idx
      <3> SUFFICES ASSUME NEW u, Owns(tasks, stack, n, u)
                   PROVE  tasks[u].kind = "parallel" /\ tasks'[t].kind = "parallel"
                          /\ tasks[u].idx # tasks'[t].idx
        OBVIOUS
      <3>1. u \in Top.own
        BY <1>2 DEF Owns
      <3>2. tasks[u].idx < c /\ tasks[u].idx \in Nat /\ tasks[u].kind = "parallel"
        BY <1>12, <3>1
      <3> QED BY <1>4, <1>5, <3>2 DEF c
    <2>3. \A i \in DOMAIN stack' : stack'[i].at = "starting" =>
            \A u \in stack'[i].own : tasks'[u].idx < Cardinality(stack'[i].own)
      <3> SUFFICES ASSUME NEW i \in DOMAIN stack', stack'[i].at = "starting",
                          NEW u \in stack'[i].own
                   PROVE  tasks'[u].idx < Cardinality(stack'[i].own)
        OBVIOUS
      <3>1. CASE i = n
        <4>1. stack'[i] = f /\ u \in Top.own \cup {t}
          BY <1>5, <1>9, <3>1
        <4>2. c \in Nat /\ c < c + 1
          BY <1>4 DEF c
        <4>3. CASE u = t
          <5>1. tasks'[u].idx = c
            BY <1>5, <4>3
          <5> QED BY <1>13, <4>1, <4>2, <5>1
        <4>4. CASE u \in Top.own
          <5>1. tasks'[u].idx = tasks[u].idx
            BY <1>2, <1>8, <4>4
          <5>2. tasks[u].idx < c /\ tasks[u].idx \in Nat
            BY <1>12, <4>4
          <5>3. tasks[u].idx < c + 1
            BY <4>2, <5>2
          <5> QED BY <1>13, <4>1, <5>1, <5>3
        <4> QED BY <4>1, <4>3, <4>4
      <3>2. CASE i # n
        <4>1. i \in DOMAIN stack /\ stack'[i] = stack[i] /\ u \in DOMAIN tasks
          BY <1>9, <1>10, <3>2
        <4>2. tasks'[u] = tasks[u]
          BY <1>8, <4>1
        <4> QED BY <1>11, <4>1, <4>2
      <3> QED BY <3>1, <3>2
    <2>4. \A j \in DOMAIN stack : j < n => stack'[j].own = stack[j].own
      <3>1. \A j \in DOMAIN stack : j < n => j # n
        BY <1>2
      <3> QED BY <1>9, <3>1
    <2> QED BY <1>2, <1>9, <2>1, <2>2, <2>3, <2>4 DEF Joins
  <1>15. Numbered(tasks'[t])
    BY <1>1, <1>5, <1>6 DEF Numbered
  <1>16. /\ OwnersOK(tasks, stack, abandoned, nextRuntimeRefID, manifest)
         /\ ResultsOK(tasks, stack, abandoned, flags, results, got)
    BY DEF ResultsInv
  <1>17. LoopTask(tasks'[t]) /\ Resets(tasks'[t]) /\ tasks'[t].kind # "ref"
    BY <1>5, <1>6
  <1> QED BY <1>1, <1>7, <1>14, <1>15, <1>16, <1>17, LoopTaskJoins

(* Another manifest runs, when nothing is awaited.                         *)
LEMMA EnterKeepsResults ==
  ASSUME FuturesInv, ResultsInv, NEW m \in Manifests, EnterManifest(m)
  PROVE  ResultsInv'
  <1>1. stack = << >> /\ UNCHANGED <<tasks, flags, results, nextRuntimeRefID, stack, abandoned, got>>
    BY DEF EnterManifest
  <1>2. \A i, t : ~Owns(tasks, stack, i, t)
    BY <1>1 DEF Owns
  <1>3. OwnersOK(tasks, stack, abandoned, nextRuntimeRefID, manifest')
    BY <1>2 DEF ResultsInv, OwnersOK
  <1> QED BY <1>1, <1>3 DEF ResultsInv

LEMMA ResultsNext ==
  ASSUME FuturesInv, ResultsInv, [AwaitsNext]_awaitsVars
  PROVE  ResultsInv'
  <1>0. FuturesInv'
    BY FuturesNext
  <1>1. CASE Op \/ SyncBranch
    BY <1>0, <1>1, OpKeepsResults
  <1>2. CASE StartBranch
    BY <1>0, <1>2, StartBranchKeepsResults
  <1>3. CASE HostPump
    BY <1>3, HostPumpKeepsResults
  <1>4. CASE Loop
    BY <1>0, <1>4, MovesKeepResults, ReturnsKeepResults, DrivesKeepResults,
       ServeCallKeepsResults, EndServeKeepsResults DEF Loop
  <1>5. ASSUME NEW t \in Made, Finish(t) \/ Ask(t) \/ CallOut(t)
        PROVE  ResultsInv'
    BY <1>0, <1>5, FinishKeepsResults, AskKeepsResults, CallOutKeepsResults
  <1>6. CASE SpawnBackground \/ SpawnSend \/ SpawnBlocking
    BY <1>6, SpawnKeepsResults
  <1>7. ASSUME NEW i \in 1..MaxDepth, Expire(i)
        PROVE  ResultsInv'
    BY <1>7, ExpireKeepsResults
  <1>8. CASE UNCHANGED awaitsVars
    BY <1>8 DEF awaitsVars, ResultsInv
  <1>9. ASSUME NEW m \in Manifests, EnterManifest(m)
        PROVE  ResultsInv'
    BY <1>9, EnterKeepsResults
  <1> QED BY <1>1, <1>2, <1>3, <1>4, <1>5, <1>6, <1>7, <1>8, <1>9 DEF AwaitsNext

(* What Collect returns.                                                   *)
LEMMA CollectedIsOwn ==
  ASSUME FuturesInv, ResultsInv, Collect, NEW t \in Ids, got'[t] # got[t]
  PROVE  GotFairly(t, got'[t])
  <1> DEFINE n == Len(stack)
             u == got'[t]
  <1>1. stack # << >> /\ ~TopRust /\ \A o \in Top.own : Flag(o) \in flags
    BY DEF Collect, TopAt
  <1>2. t \in Top.own /\ u = results[ResultVar(t)]
    BY DEF Collect
  <1>3. /\ n \in DOMAIN stack /\ Top = stack[n] /\ t \in DOMAIN tasks /\ stack \in Seq(Frame)
        /\ \A i \in DOMAIN stack : i \in Nat
    BY <1>1, <1>2, TheTop, TheTasks DEF FramesOK
  <1>4. tasks[t].kind \notin RustKinds /\ KindOK(tasks[t])
    BY <1>1, <1>2, <1>3, TheTasks DEF TopRust, IsRust
  <1>5. FlagOf(tasks[t]) \in flags /\ ResultOf(tasks[t]) = ResultVar(t)
    BY <1>1, <1>2 DEF Flag, ResultVar, FlagOf, ResultOf
  <1>6. u \in 0..MaxTasks /\ t \in Nat
    <2>1. ResultOf(tasks[t]) \in Variables
      BY <1>3, <1>4, TheTasks, VariablesAre
    <2>2. results \in [Variables -> 0..MaxTasks]
      BY TheTasks DEF ScalarsOK
    <2> QED BY <1>2, <1>5, <2>1, <2>2, AwaitNames
  <1> HIDE DEF u, n
  <1>7. got[t] = 0 /\ Sees(tasks, stack, abandoned, flags, results, n, t)
    <2>1. Owns(tasks, stack, n, t)
      BY <1>2, <1>3, <1>4 DEF Owns
    <2> QED BY <1>3, <2>1 DEF ResultsInv, ResultsOK
  <1>13. \A w : Crosses(tasks, abandoned, t, w) => w \in Crossed(t)
    BY DEF Crosses, Crossed, FlagOf, Flag
  <1>10. u # 0
    BY <1>7 DEF u
  <1>12. Misled(stack, abandoned, n, t, u) => u \in Misleading(t)
    <2>1. CASE u \in abandoned
      BY <2>1 DEF Misleading
    <2>2. CASE t < u
      <3>1. u \in (t + 1)..MaxTasks
        BY <1>6, <2>2, AwaitNames
      <3> QED BY <3>1 DEF Misleading
    <2>3. ASSUME NEW j \in DOMAIN stack, j < n, u \in stack[j].own
          PROVE  u \in Misleading(t)
      <3>1. /\ \A i : i \in DOMAIN Front(stack) <=> i \in DOMAIN stack /\ i # n
            /\ \A i \in DOMAIN Front(stack) : Front(stack)[i] = stack[i]
        <4>1. \E s : s = Front(stack)
          OBVIOUS
        <4> QED BY <1>1, <1>3, <4>1, PoppedSeq DEF n
      <3>2. j # n
        BY <1>3, <2>3
      <3>3. stack[j] \in ToSet(Front(stack))
        BY <3>1, <3>2 DEF ToSet
      <3> QED BY <2>3, <3>3 DEF Misleading
    <2> QED BY <2>1, <2>2, <2>3 DEF Misled
  <1>8. CASE Determined(tasks, abandoned, flags, t)
    <2>1. Gets(tasks, stack, abandoned, n, t, u)
      BY <1>2, <1>5, <1>7, <1>8 DEF Sees
    <2> QED BY <1>10, <1>12, <1>13, <2>1 DEF Gets, GotFairly, u
  <1>9. CASE ~Determined(tasks, abandoned, flags, t)
    <2>1. tasks[t].kind = "ref" /\ tasks[t].state # "over"
      BY <1>9 DEF Determined
    <2>2. \E w : Crosses(tasks, abandoned, t, w)
      BY <1>5, <1>7, <2>1 DEF Sees
    <2>3. tasks[t].bind \/ \E w : Crosses(tasks, abandoned, t, w) /\ tasks[w].bind
      BY <1>5, <1>9 DEF Determined
    <2> QED BY <1>13, <2>2, <2>3 DEF GotFairly
  <1> QED BY <1>8, <1>9

LEMMA StepsGetTheirOwn ==
  ASSUME FuturesInv, ResultsInv, AwaitsNext, NEW t \in Ids, got'[t] # got[t]
  PROVE  GotFairly(t, got'[t])
  <1>1. CASE Collect
    BY <1>1, CollectedIsOwn
  <1>2. CASE DriveDone
    <2>1. PICK u \in Top.own : got' = [got EXCEPT ![u] = u]
      BY <1>2 DEF DriveDone
    <2>2. got \in [Ids -> 0..MaxTasks]
      BY TheTasks DEF ScalarsOK
    <2> QED BY <2>1, <2>2 DEF GotFairly
  <1>3. ~UNCHANGED got
    OBVIOUS
  <1>4. ~(Op \/ SyncBranch \/ StartBranch \/ HostPump)
    BY <1>3 DEF Op, SyncBranch, StartBranch, HostPump
  <1>5. Loop => Collect \/ DriveDone
    BY <1>3 DEF Loop, Branched, StartPump, TimeOut, EndPump, TimeOutRust, StartDrive,
       DriveNotFound, DrivePending, ServeCall, EndServe
  <1>6. ~(\E o \in Made : Finish(o) \/ Ask(o) \/ CallOut(o))
    BY <1>3 DEF Finish, Ask, CallOut
  <1>7. ~(SpawnBackground \/ SpawnSend \/ SpawnBlocking)
    BY <1>3 DEF SpawnBackground, SpawnSend, SpawnBlocking, SpawnRust
  <1>8. ~(\E i \in 1..MaxDepth : Expire(i))
    BY <1>3 DEF Expire
  <1>9. ~(\E m \in Manifests : EnterManifest(m))
    BY <1>3 DEF EnterManifest
  <1> QED BY <1>1, <1>2, <1>4, <1>5, <1>6, <1>7, <1>8, <1>9 DEF AwaitsNext

(* An await returns the result of its own task; where the awaits of a      *)
(* manifest share their variables, that of another one only if it was      *)
(* abandoned, is awaited further out or began later; where manifests share *)
(* theirs, only if another one abandoned an await of the same number.      *)
THEOREM AwaitsGetTheirOwn == AwaitsSpec => OwnResults
  <1>1. AwaitsInit => FuturesInv /\ ResultsInv
    BY FuturesInit, ResultsStart
  <1>2. FuturesInv /\ ResultsInv /\ [AwaitsNext]_awaitsVars => (FuturesInv /\ ResultsInv)'
    BY FuturesNext, ResultsNext
  <1>3. FuturesInv /\ ResultsInv /\ [AwaitsNext]_awaitsVars =>
          [\A t \in Ids : got'[t] # got[t] => GotFairly(t, got'[t])]_awaitsVars
    BY StepsGetTheirOwn
  <1> QED BY <1>1, <1>2, <1>3, PTL DEF AwaitsSpec, OwnResults
=============================================================================
