------------------------------ MODULE Channels ------------------------------
(***************************************************************************)
(* Channels, select, spawn and wait of the manifest executor               *)
(* (pkg/manifest/channels.go), with the guest side of a channel: a stream  *)
(* pulled through HandleCall (pkg/manifest/stubs.go).                      *)
(*                                                                         *)
(* One channel is shared by the executor, Main, and by spawned goroutines, *)
(* the Workers: the builtins recv and wait, a Rust send_async that retries *)
(* send_wait, and a Go function that calls back into guest code, which the *)
(* bridge marshals to the Golden Thread.  In blocking mode Main is on the  *)
(* Golden Thread and serves such calls only while it waits; in cooperative *)
(* mode it is on a goroutine and the host driver serves them at any time.  *)
(* What a Go channel does with blocked receivers and senders is modelled   *)
(* as the language defines it.                                             *)
(*                                                                         *)
(* accepted, taken, told, stolen and raced are history variables.          *)
(***************************************************************************)
EXTENDS Naturals, Sequences, SequencesExt, FiniteSets

CONSTANTS
  Workers, Main,
  Sizes,     (* sizes of the channel, 0 for an unbuffered one                *)
  Modes,     (* subset of BOOLEAN: is the run cooperative                    *)
  Batch,     (* max_n of a batched pull                                      *)
  MaxOps,    (* bound: operations of the executor                            *)
  MaxValues  (* bound: values offered to the channel                         *)

Procs == Workers \cup {Main}
Kinds == {"recv", "wait", "send_async", "callback", "inline"}
Values == 1..MaxValues

ASSUME ChannelsAssumption ==
  /\ Main \notin Workers /\ Sizes \subseteq Nat /\ Modes \subseteq BOOLEAN
  /\ Batch \in Nat \ {0} /\ MaxOps \in Nat /\ MaxValues \in Nat

VARIABLES
  coop,      (* submitCtx # nil                                              *)
  size, buf, closed,  (* the ChanRef                                         *)
  proc,      (* what Main and the workers are doing                          *)
  calls,     (* workers with a guest call waiting for the Golden Thread      *)
  handle,    (* the channel's stream handle: "live" or "released"            *)
  ops, offered,
  accepted,  (* values that entered the channel, in order                    *)
  taken,     (* values that left it, in order                                *)
  told,      (* values whose sender was told they went in                    *)
  stolen,    (* another receiver took a value during this pull               *)
  raced      (* the channel was closed after this select looked              *)

chanVars == <<buf, closed, accepted, taken>>
history == <<told, stolen, raced>>
vars == <<coop, size, chanVars, proc, calls, handle, ops, offered, history>>

(* at: "idle", "done"; "receiving" in recv; "resolving", "selecting" and   *)
(* "blocked" in select; "pulling" and "taking" in a pull; "waiting"; a     *)
(* send_async is "retrying", a callback "running" or "calling".            *)
Proc == [kind : Kinds \cup {"none", "main"}, val : Values \cup {0},
         at : {"idle", "done", "receiving", "resolving", "selecting", "blocked",
               "pulling", "taking", "waiting", "retrying", "running", "calling",
               "panicked"},
         cases : SUBSET {"recv", "send"}, default : BOOLEAN,
         pending : BOOLEAN, hand : 0..Batch, max : {1, Batch},
         for : SUBSET Workers]

Resting(kind) == [kind |-> kind, val |-> 0, at |-> "idle", cases |-> {},
                  default |-> FALSE, pending |-> FALSE, hand |-> 0, max |-> 1,
                  for |-> {}]

Init ==
  /\ coop \in Modes /\ size \in Sizes /\ buf = << >> /\ closed = FALSE
  /\ proc = [p \in Procs |-> Resting(IF p = Main THEN "main" ELSE "none")]
  /\ calls = {} /\ handle = "live" /\ ops = 0 /\ offered = 0
  /\ accepted = << >> /\ taken = << >> /\ told = {} /\ stolen = FALSE
  /\ raced = FALSE

----------------------------------------------------------------------------
(* The Go channel                                                          *)

(* After its operation Main is idle again and a worker is done.            *)
Ended(p) == [Resting(proc[p].kind) EXCEPT !.at = IF p = Main THEN "idle" ELSE "done"]
EndedWith(p, v) == [Ended(p) EXCEPT !.val = v]

Receivers == {p \in Procs : \/ proc[p].at = "receiving"
                            \/ proc[p].at = "blocked" /\ "recv" \in proc[p].cases}
Senders == {p \in Procs : proc[p].at = "blocked" /\ "send" \in proc[p].cases}
HasRoom == Len(buf) < size \/ Receivers # {}
HasValue == buf # << >> \/ Senders # {}

(* p's operation puts v into the channel and p goes on as `after`: a       *)
(* receiver that is blocked gets v at once.                                *)
Put(v, p, after) ==
  /\ accepted' = Append(accepted, v) /\ UNCHANGED closed
  /\ IF Receivers = {}
     THEN buf' = Append(buf, v) /\ proc' = [proc EXCEPT ![p] = after] /\ UNCHANGED taken
     ELSE \E r \in Receivers :
            /\ proc' = [proc EXCEPT ![p] = after, ![r] = EndedWith(r, v)]
            /\ taken' = Append(taken, v) /\ UNCHANGED buf

(* p takes the oldest value and goes on as after[value]; a sender that is  *)
(* blocked, which only Main can be, gets rid of its own.                   *)
Take(p, after) ==
  LET line == IF Senders = {} THEN buf ELSE Append(buf, proc[Main].val)
      others == [s \in Procs |-> IF s \in Senders THEN Ended(s) ELSE proc[s]]
  IN /\ buf' = Tail(line) /\ taken' = Append(taken, Head(line))
     /\ accepted' = IF Senders = {} THEN accepted ELSE Append(accepted, proc[Main].val)
     /\ proc' = [others EXCEPT ![p] = after[Head(line)]]
     /\ told' = told \cup {proc[s].val : s \in Senders} /\ UNCHANGED closed

(* Closing wakes receivers, and makes a sender that is still blocked panic. *)
Woken(p) == IF p \in Receivers THEN Ended(p)
            ELSE IF p \in Senders THEN [Ended(p) EXCEPT !.at = "panicked"]
            ELSE proc[p]
DoClose == closed' = TRUE /\ proc' = [p \in Procs |-> Woken(p)]

Selects(p) == proc[p].at \in {"resolving", "selecting", "blocked"}
Close ==
  /\ ~closed /\ DoClose /\ raced' = (raced \/ \E p \in Procs : Selects(p))
  /\ UNCHANGED <<coop, size, buf, accepted, taken, handle, told, stolen>>

(* A value taken by another process than the one that is pulling.          *)
Steals == stolen' = (stolen \/ proc[Main].at = "taking")

----------------------------------------------------------------------------
(* Operations of the executor                                              *)

Begins == proc[Main].at = "idle" /\ ops < MaxOps /\ ops' = ops + 1
Unmoved == UNCHANGED <<coop, size, handle, calls>>
Offer(v) == v = offered + 1 /\ v \in Values /\ offered' = v

(* send and the op "send": false, or nothing, for a value not accepted.    *)
SendNonBlocking ==
  /\ Begins /\ Unmoved /\ \E v \in Values :
       /\ Offer(v)
       /\ IF ~closed /\ HasRoom
          THEN Put(v, Main, proc[Main]) /\ told' = told \cup {v}
          ELSE UNCHANGED <<chanVars, proc, told>>
  /\ UNCHANGED <<stolen, raced>>

(* The op "recv": the oldest value, or nil.                                *)
RecvNonBlocking ==
  /\ Begins /\ Unmoved
  /\ IF HasValue THEN Take(Main, [v \in Values |-> [proc[Main] EXCEPT !.val = v]])
     ELSE UNCHANGED <<chanVars, proc, told>>
  /\ UNCHANGED <<offered, stolen, raced>>

OpClose == Begins /\ Close /\ UNCHANGED <<calls, offered>>

(* The builtin recv, which blocks the thread it is called on.              *)
Recv(p) ==
  IF HasValue THEN Take(p, [v \in Values |-> EndedWith(p, v)])
  ELSE /\ proc' = [proc EXCEPT ![p] = IF closed THEN Ended(p)
                                      ELSE [@ EXCEPT !.at = "receiving"]]
       /\ UNCHANGED <<chanVars, told>>

MainRecv ==
  Begins /\ Unmoved /\ Recv(Main) /\ UNCHANGED <<offered, stolen, raced>>

(* Mutant: opSelect does not ask whether the channel is closed.            *)
SelectUnchecked ==
  /\ Begins /\ Unmoved /\ \E v \in Values, default \in BOOLEAN,
                               cases \in SUBSET {"recv", "send"} \ {{}} :
       /\ Offer(v)
       /\ proc' = [proc EXCEPT ![Main] = [@ EXCEPT !.at = "resolving", !.val = v,
                       !.cases = cases, !.default = default]]
  /\ raced' = FALSE /\ UNCHANGED <<chanVars, told, stolen>>

(* opSelect builds its cases; a send to a closed channel is an error.      *)
Select ==
  /\ Begins /\ Unmoved /\ \E v \in Values, default \in BOOLEAN,
                               cases \in SUBSET {"recv", "send"} \ {{}} :
       /\ Offer(v)
       /\ IF "send" \in cases /\ closed THEN UNCHANGED proc
          ELSE proc' = [proc EXCEPT ![Main] = [@ EXCEPT !.at = "resolving",
                           !.val = v, !.cases = cases, !.default = default]]
  /\ raced' = FALSE /\ UNCHANGED <<chanVars, told, stolen>>

(* The value of a send is resolved, possibly by guest code that closes the *)
(* channel.                                                                *)
Resolve ==
  /\ proc[Main].at = "resolving"
  /\ LET me == [proc[Main] EXCEPT !.at = "selecting"]
     IN \/ proc' = [proc EXCEPT ![Main] = me] /\ UNCHANGED <<closed, raced>>
        \/ /\ "send" \in proc[Main].cases /\ ~closed /\ closed' = TRUE /\ raced' = TRUE
           /\ proc' = [p \in Procs |-> IF p = Main THEN me ELSE Woken(p)]
  /\ Unmoved
  /\ UNCHANGED <<buf, accepted, taken, ops, offered, told, stolen>>

(* reflect.Select: a case that is ready, the default or the timeout; what  *)
(* a receive case receives is not bound to anything.                       *)
SelectReady(what) ==
  /\ what \in proc[Main].cases
  /\ IF what = "recv" THEN closed \/ HasValue ELSE closed \/ HasRoom
SelectFires ==
  /\ proc[Main].at = "selecting" /\ Unmoved
  /\ \/ /\ SelectReady("recv") /\ Recv(Main)
     \/ /\ SelectReady("send") /\ closed /\ UNCHANGED <<chanVars, told>>
        /\ proc' = [proc EXCEPT ![Main] = [Ended(Main) EXCEPT !.at = "panicked"]]
     \/ /\ SelectReady("send") /\ ~closed
        /\ Put(proc[Main].val, Main, Ended(Main))
        /\ told' = told \cup {proc[Main].val}
     \/ /\ ~SelectReady("recv") /\ ~SelectReady("send")
        /\ proc' = [proc EXCEPT ![Main] = IF @.default THEN Ended(Main)
                                          ELSE [@ EXCEPT !.at = "blocked"]]
        /\ UNCHANGED <<chanVars, told>>
  /\ UNCHANGED <<ops, offered, stolen, raced>>

(* "select: no case ready", after 100 ms.                                  *)
SelectTimeout ==
  /\ proc[Main].at = "blocked" /\ Unmoved
  /\ proc' = [proc EXCEPT ![Main] = Ended(Main)]
  /\ UNCHANGED <<chanVars, ops, offered, history>>

----------------------------------------------------------------------------
(* A guest pulls the stream                                                *)

Pull ==
  /\ Begins /\ Unmoved /\ handle = "live"
  /\ \E pending \in BOOLEAN, max \in {1, Batch} :
       proc' = [proc EXCEPT ![Main] = [@ EXCEPT !.at = "pulling", !.hand = 0,
                                         !.pending = pending, !.max = max]]
  /\ stolen' = FALSE /\ UNCHANGED <<chanVars, offered, told, raced>>

(* Mutant: only an empty-handed pull asks chanRefOpenEmpty.                *)
PullLooksOnce ==
  /\ proc[Main].at = "pulling" /\ Unmoved
  /\ IF proc[Main].pending /\ proc[Main].hand = 0 /\ ~closed /\ buf = << >>
     THEN proc' = [proc EXCEPT ![Main] = Ended(Main)] /\ UNCHANGED stolen
     ELSE proc' = [proc EXCEPT ![Main].at = "taking"] /\ stolen' = FALSE
  /\ UNCHANGED <<chanVars, ops, offered, told, raced>>

(* chanRefOpenEmpty: the answer is pending, or the values in hand.         *)
PullLooks ==
  /\ proc[Main].at = "pulling" /\ Unmoved
  /\ IF proc[Main].pending /\ ~closed /\ buf = << >>
     THEN proc' = [proc EXCEPT ![Main] = Ended(Main)] /\ UNCHANGED stolen
     ELSE proc' = [proc EXCEPT ![Main].at = "taking"] /\ stolen' = FALSE
  /\ UNCHANGED <<chanVars, ops, offered, told, raced>>

(* recvStreamValue: a value, or the end of the stream and of its handle.   *)
(* A value the bridge cannot wrap is gone, and ends the pull.              *)
AfterValue ==
  IF proc[Main].hand + 1 < proc[Main].max
  THEN [proc[Main] EXCEPT !.at = "pulling", !.hand = @ + 1] ELSE Ended(Main)
NotWrapped == Ended(Main)

PullTakes ==
  /\ proc[Main].at = "taking" /\ UNCHANGED <<coop, size, calls, ops, offered, stolen, raced>>
  /\ IF HasValue
     THEN /\ \/ Take(Main, [v \in Values |-> AfterValue])
             \/ Take(Main, [v \in Values |-> NotWrapped])
          /\ UNCHANGED handle
     ELSE /\ handle' = "released" /\ UNCHANGED <<chanVars, told>>
          /\ proc' = [proc EXCEPT ![Main] = Ended(Main)]

(* stream_cancel, or the end of a foreach loop by a break or an error.     *)
StreamCancel ==
  /\ Begins /\ handle = "live" /\ handle' = "released"
  /\ UNCHANGED <<coop, size, chanVars, proc, calls, offered, history>>

----------------------------------------------------------------------------
(* Spawn and wait                                                          *)

(* opSpawn gives the new handle a goroutine of its own.                    *)
Spawn(w) ==
  /\ Begins /\ Unmoved /\ proc[w].kind = "none"
  /\ \E kind \in Kinds \ {"inline"}, for \in SUBSET (Workers \ {w}) :
       /\ kind = "wait" <=> for # {}
       /\ \A u \in for : proc[u].kind # "none"
       /\ IF kind = "send_async" THEN Offer(offered + 1) ELSE UNCHANGED offered
       /\ proc' = [proc EXCEPT ![w] = [Resting(kind) EXCEPT !.for = for,
            !.val = IF kind = "send_async" THEN offered + 1 ELSE 0,
            !.at = CASE kind = "send_async" -> "retrying"
                     [] kind = "wait" -> "waiting" [] OTHER -> "running"]]
  /\ UNCHANGED <<chanVars, history>>

(* A manifest function runs at once, on the executor, which is not safe to *)
(* share: its handle is made complete.                                     *)
SpawnInline(w) ==
  /\ Begins /\ Unmoved /\ proc[w].kind = "none"
  /\ proc' = [proc EXCEPT ![w] = [Resting("inline") EXCEPT !.at = "done"]]
  /\ UNCHANGED <<chanVars, offered, history>>

(* A spawned recv.                                                         *)
WorkerRecv(w) ==
  /\ proc[w].kind = "recv" /\ proc[w].at = "running" /\ Recv(w)
  /\ IF HasValue THEN Steals ELSE UNCHANGED stolen
  /\ Unmoved /\ UNCHANGED <<ops, offered, raced>>

(* Mutant: sendStatus says full although a receiver has taken the value.   *)
SendStatusLies(w) ==
  /\ proc[w].at = "retrying" /\ Unmoved
  /\ IF closed THEN proc' = [proc EXCEPT ![w] = Ended(w)] /\ UNCHANGED <<chanVars, told>>
     ELSE /\ HasRoom
          /\ IF Len(buf) < size
             THEN Put(proc[w].val, w, Ended(w)) /\ told' = told \cup {proc[w].val}
             ELSE Put(proc[w].val, w, proc[w]) /\ UNCHANGED told
  /\ UNCHANGED <<ops, offered, stolen, raced>>

(* send_wait: "sent" and "closed" end a send_async; at "pending" it tries  *)
(* again.                                                                  *)
SendStatus(w) ==
  /\ proc[w].at = "retrying" /\ Unmoved
  /\ IF closed THEN proc' = [proc EXCEPT ![w] = Ended(w)] /\ UNCHANGED <<chanVars, told>>
     ELSE /\ HasRoom /\ Put(proc[w].val, w, Ended(w))
          /\ told' = told \cup {proc[w].val}
  /\ UNCHANGED <<ops, offered, stolen, raced>>

(* goPluginBridge marshals the call.                                       *)
CallGuest(w) ==
  /\ proc[w].kind = "callback" /\ proc[w].at = "running"
  /\ proc' = [proc EXCEPT ![w].at = "calling"] /\ calls' = calls \cup {w}
  /\ UNCHANGED <<coop, size, chanVars, handle, ops, offered, history>>

(* The function returns or panics, and its handle is completed.            *)
Complete(w) ==
  /\ proc[w].kind = "callback" /\ proc[w].at = "running"
  /\ proc' = [proc EXCEPT ![w] = Ended(w)]
  /\ Unmoved /\ UNCHANGED <<chanVars, ops, offered, history>>

(* Mutant: the executor only blocks.                                       *)
PumpsNever(p) == FALSE

(* pumpWaitDone: in blocking mode whoever waits pumps, on his own thread.  *)
Pumps(p) == proc[p].at = "waiting" /\ ~coop

(* A guest call is served by a waiting process, or by the host driver      *)
(* (under Main's name) when it is not busy with guest code that pulls; the *)
(* guest code may call a manifest function that closes the channel.        *)
Serve(p, w) ==
  /\ w \in calls /\ calls' = calls \ {w}
  /\ Pumps(p) \/ (coop /\ p = Main /\ proc[Main].at \notin {"pulling", "taking"})
  /\ \/ UNCHANGED <<closed, raced>> /\ proc' = [proc EXCEPT ![w].at = "running"]
     \/ /\ ~closed /\ closed' = TRUE
        /\ proc' = [q \in Procs |-> IF q = w THEN [proc[w] EXCEPT !.at = "running"]
                                    ELSE Woken(q)]
        /\ raced' = (raced \/ Selects(Main))
  /\ UNCHANGED <<coop, size, buf, accepted, taken, handle, ops, offered, told, stolen>>

(* wait on some handles, or on all there are.                              *)
Wait ==
  /\ Begins /\ Unmoved
  /\ \E for \in SUBSET {w \in Workers : proc[w].kind # "none"} :
       proc' = [proc EXCEPT ![Main] = [@ EXCEPT !.at = "waiting", !.for = for]]
  /\ UNCHANGED <<chanVars, offered, history>>

Waited(p) ==
  /\ proc[p].at = "waiting" /\ \A w \in proc[p].for : proc[w].at = "done"
  /\ proc' = [proc EXCEPT ![p] = Ended(p)]
  /\ Unmoved /\ UNCHANGED <<chanVars, ops, offered, history>>

MainStep == Resolve \/ SelectFires \/ SelectTimeout \/ PullLooks \/ PullTakes
WorkerStep(w) == WorkerRecv(w) \/ SendStatus(w) \/ CallGuest(w)

Next ==
  \/ SendNonBlocking \/ RecvNonBlocking \/ OpClose \/ MainRecv \/ Select \/ Pull
  \/ StreamCancel \/ Wait \/ MainStep
  \/ \E w \in Workers : Spawn(w) \/ SpawnInline(w) \/ WorkerStep(w) \/ Complete(w)
  \/ \E p \in Procs : Waited(p) \/ \E w \in Workers : Serve(p, w)

Spec == Init /\ [][Next]_vars

(* Threads run; a function that is spawned ends after some guest calls.    *)
FairSpec ==
  /\ Spec /\ WF_vars(MainStep)
  /\ \A w \in Workers : WF_vars(WorkerStep(w)) /\ SF_vars(Complete(w))
  /\ \A p \in Procs : WF_vars(Waited(p)) /\ WF_vars(\E w \in Workers : Serve(p, w))

----------------------------------------------------------------------------
(* The type invariant.                                                     *)
TypeOK ==
  /\ coop \in Modes /\ size \in Sizes /\ buf \in Seq(Values) /\ closed \in BOOLEAN
  /\ Len(buf) <= size /\ proc \in [Procs -> Proc] /\ calls \subseteq Workers
  /\ handle \in {"live", "released"} /\ ops \in 0..MaxOps /\ offered \in Values \cup {0}

(* Values leave the channel in the order they entered it, each once, and a *)
(* sender is told that its value went in exactly when it did: send never   *)
(* lies about a dropped value, and send_wait asks for a retry only of a    *)
(* value that is not in the channel.                                       *)
ValuesAreKept ==
  /\ TypeOK /\ accepted = taken \o buf /\ IsInjective(accepted)
  /\ Range(accepted) = told

(* A select panics only if the channel was closed after it had looked.     *)
PanicNeedsRace == proc[Main].at = "panicked" => raced

(* The handle of a stream that is pulled with pending lives as long as the *)
(* channel is open, unless another receiver takes the value between the    *)
(* look and the pull.                                                      *)
LiveStreamsStay ==
  [][handle' # handle /\ proc[Main].pending => closed \/ stolen]_vars

(* A wait of the executor returns once everything it waits for can: guest  *)
(* calls of spawned goroutines are served meanwhile.  A recv nobody sends  *)
(* to, and a send_async nobody makes room for, are waited for for ever.    *)
Stuck(w) == proc[w].at \in {"receiving", "retrying"}
WaitsReturn ==
  proc[Main].at = "waiting" ~>
    proc[Main].at # "waiting" \/ [](\E w \in Workers : Stuck(w))
=============================================================================
