----------------------------- MODULE ControlFlow -----------------------------
(***************************************************************************)
(* How the manifest executor interprets ops: pkg/manifest/executor.go, and *)
(* the calls back into it of pkg/manifest/stubs.go.                        *)
(*                                                                         *)
(* The interpreter is recursive; its recursion is a stack of frames: the   *)
(* run, manifest functions, loops, tries, and guest code that may call a   *)
(* manifest function in turn.  A frame is named by its position.  Return,  *)
(* break, continue, a throw and an error all travel up as Go errors, and   *)
(* whatever a frame has opened (a scope with its handle scope, the values  *)
(* a generator collects, the stream a loop pulls) must be closed on every  *)
(* way out.                                                                *)
(*                                                                         *)
(* The arms of an if and the cases of a select are ops like those around   *)
(* them and make no frame.  What ops do to bindings is in Bindings.        *)
(***************************************************************************)
EXTENDS Naturals, Sequences, SequencesExt, FiniteSets

CONSTANTS
  Channels,      (* channels that foreach loops may share                    *)
  MaxIterations, (* maxIterations of opLoop                                  *)
  MaxDepth,      (* bound: frames                                            *)
  MaxOps         (* bound: ops executed                                      *)

Positions == 1..MaxDepth
None == 0

ASSUME ControlFlowAssumption ==
  /\ MaxIterations \in Nat \ {0} /\ MaxDepth \in Nat \ {0} /\ MaxOps \in Nat
  /\ Channels \cap (0..MaxDepth) = {}

VARIABLES
  frames,        (* the interpreter's stack, innermost last                  *)
  signal,        (* the error that is on its way up                          *)
  scopes,        (* e.scopes: the frame that opened each, None for globals   *)
  handleScopes,  (* how many e.handleScopes there are                        *)
  handles,       (* live handles that belong to a handle scope               *)
  yieldCollectors, (* the generator that opened each collector, with what   *)
                 (* it holds                                                 *)
  phase,         (* "running" Execute, or a loaded "module"                  *)
  disturbed,     (* history: a panic has passed an open catch or generator   *)
  ops

vars == <<frames, signal, scopes, handleScopes, handles, yieldCollectors, phase,
          disturbed, ops>>

Loops == {"while", "each", "stream"}
Functions == {"func", "generator"}
Kinds == Loops \cup Functions \cup {"run", "try", "guest"}

(* aim is history: the frame that ought to take the signal.                 *)
Signal == [kind : {"none", "return", "break", "continue", "throw", "error"},
           aim : 0..MaxDepth]
Quiet == [kind |-> "none", aim |-> None]
ControlFlow == {"return", "break", "continue"}

(* at: a stream loop is "pulling" or in its "body", a try in its "body",    *)
(* "catch" or "finally"; count: iterations of a loop, yields of a           *)
(* generator; saved: the outcome that a finally body precedes.              *)
Frame == [kind : Kinds, at : {"body", "pulling", "catch", "finally"},
          count : Nat, catches : BOOLEAN, stream : Channels \cup (0..MaxDepth),
          saved : Signal]
Handle == [scope : Nat \ {0}, owner : 0..MaxDepth, stream : Channels \cup (0..MaxDepth)]

Depth == Len(frames)
Top == Last(frames)
TopIs(kinds) == frames # << >> /\ Top.kind \in kinds
Fresh(kind) == [kind |-> kind, at |-> "body", count |-> 0, catches |-> FALSE,
                stream |-> None, saved |-> Quiet]

Init ==
  /\ frames = << Fresh("run") >> /\ signal = Quiet /\ scopes = << None >>
  /\ handleScopes = 1 /\ handles = {} /\ yieldCollectors = << >>
  /\ phase = "running" /\ disturbed = FALSE /\ ops = 0

----------------------------------------------------------------------------
(* Scopes and handles                                                      *)

scopeVars == <<scopes, handleScopes, handles>>

PushScope(owner) ==
  /\ scopes' = Append(scopes, owner) /\ handleScopes' = handleScopes + 1
  /\ UNCHANGED handles

(* popScope with releaseLastHandleScope; the scope of the globals stays.    *)
PopScope ==
  IF Len(scopes) = 1 THEN UNCHANGED scopeVars
  ELSE /\ scopes' = Front(scopes)
       /\ handleScopes' = IF handleScopes = 0 THEN 0 ELSE handleScopes - 1
       /\ handles' = {h \in handles : h.scope # handleScopes}

(* Registering a value makes a first handle scope if there is none.         *)
CurrentScope == IF handleScopes = 0 THEN 1 ELSE handleScopes
Register(stream) ==
  /\ handleScopes' = CurrentScope
  /\ handles' = handles \cup {[scope |-> CurrentScope, owner |-> Last(scopes),
                               stream |-> stream]}
  /\ UNCHANGED scopes

ReleaseStream(s) == handles' = {h \in handles : h.stream # s}

----------------------------------------------------------------------------
(* Signals                                                                 *)

(* What takes a signal of a kind: its own loop, function or catch, and any  *)
(* finally body, whose outcome is ignored.                                  *)
Takes(f, kind) ==
  \/ f.kind \in Functions \cup {"run"}
  \/ f.kind = "try" /\ f.at = "finally"
  \/ f.kind \in Loops /\ kind \in {"break", "continue"}
  \/ f.kind = "try" /\ f.at = "body" /\ f.catches /\ kind \notin ControlFlow
Aim(fs, kind) == CHOOSE i \in DOMAIN fs : /\ Takes(fs[i], kind)
                                          /\ \A j \in i+1..Len(fs) : ~Takes(fs[j], kind)
Raise(fs, kind) == signal' = [kind |-> kind, aim |-> Aim(fs, kind)]

SetTop(f) == frames' = [frames EXCEPT ![Depth] = f]
Pop == frames' = Front(frames)
Push(f) == frames' = Append(frames, f)

----------------------------------------------------------------------------
(* Ops                                                                     *)

Executes ==
  /\ signal = Quiet /\ TopIs(Kinds \ {"guest"}) /\ Top.at # "pulling"
  /\ ops < MaxOps /\ ops' = ops + 1
Enters == Executes /\ Depth < MaxDepth

(* An op that fails, return, throw, and native break and continue.          *)
Fail == /\ Executes /\ \E kind \in {"return", "break", "continue", "throw", "error"} :
             Raise(frames, kind)
        /\ UNCHANGED <<frames, scopeVars, yieldCollectors, phase, disturbed>>

(* exec, eval and conditions run guest code.                                *)
Exec == /\ Enters /\ Push(Fresh("guest"))
        /\ UNCHANGED <<signal, scopeVars, yieldCollectors, phase, disturbed>>

(* resource and table ops register a value, and so do the bridge calls of   *)
(* guest code.                                                              *)
OpTable ==
  /\ \/ Executes
     \/ /\ (signal = Quiet /\ TopIs({"guest"})) \/ frames = << >>
        /\ ops < MaxOps /\ ops' = ops + 1
  /\ Register(None)
  /\ UNCHANGED <<frames, signal, yieldCollectors, phase, disturbed>>

(* A yield goes to the last collector; it stands in the body of a           *)
(* generator, as manifests have it.                                         *)
Here == CHOOSE i \in 0..Depth :
          /\ i # None => frames[i].kind \in Functions
          /\ \A j \in i+1..Depth : frames[j].kind \notin Functions
OpYield ==
  /\ Executes /\ Here # None /\ frames[Here].kind = "generator"
  /\ yieldCollectors' = [yieldCollectors EXCEPT ![Len(yieldCollectors)].holds = @ + 1]
  /\ frames' = [frames EXCEPT ![Here].count = @ + 1]
  /\ UNCHANGED <<signal, scopeVars, phase, disturbed>>

OpLoop == /\ Enters /\ \E kind \in {"while", "each"} : Push([Fresh(kind) EXCEPT !.count = 1])
          /\ UNCHANGED <<signal, scopeVars, yieldCollectors, phase, disturbed>>

(* A foreach over a channel shares the channel's handle; one over the call  *)
(* of a native generator has a handle of its own.                           *)
OpForeachStream ==
  /\ Enters
  /\ \E s \in Channels \cup {Depth + 1} :
       /\ Push([Fresh("stream") EXCEPT !.at = "pulling", !.stream = s])
       /\ IF \E h \in handles : h.stream = s THEN UNCHANGED scopeVars ELSE Register(s)
  /\ UNCHANGED <<signal, yieldCollectors, phase, disturbed>>

OpTry == /\ Enters /\ \E c \in BOOLEAN : Push([Fresh("try") EXCEPT !.catches = c])
         /\ UNCHANGED <<signal, scopeVars, yieldCollectors, phase, disturbed>>

----------------------------------------------------------------------------
(* Calls                                                                   *)

(* dispatchBridgeFunc.                                                      *)
Call == /\ Depth < MaxDepth
        /\ \E kind \in Functions :
             /\ Push(Fresh(kind)) /\ PushScope(Depth + 1)
             /\ yieldCollectors' = IF kind = "func" THEN yieldCollectors
                  ELSE Append(yieldCollectors, [of |-> Depth + 1, holds |-> 0])
        /\ UNCHANGED <<signal, phase, disturbed>>

(* The callers: guest code, the spawn of a manifest function, which runs    *)
(* it at once, and the host for a module that has been loaded.              *)
HandleCall == /\ \/ signal = Quiet /\ TopIs({"guest"})
                 \/ frames = << >>
              /\ ops < MaxOps /\ ops' = ops + 1 /\ Call
SpawnFuncDef == Executes /\ Call

(* The caller gets a value or an error, which is for it to deal with.       *)
LeaveFunc ==
  /\ TopIs(Functions) /\ Pop /\ PopScope /\ signal' = Quiet
  /\ yieldCollectors' = IF Top.kind = "func" THEN yieldCollectors ELSE Front(yieldCollectors)
  /\ UNCHANGED <<phase, disturbed, ops>>

(* Guest code ends, possibly with an exception.  It may have cancelled the  *)
(* stream of a channel.                                                     *)
GuestEnds ==
  /\ signal = Quiet /\ TopIs({"guest"}) /\ Pop
  /\ UNCHANGED signal \/ Raise(Front(frames), "error")
  /\ UNCHANGED <<scopeVars, yieldCollectors, phase, disturbed, ops>>
StreamCancel ==
  /\ signal = Quiet /\ TopIs({"guest"}) /\ \E c \in Channels :
       /\ \E h \in handles : h.stream = c
       /\ ReleaseStream(c)
  /\ UNCHANGED <<frames, signal, scopes, handleScopes, yieldCollectors, phase, disturbed, ops>>

(* An op panics: HandleCall recovers, after the deferred popScope of the    *)
(* innermost function.  A panic in the run itself ends the process.         *)
Panic ==
  /\ Executes /\ Here # None
  /\ frames' = SubSeq(frames, 1, Here - 1)
  /\ disturbed' = (disturbed \/ frames[Here].kind = "generator"
                   \/ \E j \in Here+1..Depth : frames[j].at = "catch")
  /\ PopScope /\ UNCHANGED <<signal, yieldCollectors, phase>>

(* Execute returns: the handle scopes of the run end.                       *)
LeaveRun ==
  /\ TopIs({"run"}) /\ Pop /\ signal' = Quiet /\ phase' = "module"
  /\ handleScopes' = 0 /\ handles' = {}
  /\ UNCHANGED <<scopes, yieldCollectors, disturbed, ops>>

----------------------------------------------------------------------------
(* Loops                                                                   *)

(* The condition is false or the collection at its end, or a signal other   *)
(* than continue has come out of the body.                                  *)
LeaveLoop ==
  /\ TopIs({"while", "each"}) /\ Pop
  /\ \/ signal.kind \in {"none", "break"} /\ signal' = Quiet
     \/ signal.kind \notin {"none", "break", "continue"} /\ UNCHANGED signal
  /\ UNCHANGED <<scopeVars, yieldCollectors, phase, disturbed, ops>>

(* The next iteration; opLoop gives up after maxIterations.                 *)
Iterate ==
  /\ TopIs({"while", "each"}) /\ signal.kind \in {"none", "continue"}
  /\ IF Top.count < MaxIterations
     THEN SetTop([Top EXCEPT !.count = @ + 1]) /\ signal' = Quiet
     ELSE Top.kind = "while" /\ Pop /\ Raise(Front(frames), "error")
  /\ UNCHANGED <<scopeVars, yieldCollectors, phase, disturbed, ops>>

StreamIsLive == \E h \in handles : h.stream = Top.stream

(* handleStreamNext: a value, or the end, or an error, with the handle of   *)
(* the stream released in the latter cases.  The code of a generator is     *)
(* guest code, and may call back.                                           *)
PullRuns ==
  /\ signal = Quiet /\ TopIs({"stream"}) /\ Top.at = "pulling" /\ Top.stream = Depth
  /\ Depth < MaxDepth /\ ops < MaxOps /\ ops' = ops + 1 /\ Push(Fresh("guest"))
  /\ UNCHANGED <<signal, scopeVars, yieldCollectors, phase, disturbed>>
PullEnds ==
  /\ signal.kind \in {"none", "error"} /\ TopIs({"stream"}) /\ Top.at = "pulling"
  /\ \/ /\ StreamIsLive /\ signal = Quiet /\ SetTop([Top EXCEPT !.at = "body"])
        /\ UNCHANGED <<signal, handles>>
     \/ StreamIsLive /\ Pop /\ ReleaseStream(Top.stream) /\ UNCHANGED signal
     \/ ~StreamIsLive /\ Pop /\ Raise(Front(frames), "error") /\ UNCHANGED handles
  /\ UNCHANGED <<scopes, handleScopes, yieldCollectors, phase, disturbed, ops>>

PullNext ==
  /\ TopIs({"stream"}) /\ Top.at = "body" /\ signal.kind \in {"none", "continue"}
  /\ SetTop([Top EXCEPT !.at = "pulling"]) /\ signal' = Quiet
  /\ UNCHANGED <<scopeVars, yieldCollectors, phase, disturbed, ops>>

(* Mutant: only a break closes the stream. *)
LeaveStreamOpen ==
  /\ TopIs({"stream"}) /\ Top.at = "body" /\ signal.kind \notin {"none", "continue"}
  /\ Pop
  /\ IF signal.kind = "break" THEN ReleaseStream(Top.stream) /\ signal' = Quiet
     ELSE UNCHANGED <<handles, signal>>
  /\ UNCHANGED <<scopes, handleScopes, yieldCollectors, phase, disturbed, ops>>

(* opLoopForeachStreamHandle: the stream is closed, which may fail.  What   *)
(* comes out of the loop over a generator call is wrapped once more.        *)
LeaveStream ==
  /\ TopIs({"stream"}) /\ Top.at = "body" /\ signal.kind \notin {"none", "continue"}
  /\ Pop /\ ReleaseStream(Top.stream)
  /\ \/ /\ signal.kind = "break" /\ signal' = Quiet
     \/ /\ signal.kind # "break"
        /\ IF Top.stream = Depth THEN Raise(Front(frames), "error") ELSE UNCHANGED signal
     \/ StreamIsLive /\ Raise(Front(frames), "error")
  /\ UNCHANGED <<scopes, handleScopes, yieldCollectors, phase, disturbed, ops>>

----------------------------------------------------------------------------
(* Tries                                                                   *)

ToFinally(outcome) ==
  SetTop([Top EXCEPT !.at = "finally", !.saved = outcome]) /\ signal' = Quiet

(* Mutant: return, break and continue skip the finally body. *)
LeaveTryBodyAtOnce ==
  /\ TopIs({"try"}) /\ Top.at = "body"
  /\ IF signal.kind \in {"throw", "error"} /\ Top.catches
     THEN SetTop([Top EXCEPT !.at = "catch"]) /\ PushScope(Depth) /\ signal' = Quiet
     ELSE IF signal.kind \in ControlFlow THEN Pop /\ UNCHANGED <<signal, scopeVars>>
     ELSE ToFinally(signal) /\ UNCHANGED scopeVars
  /\ UNCHANGED <<yieldCollectors, phase, disturbed, ops>>

(* A throw or an error goes to the catch, in a scope of its own.            *)
LeaveTryBody ==
  /\ TopIs({"try"}) /\ Top.at = "body"
  /\ IF signal.kind \in {"throw", "error"} /\ Top.catches
     THEN SetTop([Top EXCEPT !.at = "catch"]) /\ PushScope(Depth) /\ signal' = Quiet
     ELSE ToFinally(signal) /\ UNCHANGED scopeVars
  /\ UNCHANGED <<yieldCollectors, phase, disturbed, ops>>

LeaveCatch ==
  /\ TopIs({"try"}) /\ Top.at = "catch" /\ ToFinally(signal) /\ PopScope
  /\ UNCHANGED <<yieldCollectors, phase, disturbed, ops>>

(* runFinally ignores what its body ends with.                              *)
LeaveFinally ==
  /\ TopIs({"try"}) /\ Top.at = "finally" /\ Pop /\ signal' = Top.saved
  /\ UNCHANGED <<scopeVars, yieldCollectors, phase, disturbed, ops>>

----------------------------------------------------------------------------

Next ==
  \/ Fail \/ Exec \/ OpTable \/ OpYield \/ OpLoop \/ OpForeachStream \/ OpTry
  \/ HandleCall \/ SpawnFuncDef \/ LeaveFunc \/ GuestEnds \/ StreamCancel \/ Panic
  \/ LeaveRun \/ LeaveLoop \/ Iterate \/ PullRuns \/ PullEnds \/ PullNext \/ LeaveStream
  \/ LeaveTryBody \/ LeaveCatch \/ LeaveFinally

Spec == Init /\ [][Next]_vars

----------------------------------------------------------------------------
(* Properties                                                              *)

TypeOK ==
  /\ frames \in Seq(Frame) /\ Depth <= MaxDepth /\ signal \in Signal
  /\ scopes \in Seq(0..MaxDepth) /\ scopes # << >> /\ handleScopes \in Nat
  /\ handles \subseteq Handle /\ phase \in {"running", "module"}
  /\ yieldCollectors \in Seq([of : Positions, holds : Nat])
  /\ disturbed \in BOOLEAN /\ ops \in 0..MaxOps

Increasing(s) == \A i, j \in DOMAIN s : i < j => s[i] < s[j]
HasScope(i) == frames[i].kind \in Functions \/ frames[i].at = "catch"

(* The scopes are those of the functions and catches that are running, in   *)
(* their order, on top of the globals; each handle scope belongs to one of  *)
(* them, the innermost to the innermost, and so every handle is released    *)
(* when the scope ends in which it was made.                                *)
ScopesNest ==
  /\ Increasing(scopes)
  /\ Range(scopes) = {None} \cup {i \in DOMAIN frames : HasScope(i)}
  /\ handleScopes <= Len(scopes)
  /\ \A h \in handles : /\ h.scope <= handleScopes
                        /\ scopes[Len(scopes) - handleScopes + h.scope] = h.owner

(* Every generator that runs collects its own values and nobody else's.     *)
Collecting == [c \in DOMAIN yieldCollectors |-> yieldCollectors[c].of]
CollectorsNest ==
  /\ Increasing(Collecting)
  /\ Range(Collecting) = {i \in DOMAIN frames : frames[i].kind = "generator"}
  /\ \A c \in DOMAIN yieldCollectors :
       yieldCollectors[c].holds = frames[yieldCollectors[c].of].count

(* The stream of a generator call is closed when its loop is left.          *)
StreamsClose ==
  \A h \in handles : h.stream \in Positions =>
    h.stream \in DOMAIN frames /\ frames[h.stream].stream = h.stream

(* However a frame is left, it takes with it what it opened.  A panic in a  *)
(* catch body or a generator leaves something behind.                       *)
EverythingIsClosed ==
  TypeOK /\ (disturbed \/ (ScopesNest /\ CollectorsNest /\ StreamsClose))

(* A return ends its function, a break or continue reaches its loop, a      *)
(* throw or an error the innermost try with a catch, and none of them goes  *)
(* further or stops before, except that it ends with a finally body, and    *)
(* that a return, break or throw out of a foreach over a generator call, or *)
(* past a stream that fails to close, is an error from there on.  No try    *)
(* is left without its finally body, unless by a panic.                     *)
Arrives ==
  signal # Quiet /\ signal' # signal =>
    \/ Top.kind = "stream" /\ signal'.kind = "error"
    \/ Depth = signal.aim
    \/ Top.kind = "try" /\ Top.at # "finally" /\ frames'[Depth].saved = signal
FinallyRuns ==
  \A i \in DOMAIN frames : i > Len(frames') /\ frames[i].kind = "try" =>
    frames[i].at = "finally" \/ (signal = Quiet /\ Len(frames') < Depth - 1)
SignalsArrive == [][Arrives /\ FinallyRuns]_vars
=============================================================================
