------------------------------ MODULE Bindings ------------------------------
(***************************************************************************)
(* The variables of a manifest and their copies in the guest runtimes:     *)
(* scopes, binding versions and the injection of captures, pkg/manifest.   *)
(*                                                                         *)
(* The executor runs ops one after the other.  Before an op runs guest     *)
(* code it injects the visible bindings into globals of that runtime and   *)
(* leaves out plain values whose current version it has injected already.  *)
(* Guest code may change its own globals and may call a function of the    *)
(* manifest, whose ops then run in a scope of their own before the code    *)
(* goes on.  So scopes and guest code nest; only the innermost acts.       *)
(*                                                                         *)
(* Bindings here are plain values, copied by value, and RuntimeRefs, the   *)
(* globals of a runtime: those its own eval has bound, which are recorded  *)
(* in bindingOrigins, and those an await or a function's source has bound, *)
(* which are not.  Java, whose captures are cleared after every op,        *)
(* proxies, streams, bridge ops and arguments passed by reference, slots   *)
(* of a table in the runtime, are left out.  The handles a scope releases  *)
(* when it is popped are those of HandleTable.                             *)
(*                                                                         *)
(* The versions and records are of one Executor, of one run of a manifest. *)
(* The globals are the runtimes': earlier runs have left theirs, and other *)
(* code changes them at any time, as tasks and other manifests do.         *)
(*                                                                         *)
(* changed is a history variable: the globals that have been written other *)
(* than by an injection or under the name's own binding since this         *)
(* manifest last bound the name or injected it there.                      *)
(***************************************************************************)
EXTENDS Naturals, SequencesExt

CONSTANTS
  Names, Values,
  Evaluated,    (* the names an eval may bind                              *)
  Runtimes,     (* the runtimes but Java                                   *)
  Scoped,       (* those where the captures of exec are local: JavaScript  *)
  Loops,        (* those with an event loop: JavaScript and Python         *)
  None,
  MaxScopes, MaxCode, MaxVersion       (* bounds of the model              *)

ASSUME BindingsAssumption ==
  /\ Scoped \subseteq Runtimes /\ Loops \subseteq Runtimes
  /\ Evaluated \subseteq Names
  /\ None \notin Runtimes \cup Names
  /\ MaxScopes \in Nat \ {0} /\ MaxCode \in Nat /\ MaxVersion \in Nat

VARIABLES
  scopes,               (* Executor.scopes, innermost last                 *)
  bindingVersions, nextBindingVersion,
  injectedVersions,     (* by runtime, then by name                        *)
  bindingOrigins,
  globals,              (* the globals of each runtime                     *)
  code,                 (* the guest code in progress, innermost last      *)
  changed

versionVars == <<bindingVersions, nextBindingVersion>>
vars == <<scopes, versionVars, injectedVersions, bindingOrigins, globals, code,
          changed>>

Binding == [home : Runtimes \cup {None}, var : Names \cup {None},
            value : Values, known : BOOLEAN]
Plain(v) == [home |-> None, var |-> None, value |-> v, known |-> TRUE]
RuntimeRef(r, x, v, known) ==
  [home |-> r, var |-> x, value |-> v, known |-> known]

(* Captures of an op: none, or a variable and the binding it is to hold.   *)
Captures == {<< >>} \cup (Names \X Names)
(* Running code: the name an eval assigns to, and the scopes below it.     *)
Code == [runtime : Runtimes, bind : Names \cup {None}, base : Nat]

Partial(S) == UNION {[D -> S] : D \in SUBSET Names}
With(f, x, v) == [y \in DOMAIN f \cup {x} |-> IF y = x THEN v ELSE f[y]]

Init ==
  /\ scopes = <<[x \in {} |-> Plain(x)]>>
  /\ bindingVersions = [x \in Names |-> 0] /\ nextBindingVersion = 0
  /\ injectedVersions = [r \in Runtimes |-> [x \in Names |-> 0]]
  /\ bindingOrigins = [x \in Names |-> None]
  /\ globals \in [Runtimes -> Partial(Values)]
  /\ code = << >>
  /\ changed = [r \in Runtimes |-> {}]

----------------------------------------------------------------------------
(* Bindings                                                                *)

Holders(x) == {i \in DOMAIN scopes : x \in DOMAIN scopes[i]}
Bound(x) == Holders(x) # {}
Visible(x) == scopes[Max(Holders(x))][x]

(* The innermost scope belongs to guest code, or to an op of the executor. *)
GuestRuns == code # << >> /\ Last(code).base = Len(scopes)
ExecutorRuns == ~GuestRuns

(* One call bumps the names one after the other; they are only compared    *)
(* each with itself, so they may get the same version.                     *)
Bump(names) ==
  /\ nextBindingVersion < MaxVersion
  /\ nextBindingVersion' = nextBindingVersion + 1
  /\ bindingVersions' = [x \in Names |->
       IF x \in names THEN nextBindingVersion' ELSE bindingVersions[x]]

Settled(names) == [r \in Runtimes |-> changed[r] \ names]

SetBinding(x, b) ==
  /\ scopes' = [scopes EXCEPT ![Len(scopes)] = With(@, x, b)]
  /\ Bump({x})

(* Ops that bind a value of the manifest: declare, concat, a loop, recv,   *)
(* the results of the branches of a parallel op.                           *)
Declare(x, v) ==
  /\ ExecutorRuns
  /\ SetBinding(x, Plain(v))
  /\ changed' = Settled({x})
  /\ UNCHANGED <<injectedVersions, bindingOrigins, globals, code>>

DeclareFrom(x, y) ==
  /\ ExecutorRuns /\ Bound(y)
  /\ SetBinding(x, Visible(y))
  /\ changed' = Settled({x})
  /\ UNCHANGED <<injectedVersions, bindingOrigins, globals, code>>

(* Assigning to a RuntimeRef also assigns to its variable, which may bear  *)
(* another name, whose version stays.  What is assigned there is what the  *)
(* runtime makes of the value written as code; that it fails is not seen.  *)
Assign(x, v) ==
  /\ ExecutorRuns /\ Bound(x)
  /\ LET b == Visible(x)
     IN  IF b.home = None
         THEN /\ SetBinding(x, Plain(v))
              /\ changed' = Settled({x}) /\ UNCHANGED globals
         ELSE /\ SetBinding(x, RuntimeRef(b.home, b.var, v, FALSE))
              /\ \/ \E w \in Values :
                      globals' = [globals EXCEPT ![b.home] = With(@, b.var, w)]
                 \/ UNCHANGED globals
              /\ changed' = [Settled({x}) EXCEPT ![b.home] = @ \cup ({b.var} \ {x})]
  /\ UNCHANGED <<injectedVersions, bindingOrigins, code>>

(* An await of a reference of r assigns its result to the global x and     *)
(* binds a ref to it, as the source of a function does to the function,    *)
(* unless reading the snapshot of the global fails.                        *)
RefBinds(r, x, v) ==
  /\ ExecutorRuns
  /\ globals' = [globals EXCEPT ![r] = With(@, x, v)]
  /\ \/ SetBinding(x, RuntimeRef(r, x, v, TRUE)) /\ changed' = Settled({x})
     \/ /\ changed' = [changed EXCEPT ![r] = @ \cup {x}]
        /\ UNCHANGED <<scopes, versionVars>>
  /\ UNCHANGED <<injectedVersions, bindingOrigins, code>>

(* A call of a function of the manifest from guest code; and a catch block *)
(* or a call from a task, while the executor pumps: a scope that binds one *)
(* name.                                                                   *)
PushScope(x, v) ==
  /\ Len(scopes) < MaxScopes
  /\ scopes' = Append(scopes, [y \in {x} |-> Plain(v)])
  /\ Bump({x})
  /\ changed' = Settled({x})
  /\ UNCHANGED <<injectedVersions, bindingOrigins, globals, code>>

HandleCall(x, v) == GuestRuns /\ PushScope(x, v)
Catch(x, v) == ExecutorRuns /\ PushScope(x, v)

(* Mutant: the names of the scope are forgotten quietly.                   *)
PopScopeQuietly ==
  /\ scopes' = Front(scopes)
  /\ UNCHANGED <<versionVars, changed>>

PopScope ==
  /\ scopes' = Front(scopes)
  /\ Bump(DOMAIN Last(scopes))
  /\ changed' = Settled(DOMAIN Last(scopes))

(* The function returns or fails, or the catch block is over.              *)
Return ==
  /\ ExecutorRuns /\ Len(scopes) > 1
  /\ PopScope
  /\ UNCHANGED <<injectedVersions, bindingOrigins, globals, code>>

----------------------------------------------------------------------------
(* Injection                                                               *)

(* Bindings autoInjectScopePlanExcluding passes over on its way out: refs  *)
(* of the runtime itself, and names its own eval has once bound.           *)
PassedOver(r, x, b) == b.home = r \/ (b.home = None /\ bindingOrigins[x] = r)
Offers(r, x) == {i \in Holders(x) : ~PassedOver(r, x, scopes[i][x])}
Offered(r, x) == scopes[Max(Offers(r, x))][x]

InjectedVersionCurrent(r, x) ==
  bindingVersions[x] # 0 /\ injectedVersions[r][x] = bindingVersions[x]

AutoInject(r, exclude) == {x \in Names \ exclude :
  /\ Offers(r, x) # {}
  /\ Offered(r, x).home = None => ~InjectedVersionCurrent(r, x)}

(* What arrives in another runtime: the value, for a ref its snapshot or,  *)
(* when that is not known, its global.                                     *)
CopyOf(b) ==
  IF b.known \/ b.var \notin DOMAIN globals[b.home] THEN b.value
  ELSE globals[b.home][b.var]

(* A condition with captures, an async op and a segment of a concat are    *)
(* given nothing automatically.                                            *)
Automatic(kind) == kind \in {"exec", "eval", "branch"}

Excluded(c) == IF c = << >> THEN {} ELSE {c[2]}
Captured(c) == IF c = << >> THEN {} ELSE {c[1]}

Commit(r, auto, c) ==
  injectedVersions' = [injectedVersions EXCEPT ![r] = [x \in Names |->
    IF x \in Captured(c) THEN 0
    ELSE IF x \in auto /\ Offered(r, x).home = None THEN bindingVersions[x]
    ELSE @[x]]]

(* An explicit capture is left alone when the runtime has the binding      *)
(* under that name, and fails when nobody has it.                          *)
CaptureSkipped(r, y) ==
  IF Bound(y) THEN Visible(y).home = r /\ Visible(y).var = y
  ELSE y \in DOMAIN globals[r]
CaptureValues(r, y, own) ==
  IF ~Bound(y) THEN {globals[q][y] : q \in {q \in Runtimes : y \in DOMAIN globals[q]}}
  ELSE IF Visible(y).home # r THEN {CopyOf(Visible(y))}
  ELSE {own[z] : z \in DOMAIN own \cap {Visible(y).var}}

(* The wrapped captures of JavaScript are locals of the code, those of a   *)
(* task of Python locals of its coroutine.                                 *)
CaptureIsLocal(kind, r, y) ==
  \/ kind # "eval" /\ r \in Scoped /\ (Bound(y) => Visible(y).home # r)
  \/ kind \in {"async", "branch"} /\ r \notin Scoped

(* The globals of r after the automatic injection.                         *)
Injected(r, auto) == [x \in DOMAIN globals[r] \cup auto |->
  IF x \in auto THEN CopyOf(Offered(r, x)) ELSE globals[r][x]]

(* Before an op runs its code: the automatic injection, if it has one,     *)
(* then the captures.  The code starts unless a capture fails.             *)
Start(kind, r, c, bind) ==
  LET auto == IF Automatic(kind) THEN AutoInject(r, Excluded(c)) ELSE {}
      own == Injected(r, auto)
      skip == c = << >> \/ (c # << >> /\ CaptureSkipped(r, c[2]))
      values == IF skip THEN {} ELSE CaptureValues(r, c[2], own)
      fails == ~skip /\ values = {}
  IN  /\ ExecutorRuns /\ Len(code) < MaxCode
      /\ Commit(r, auto, c)
      /\ changed' = [changed EXCEPT ![r] = @ \ auto]
      /\ \/ /\ skip \/ fails
            /\ globals' = [globals EXCEPT ![r] = own]
         \/ \E v \in values :
              globals' = [globals EXCEPT ![r] =
                IF CaptureIsLocal(kind, r, c[2]) THEN own ELSE With(own, c[1], v)]
      /\ code' = IF fails THEN code
                 ELSE Append(code, [runtime |-> r, bind |-> bind, base |-> Len(scopes)])
      /\ bindingOrigins' = IF fails \/ bind = None THEN bindingOrigins
                           ELSE [bindingOrigins EXCEPT ![bind] = r]
      /\ UNCHANGED <<scopes, versionVars>>

Exec(r, c) == Start("exec", r, c, None)
Eval(r, c, bind) == Start("eval", r, c, bind)
(* One without captures injects what exec does.                            *)
EvalCondition(r, c) == c # << >> /\ Start("cond", r, c, None)
Concat(r) == Start("concat", r, << >>, None)
(* The executor pumps the event loops until the task it has started, or    *)
(* those of all branches, are done or time is up.                          *)
Async(r, c) == r \in Loops /\ Start("async", r, c, None)
AsyncBranch(r, c) == r \in Loops /\ Start("branch", r, c, None)

----------------------------------------------------------------------------
(* Guest code                                                              *)

(* A global of r is changed: by the guest code in progress, by a task or a *)
(* thread of the runtime, one a timed out await has left behind too, or by *)
(* another manifest, whose executor keeps records of its own.              *)
Mutate(r, x, v) ==
  /\ globals' = [globals EXCEPT ![r] = With(@, x, v)]
  /\ changed' = [changed EXCEPT ![r] = @ \cup {x}]
  /\ UNCHANGED <<scopes, versionVars, injectedVersions, bindingOrigins, code>>

(* The code ends without a value to bind, fails, or goes on as a task.     *)
End ==
  /\ GuestRuns
  /\ code' = Front(code)
  /\ UNCHANGED <<scopes, versionVars, injectedVersions, bindingOrigins, globals,
                 changed>>

(* The output of exec, the result of an async op, or the value of an eval  *)
(* a declare is from.                                                      *)
OutputBinds(x, v) ==
  /\ GuestRuns /\ Last(code).bind = None
  /\ SetBinding(x, Plain(v))
  /\ changed' = Settled({x})
  /\ code' = Front(code)
  /\ UNCHANGED <<injectedVersions, bindingOrigins, globals>>

(* eval assigns to the global and binds a ref to it, unless reading the    *)
(* snapshot of the global fails.                                           *)
EvalBinds(v) ==
  /\ GuestRuns /\ Last(code).bind # None
  /\ LET r == Last(code).runtime
         x == Last(code).bind
     IN  /\ globals' = [globals EXCEPT ![r] = With(@, x, v)]
         /\ \/ SetBinding(x, RuntimeRef(r, x, v, TRUE)) /\ changed' = Settled({x})
            \/ /\ changed' = [changed EXCEPT ![r] = @ \cup {x}]
               /\ UNCHANGED <<scopes, versionVars>>
  /\ code' = Front(code)
  /\ UNCHANGED <<injectedVersions, bindingOrigins>>

Next ==
  \/ \E x \in Names, v \in Values :
       \/ Declare(x, v) \/ Assign(x, v) \/ HandleCall(x, v) \/ Catch(x, v)
       \/ OutputBinds(x, v)
       \/ \E r \in Runtimes : Mutate(r, x, v) \/ RefBinds(r, x, v)
  \/ \E x, y \in Names : DeclareFrom(x, y)
  \/ \E r \in Runtimes : Concat(r)
  \/ \E r \in Runtimes, c \in Captures :
       \/ Exec(r, c) \/ EvalCondition(r, c)
       \/ Async(r, c) \/ AsyncBranch(r, c)
       \/ \E bind \in Evaluated \cup {None} : Eval(r, c, bind)
  \/ \E v \in Values : EvalBinds(v)
  \/ Return \/ End

Spec == Init /\ [][Next]_vars

----------------------------------------------------------------------------
(* Properties                                                              *)

(* Types; scopes and the code they were pushed for nest.                   *)
TypeOK ==
  /\ scopes \in Seq(Partial(Binding)) /\ scopes # << >>
  /\ bindingVersions \in [Names -> 0..nextBindingVersion]
  /\ nextBindingVersion \in 0..MaxVersion
  /\ injectedVersions \in [Runtimes -> [Names -> 0..nextBindingVersion]]
  /\ bindingOrigins \in [Names -> Runtimes \cup {None}]
  /\ globals \in [Runtimes -> Partial(Values)]
  /\ code \in Seq(Code)
  /\ \A i \in DOMAIN code : code[i].base \in 1..Len(scopes)
  /\ \A i, j \in DOMAIN code : i < j => code[i].base < code[j].base
  /\ changed \in [Runtimes -> SUBSET Names]

(* Code has started; in runtime r, after an automatic injection.  Beside   *)
(* its captures, x is to be there when it is bound to a plain value.       *)
Started == Len(code') > Len(code)
Injects(r, c) ==
  /\ r = Last(code').runtime
  /\ Exec(r, c) \/ AsyncBranch(r, c) \/ Eval(r, c, Last(code').bind)
Expected(c) == {x \in Names : /\ x \notin {c[i] : i \in DOMAIN c}
                              /\ Bound(x) /\ Visible(x).home = None}

(* It finds the value bound last, or what has been made of it since by     *)
(* guest code, by another manifest, or by an assignment through a ref to   *)
(* that global which another name holds.                                   *)
Current(r, x) == x \in DOMAIN globals'[r] /\ globals'[r][x] = Visible(x).value
Sees(r, x) == Current(r, x) \/ x \in changed'[r]

(* Guest code starts with the current value of every plain binding whose   *)
(* name no eval has bound: an injection that is left out never leaves      *)
(* behind a value of a popped scope, of an earlier binding or of an        *)
(* explicit capture (autoInjectScopePlanExcluding, popScope).              *)
CopiesAreCurrent ==
  [][Started => \A r \in Runtimes, c \in Captures : \A x \in Expected(c) :
       Sees(r, x) \/ bindingOrigins[x] # None \/ ~Injects(r, c)]_vars
=============================================================================
