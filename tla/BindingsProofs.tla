--------------------------- MODULE BindingsProofs ---------------------------
(***************************************************************************)
(* Proofs about Bindings.  The type invariant, and that guest code starts  *)
(* with current copies, for any names, values, runtimes and nesting.       *)
(***************************************************************************)
EXTENDS Bindings, WellFoundedInduction, TLAPS

----------------------------------------------------------------------------
(* Sequences                                                               *)

(* A sequence with one element replaced.                                   *)
LEMMA Replaced ==
  ASSUME NEW S, NEW s \in Seq(S), NEW i \in DOMAIN s, NEW e \in S, NEW t,
         t = [s EXCEPT ![i] = e]
  PROVE  /\ t \in Seq(S) /\ Len(t) = Len(s) /\ DOMAIN t = DOMAIN s
         /\ \A j \in DOMAIN s : t[j] = IF j = i THEN e ELSE s[j]
  OBVIOUS

(* A sequence with one element more at its end ...                         *)
LEMMA Appended ==
  ASSUME NEW S, NEW s \in Seq(S), NEW e \in S, NEW t, t = Append(s, e)
  PROVE  /\ t \in Seq(S) /\ Len(t) = Len(s) + 1 /\ t # << >>
         /\ DOMAIN t = DOMAIN s \cup {Len(s) + 1} /\ Len(s) + 1 \notin DOMAIN s
         /\ \A j \in DOMAIN s : t[j] = s[j]
         /\ t[Len(s) + 1] = e
  OBVIOUS

(* ... or without its last ...                                             *)
LEMMA Fronted ==
  ASSUME NEW S, NEW s \in Seq(S), s # << >>, NEW t, t = Front(s)
  PROVE  /\ t \in Seq(S) /\ Len(t) = Len(s) - 1 /\ DOMAIN t = DOMAIN s \ {Len(s)}
         /\ \A j \in DOMAIN t : t[j] = s[j]
  <1>1. Len(s) \in Nat /\ Len(s) >= 1 /\ DOMAIN s = 1..Len(s)
    OBVIOUS
  <1>2. Len(s) - 1 \in Nat /\ \A j \in 1..Len(s) - 1 : j \in DOMAIN s /\ s[j] \in S
    BY <1>1
  <1>3. t = SubSeq(s, 1, Len(s) - 1)
    BY DEF Front
  <1>4. t = [j \in 1..Len(s) - 1 |-> s[j]]
    BY <1>1, <1>3
  <1>5. Len(t) = Len(s) - 1 /\ t \in Seq(S)
    BY <1>2, <1>4
  <1> QED BY <1>1, <1>4, <1>5

(* A set of indices that is not empty has a greatest.                      *)
LEMMA MaxIn ==
  ASSUME NEW n \in Nat, NEW S, S \subseteq 1..n, S # {}
  PROVE  Max(S) \in S /\ \A y \in S : Max(S) >= y
  <1> DEFINE T == {k \in Nat : n - k \in S}
  <1>1. T \subseteq Nat /\ T # {}
    <2>1. PICK s \in S : TRUE
      OBVIOUS
    <2>2. s \in 1..n /\ n - s \in Nat /\ n - (n - s) = s
      BY <2>1
    <2>3. n - s \in T
      BY <2>1, <2>2
    <2> QED BY <2>3
  <1> HIDE DEF T
  <1>2. PICK k \in T : \A l \in T : ~(<<l, k>> \in OpToRel(<, Nat))
    BY <1>1, WFMin, NatLessThanWellFounded, Zenon
  <1>3. \A l \in T : ~(l < k)
    BY <1>1, <1>2 DEF OpToRel
  <1>4. n - k \in S /\ k \in Nat
    BY <1>2 DEF T
  <1>5. \A y \in S : n - k >= y
    <2> SUFFICES ASSUME NEW y \in S PROVE n - k >= y
      OBVIOUS
    <2>1. y \in 1..n /\ n - y \in Nat /\ n - (n - y) = y
      OBVIOUS
    <2>2. n - y \in T
      BY <2>1 DEF T
    <2> QED BY <1>3, <1>4, <2>1, <2>2
  <1> QED BY <1>4, <1>5 DEF Max

(* Functions on some of the names.                                         *)
LEMMA PartialIs ==
  ASSUME NEW S, NEW f
  PROVE  f \in Partial(S) <=> DOMAIN f \subseteq Names /\ f \in [DOMAIN f -> S]
  BY DEF Partial

Extends(S) == \A f \in Partial(S), x \in Names, v \in S :
  /\ With(f, x, v) \in Partial(S)
  /\ DOMAIN With(f, x, v) = DOMAIN f \cup {x}
  /\ With(f, x, v)[x] = v
  /\ \A y \in DOMAIN f : y # x => With(f, x, v)[y] = f[y]

LEMMA WithIs == ASSUME NEW S PROVE Extends(S)
  <1> SUFFICES ASSUME NEW f \in Partial(S), NEW x \in Names, NEW v \in S
               PROVE  /\ With(f, x, v) \in Partial(S)
                      /\ DOMAIN With(f, x, v) = DOMAIN f \cup {x}
                      /\ With(f, x, v)[x] = v
                      /\ \A y \in DOMAIN f : y # x => With(f, x, v)[y] = f[y]
    BY DEF Extends
  <1> DEFINE g == With(f, x, v)
  <1>1. DOMAIN f \subseteq Names /\ f \in [DOMAIN f -> S]
    BY PartialIs
  <1>2. /\ DOMAIN g = DOMAIN f \cup {x} /\ g[x] = v
        /\ \A y \in DOMAIN f : y # x => g[y] = f[y]
    BY DEF With
  <1>3. g \in [DOMAIN f \cup {x} -> S]
    BY <1>1 DEF With
  <1>4. DOMAIN g \subseteq Names /\ g \in [DOMAIN g -> S]
    BY <1>1, <1>2, <1>3
  <1> HIDE DEF g
  <1>5. g \in Partial(S)
    BY <1>4, PartialIs
  <1> QED BY <1>2, <1>5 DEF g

----------------------------------------------------------------------------
(* The invariant                                                           *)

(* A plain value is known, a ref has a variable, and an eval that is to    *)
(* bind its value is on record.                                            *)
Sound(b) == IF b.home = None THEN b.known ELSE b.var # None
Evals ==
  /\ \A i \in DOMAIN scopes : \A x \in DOMAIN scopes[i] : Sound(scopes[i][x])
  /\ \A i \in DOMAIN code : code[i].bind # None => bindingOrigins[code[i].bind] # None

(* Where an injection would be left out the copy is there, or has been     *)
(* changed.                                                                *)
Copy(r, x) == x \in DOMAIN globals[r] /\ globals[r][x] = Visible(x).value
Skippable(r, x) ==
  /\ bindingOrigins[x] = None /\ Bound(x) /\ Visible(x).home = None
  /\ InjectedVersionCurrent(r, x)
Copied(r, x) == Skippable(r, x) => Copy(r, x) \/ x \in changed[r]

Inv == TypeOK /\ Evals /\ \A r \in Runtimes, x \in Names : Copied(r, x)

(* Nothing is bound, and nothing has been injected, at first.              *)
LEMMA InvInit == ASSUME Init PROVE Inv
  <1> USE DEF Init
  <1>1. [x \in {} |-> Plain(x)] \in Partial(Binding)
    BY PartialIs
  <1>2. scopes \in Seq(Partial(Binding)) /\ scopes # << >> /\ code \in Seq(Code)
    BY <1>1
  <1>3. DOMAIN code = {} /\ DOMAIN scopes = {1} /\ DOMAIN scopes[1] = {}
    OBVIOUS
  <1>4. nextBindingVersion \in 0..MaxVersion
    BY BindingsAssumption
  <1>5. TypeOK
    BY <1>1, <1>2, <1>3, <1>4 DEF TypeOK
  <1>6. Evals
    BY <1>3 DEF Evals
  <1>7. \A r \in Runtimes, x \in Names : Copied(r, x)
    BY DEF Copied, Skippable, InjectedVersionCurrent
  <1> QED BY <1>5, <1>6, <1>7 DEF Inv

(* The binding a name stands for is a binding of some scope.               *)
LEMMA VisibleIs ==
  ASSUME TypeOK, Evals, NEW x \in Names, Bound(x)
  PROVE  Visible(x) \in Binding /\ Sound(Visible(x))
  <1>1. Len(scopes) \in Nat /\ Holders(x) \subseteq 1..Len(scopes) /\ Holders(x) # {}
    BY DEF TypeOK, Bound, Holders
  <1>2. Max(Holders(x)) \in Holders(x)
    BY <1>1, MaxIn
  <1>3. PICK i \in DOMAIN scopes : i = Max(Holders(x)) /\ x \in DOMAIN scopes[i]
    BY <1>2 DEF Holders
  <1>4. scopes[i] \in Partial(Binding)
    BY <1>3 DEF TypeOK
  <1>5. scopes[i][x] \in Binding /\ Sound(scopes[i][x])
    BY <1>3, <1>4, PartialIs DEF Evals
  <1> QED BY <1>3, <1>5 DEF Visible

(* A step that leaves the binding of a name alone.                         *)
Same(x) ==
  /\ Holders(x)' = Holders(x)
  /\ \A i \in Holders(x) : scopes'[i][x] = scopes[i][x]
  /\ bindingVersions'[x] = bindingVersions[x]

LEMMA SameIs ==
  ASSUME TypeOK, NEW x \in Names, Same(x)
  PROVE  Bound(x)' = Bound(x) /\ (Bound(x) => Visible(x)' = Visible(x))
  <1>1. Bound(x)' = Bound(x)
    BY DEF Same, Bound
  <1>2. ASSUME Bound(x) PROVE Visible(x)' = Visible(x)
    <2>1. Len(scopes) \in Nat /\ Holders(x) \subseteq 1..Len(scopes) /\ Holders(x) # {}
      BY <1>2 DEF TypeOK, Bound, Holders
    <2>2. Max(Holders(x)) \in Holders(x)
      BY <2>1, MaxIn
    <2>3. Max(Holders(x))' = Max(Holders(x))
      BY DEF Same
    <2> QED BY <2>2, <2>3 DEF Visible, Same
  <1> QED BY <1>1, <1>2

(* A copy stays good when its name, its record and it are left alone.      *)
LEMMA CopyStays ==
  ASSUME TypeOK, NEW r \in Runtimes, NEW x \in Names, Copied(r, x), Same(x),
         injectedVersions'[r][x] = injectedVersions[r][x],
         bindingOrigins'[x] = None => bindingOrigins[x] = None,
         bindingOrigins'[x] = None /\ x \in DOMAIN globals[r] =>
           (x \in DOMAIN globals'[r] /\ globals'[r][x] = globals[r][x])
             \/ x \in changed'[r],
         x \in changed[r] => x \in changed'[r]
  PROVE  Copied(r, x)'
  <1> SUFFICES ASSUME Skippable(r, x)' PROVE Copy(r, x)' \/ x \in changed'[r]
    BY DEF Copied
  <1>1. /\ Bound(x) /\ Visible(x)' = Visible(x) /\ bindingOrigins[x] = None
        /\ bindingOrigins'[x] = None
    BY SameIs DEF Skippable
  <1>2. Skippable(r, x)
    BY <1>1 DEF Skippable, InjectedVersionCurrent, Same
  <1>3. Copy(r, x) \/ x \in changed[r]
    BY <1>2 DEF Copied
  <1> QED BY <1>1, <1>3 DEF Copy

(* New versions: no record is of a version that did not exist before.      *)
LEMMA BumpIs ==
  ASSUME TypeOK, NEW names \in SUBSET Names, Bump(names)
  PROVE  /\ nextBindingVersion' \in 0..MaxVersion
         /\ bindingVersions' \in [Names -> 0..nextBindingVersion']
         /\ 0..nextBindingVersion \subseteq 0..nextBindingVersion'
         /\ \A x \in Names \ names : bindingVersions'[x] = bindingVersions[x]
         /\ \A r \in Runtimes, x \in names :
              injectedVersions[r][x] # bindingVersions'[x]
  <1>1. nextBindingVersion \in Nat /\ MaxVersion \in Nat /\ nextBindingVersion < MaxVersion
        /\ nextBindingVersion' = nextBindingVersion + 1
    BY BindingsAssumption DEF TypeOK, Bump
  <1>2. /\ nextBindingVersion' \in 0..MaxVersion
        /\ 0..nextBindingVersion \subseteq 0..nextBindingVersion'
    BY <1>1
  <1>3. bindingVersions' \in [Names -> 0..nextBindingVersion']
    BY <1>1, <1>2 DEF TypeOK, Bump
  <1>4. \A x \in Names \ names : bindingVersions'[x] = bindingVersions[x]
    BY DEF Bump
  <1>5. ASSUME NEW r \in Runtimes, NEW x \in names
        PROVE  injectedVersions[r][x] # bindingVersions'[x]
    <2>1. bindingVersions'[x] = nextBindingVersion + 1
      BY <1>1 DEF Bump
    <2>2. injectedVersions[r][x] \in 0..nextBindingVersion
      BY DEF TypeOK
    <2> QED BY <1>1, <2>1, <2>2
  <1> QED BY <1>2, <1>3, <1>4, <1>5

----------------------------------------------------------------------------
(* Steps of the scopes                                                     *)

(* The scopes that follow hold, under every name but some, what they held. *)
ScopesBut(names) ==
  /\ scopes' \in Seq(Partial(Binding)) /\ scopes' # << >>
  /\ \A x \in Names \ names : /\ Holders(x)' = Holders(x)
                             /\ \A i \in Holders(x) : scopes'[i][x] = scopes[i][x]
  /\ \A i \in DOMAIN scopes' : \A x \in DOMAIN scopes'[i] : Sound(scopes'[i][x])

LEMMA SetTop ==
  ASSUME TypeOK, Evals, NEW x \in Names, NEW b \in Binding, Sound(b),
         NEW top \in Partial(Binding), DOMAIN top = DOMAIN scopes[Len(scopes)] \cup {x},
         top[x] = b,
         \A y \in DOMAIN scopes[Len(scopes)] : y # x => top[y] = scopes[Len(scopes)][y],
         scopes' = [scopes EXCEPT ![Len(scopes)] = top]
  PROVE  ScopesBut({x}) /\ Len(scopes') = Len(scopes)
  <1> DEFINE n == Len(scopes)
  <1>1. scopes \in Seq(Partial(Binding)) /\ n \in DOMAIN scopes /\ scopes # << >>
    BY DEF TypeOK
  <1>2. /\ scopes' \in Seq(Partial(Binding)) /\ scopes' # << >> /\ Len(scopes') = Len(scopes)
        /\ DOMAIN scopes' = DOMAIN scopes
        /\ \A i \in DOMAIN scopes : scopes'[i] = IF i = n THEN top ELSE scopes[i]
    BY <1>1, Replaced
  <1> HIDE DEF n
  <1>3. ASSUME NEW y \in Names \ {x}
        PROVE  Holders(y)' = Holders(y) /\ \A i \in Holders(y) : scopes'[i][y] = scopes[i][y]
    BY <1>2 DEF Holders, n
  <1>4. ASSUME NEW i \in DOMAIN scopes', NEW y \in DOMAIN scopes'[i]
        PROVE  Sound(scopes'[i][y])
    BY <1>2 DEF Evals, n
  <1> QED BY <1>2, <1>3, <1>4 DEF ScopesBut

LEMMA SetScope ==
  ASSUME TypeOK, Evals, NEW x \in Names, NEW b \in Binding, Sound(b),
         scopes' = [scopes EXCEPT ![Len(scopes)] = With(@, x, b)]
  PROVE  ScopesBut({x}) /\ Len(scopes') = Len(scopes)
  <1>1. scopes[Len(scopes)] \in Partial(Binding)
    BY DEF TypeOK
  <1>2. /\ With(scopes[Len(scopes)], x, b) \in Partial(Binding)
        /\ DOMAIN With(scopes[Len(scopes)], x, b) = DOMAIN scopes[Len(scopes)] \cup {x}
        /\ With(scopes[Len(scopes)], x, b)[x] = b
        /\ \A y \in DOMAIN scopes[Len(scopes)] : y # x =>
             With(scopes[Len(scopes)], x, b)[y] = scopes[Len(scopes)][y]
    <2>1. Extends(Binding)
      BY WithIs
    <2> QED BY <1>1, <2>1, Zenon DEF Extends
  <1> QED BY <1>2, SetTop

LEMMA PushedTop ==
  ASSUME TypeOK, Evals, NEW x \in Names, NEW top \in Partial(Binding), DOMAIN top = {x},
         Sound(top[x]), scopes' = Append(scopes, top)
  PROVE  ScopesBut({x}) /\ Len(scopes') = Len(scopes) + 1
  <1>1. scopes \in Seq(Partial(Binding))
    BY DEF TypeOK
  <1>2. /\ scopes' \in Seq(Partial(Binding)) /\ scopes' # << >> /\ Len(scopes') = Len(scopes) + 1
        /\ DOMAIN scopes' = DOMAIN scopes \cup {Len(scopes) + 1} /\ Len(scopes) + 1 \notin DOMAIN scopes
        /\ \A i \in DOMAIN scopes : scopes'[i] = scopes[i]
        /\ scopes'[Len(scopes) + 1] = top
    BY <1>1, Appended
  <1>3. ASSUME NEW y \in Names \ {x}
        PROVE  Holders(y)' = Holders(y) /\ \A i \in Holders(y) : scopes'[i][y] = scopes[i][y]
    BY <1>2 DEF Holders
  <1>4. ASSUME NEW i \in DOMAIN scopes', NEW y \in DOMAIN scopes'[i]
        PROVE  Sound(scopes'[i][y])
    BY <1>2 DEF Evals
  <1> QED BY <1>2, <1>3, <1>4 DEF ScopesBut

LEMMA PushedScope ==
  ASSUME TypeOK, Evals, NEW x \in Names, NEW v \in Values,
         scopes' = Append(scopes, [y \in {x} |-> Plain(v)])
  PROVE  ScopesBut({x}) /\ Len(scopes') = Len(scopes) + 1
  <1> DEFINE top == [y \in {x} |-> Plain(v)]
  <1>1. Plain(v) \in Binding /\ Sound(Plain(v))
    BY DEF Plain, Binding, Sound
  <1>2. DOMAIN top = {x} /\ top[x] = Plain(v) /\ top \in [DOMAIN top -> Binding]
    BY <1>1
  <1>3. scopes' = Append(scopes, top)
    OBVIOUS
  <1> HIDE DEF top
  <1>4. top \in Partial(Binding)
    BY <1>2, PartialIs
  <1>5. Sound(top[x])
    BY <1>1, <1>2
  <1> QED BY <1>2, <1>3, <1>4, <1>5, PushedTop

LEMMA PoppedScope ==
  ASSUME TypeOK, Evals, Len(scopes) > 1, scopes' = Front(scopes)
  PROVE  /\ DOMAIN Last(scopes) \subseteq Names
         /\ ScopesBut(DOMAIN Last(scopes)) /\ Len(scopes') = Len(scopes) - 1
  <1>1. scopes \in Seq(Partial(Binding)) /\ Len(scopes) \in Nat /\ Last(scopes) \in Partial(Binding)
    BY DEF TypeOK, Last
  <1>2. DOMAIN Last(scopes) \subseteq Names
    BY <1>1, PartialIs
  <1>3. /\ scopes' \in Seq(Partial(Binding)) /\ scopes' # << >> /\ Len(scopes') = Len(scopes) - 1
        /\ DOMAIN scopes' = DOMAIN scopes \ {Len(scopes)}
        /\ \A i \in DOMAIN scopes' : scopes'[i] = scopes[i]
    <2>1. scopes # << >>
      BY <1>1
    <2>2. /\ scopes' \in Seq(Partial(Binding)) /\ Len(scopes') = Len(scopes) - 1
          /\ DOMAIN scopes' = DOMAIN scopes \ {Len(scopes)}
          /\ \A i \in DOMAIN scopes' : scopes'[i] = scopes[i]
      <3> DEFINE B == Partial(Binding)
      <3>1. scopes \in Seq(B)
        BY <1>1
      <3> HIDE DEF B
      <3>2. /\ scopes' \in Seq(B) /\ Len(scopes') = Len(scopes) - 1
            /\ DOMAIN scopes' = DOMAIN scopes \ {Len(scopes)}
            /\ \A i \in DOMAIN scopes' : scopes'[i] = scopes[i]
        BY ONLY <2>1, <3>1, scopes' = Front(scopes), Fronted
      <3> QED BY <3>2 DEF B
    <2> QED BY <1>1, <2>2
  <1>4. ASSUME NEW y \in Names \ DOMAIN Last(scopes)
        PROVE  Holders(y)' = Holders(y) /\ \A i \in Holders(y) : scopes'[i][y] = scopes[i][y]
    BY <1>3 DEF Holders, Last
  <1>5. ASSUME NEW i \in DOMAIN scopes', NEW y \in DOMAIN scopes'[i]
        PROVE  Sound(scopes'[i][y])
    BY <1>3 DEF Evals
  <1> QED BY <1>2, <1>3, <1>4, <1>5 DEF ScopesBut

(* The globals of other names stay, or are marked as changed.              *)
GlobalsBut(names) ==
  /\ globals' \in [Runtimes -> Partial(Values)]
  /\ changed' \in [Runtimes -> SUBSET Names]
  /\ \A r \in Runtimes, x \in Names \ names :
       /\ x \in changed[r] => x \in changed'[r]
       /\ bindingOrigins[x] = None /\ x \in DOMAIN globals[r] =>
            (x \in DOMAIN globals'[r] /\ globals'[r][x] = globals[r][x])
              \/ x \in changed'[r]

(* After new versions for some names, every copy is good: those of the     *)
(* names are not relied on, the others have not changed.                   *)
LEMMA BumpedCopies ==
  ASSUME Inv, NEW names \in SUBSET Names, Bump(names), ScopesBut(names),
         UNCHANGED <<injectedVersions, bindingOrigins>>, GlobalsBut(names)
  PROVE  \A r \in Runtimes, x \in Names : Copied(r, x)'
  <1> TAKE r \in Runtimes, x \in Names
  <1>1. CASE x \in names
    <2>1. injectedVersions'[r][x] # bindingVersions'[x]
      BY <1>1, BumpIs DEF Inv
    <2> QED BY <2>1 DEF Copied, Skippable, InjectedVersionCurrent
  <1>2. CASE x \notin names
    <2>1. Same(x)
      BY <1>2, BumpIs DEF Inv, ScopesBut, Same
    <2>2. /\ x \in changed[r] => x \in changed'[r]
          /\ bindingOrigins[x] = None /\ x \in DOMAIN globals[r] =>
               (x \in DOMAIN globals'[r] /\ globals'[r][x] = globals[r][x])
                 \/ x \in changed'[r]
      BY <1>2 DEF GlobalsBut
    <2>3. TypeOK /\ Copied(r, x)
      BY DEF Inv
    <2> QED BY <2>1, <2>2, <2>3, CopyStays
  <1> QED BY <1>1, <1>2

----------------------------------------------------------------------------
(* The code in progress                                                    *)

(* Code whose scopes nest within n scopes, and whose evals are on record.  *)
Nests(c, n) ==
  /\ c \in Seq(Code)
  /\ \A i \in DOMAIN c : c[i].base \in 1..n
  /\ \A i, j \in DOMAIN c : i < j => c[i].base < c[j].base
Recorded(c) == \A i \in DOMAIN c : c[i].bind # None => bindingOrigins[c[i].bind] # None

LEMMA CodeKept ==
  ASSUME TypeOK, Evals, NEW n \in Nat, n >= Len(scopes)
  PROVE  Nests(code, n) /\ Recorded(code)
  <1>1. 1..Len(scopes) \subseteq 1..n
    BY DEF TypeOK
  <1> QED BY <1>1 DEF TypeOK, Evals, Nests, Recorded

LEMMA CodeEnds ==
  ASSUME TypeOK, Evals, code # << >>, code' = Front(code), NEW n \in Nat, n >= Len(scopes)
  PROVE  Nests(code', n) /\ Recorded(code')
  <1>1. code \in Seq(Code)
    BY DEF TypeOK
  <1>2. /\ code' \in Seq(Code) /\ DOMAIN code' = DOMAIN code \ {Len(code)}
        /\ \A i \in DOMAIN code' : code'[i] = code[i]
    BY <1>1, Fronted
  <1>3. Nests(code, n) /\ Recorded(code)
    BY CodeKept
  <1>4. Recorded(code')
    BY <1>2, <1>3 DEF Recorded
  <1>5. Nests(code', n)
    BY <1>2, <1>3 DEF Nests
  <1> QED BY <1>4, <1>5

(* While the executor runs, the innermost scope is not that of the code.   *)
LEMMA CodeOutside ==
  ASSUME TypeOK, ExecutorRuns
  PROVE  \A i \in DOMAIN code : code[i].base \in 1..Len(scopes) - 1
  <1> SUFFICES ASSUME NEW i \in DOMAIN code PROVE code[i].base \in 1..Len(scopes) - 1
    OBVIOUS
  <1>1. code \in Seq(Code) /\ Len(scopes) \in Nat /\ code[i].base \in 1..Len(scopes)
    BY DEF TypeOK
  <1>2. code # << >> /\ Len(code) \in DOMAIN code /\ i <= Len(code) /\ i \in Nat
    BY <1>1
  <1>3. code[Len(code)].base \in 1..Len(scopes)
    BY <1>2 DEF TypeOK
  <1>4. code[Len(code)].base # Len(scopes)
    BY <1>2 DEF ExecutorRuns, GuestRuns, Last
  <1>5. CASE i = Len(code)
    BY <1>1, <1>4, <1>5
  <1>6. CASE i < Len(code)
    <2>1. code[i].base < code[Len(code)].base
      BY <1>2, <1>6 DEF TypeOK
    <2> QED BY <1>1, <1>3, <2>1
  <1> QED BY <1>1, <1>2, <1>5, <1>6

----------------------------------------------------------------------------
(* Steps that bind                                                         *)

(* Every step that gives names new versions keeps the invariant.           *)
LEMMA BindStep ==
  ASSUME Inv, NEW names \in SUBSET Names, Bump(names), ScopesBut(names),
         UNCHANGED <<injectedVersions, bindingOrigins>>, GlobalsBut(names),
         Nests(code', Len(scopes')), Recorded(code')
  PROVE  Inv'
  <1>1. \A r \in Runtimes, x \in Names : Copied(r, x)'
    BY BumpedCopies
  <1>2. /\ nextBindingVersion' \in 0..MaxVersion
        /\ bindingVersions' \in [Names -> 0..nextBindingVersion']
        /\ 0..nextBindingVersion \subseteq 0..nextBindingVersion'
    BY BumpIs DEF Inv
  <1>3. injectedVersions' \in [Runtimes -> [Names -> 0..nextBindingVersion']]
        /\ bindingOrigins' \in [Names -> Runtimes \cup {None}]
    <2> DEFINE Old == 0..nextBindingVersion
               New == 0..nextBindingVersion'
    <2>1. /\ injectedVersions \in [Runtimes -> [Names -> Old]] /\ Old \subseteq New
          /\ bindingOrigins \in [Names -> Runtimes \cup {None}]
      BY <1>2 DEF Inv, TypeOK
    <2> HIDE DEF Old, New
    <2>2. injectedVersions \in [Runtimes -> [Names -> New]]
      BY <2>1
    <2>3. injectedVersions' \in [Runtimes -> [Names -> New]]
      BY <2>2
    <2> QED BY <2>1, <2>3 DEF New
  <1>4. TypeOK'
    BY <1>2, <1>3 DEF TypeOK, ScopesBut, GlobalsBut, Nests
  <1>5. Evals'
    BY DEF Evals, ScopesBut, Recorded, Sound
  <1> QED BY <1>1, <1>4, <1>5 DEF Inv

(* The names are settled, and no global has been written.                  *)
LEMMA SettledIs ==
  ASSUME TypeOK, NEW names \in SUBSET Names, changed' = Settled(names), UNCHANGED globals
  PROVE  GlobalsBut(names)
  <1>1. /\ changed' \in [Runtimes -> SUBSET Names]
        /\ \A r \in Runtimes, x \in Names \ names : x \in changed[r] => x \in changed'[r]
    BY DEF TypeOK, Settled
  <1>2. globals' \in [Runtimes -> Partial(Values)] /\ globals' = globals
    BY DEF TypeOK
  <1> QED BY <1>1, <1>2 DEF GlobalsBut

SetsGlobal(r, x, v) == globals' = [globals EXCEPT ![r] = With(@, x, v)]

LEMMA SetGlobal ==
  ASSUME TypeOK, NEW r \in Runtimes, NEW x \in Names, NEW v \in Values, SetsGlobal(r, x, v)
  PROVE  /\ globals' \in [Runtimes -> Partial(Values)]
         /\ x \in DOMAIN globals'[r] /\ globals'[r][x] = v
         /\ \A q \in Runtimes, y \in Names : q # r \/ y # x =>
              (y \in DOMAIN globals[q] =>
                 y \in DOMAIN globals'[q] /\ globals'[q][y] = globals[q][y])
  <1> DEFINE own == With(globals[r], x, v)
  <1>1. globals \in [Runtimes -> Partial(Values)] /\ globals[r] \in Partial(Values)
    BY DEF TypeOK
  <1>2. Extends(Values)
    BY WithIs
  <1>3. /\ own \in Partial(Values) /\ DOMAIN own = DOMAIN globals[r] \cup {x} /\ own[x] = v
        /\ \A y \in DOMAIN globals[r] : y # x => own[y] = globals[r][y]
    BY <1>1, <1>2, Zenon DEF Extends
  <1>4. globals' = [globals EXCEPT ![r] = own]
    BY DEF SetsGlobal
  <1> HIDE DEF own
  <1>5. \A q \in Runtimes : globals'[q] = IF q = r THEN own ELSE globals[q]
    BY <1>1, <1>4
  <1>6. globals' \in [Runtimes -> Partial(Values)]
    BY <1>1, <1>3, <1>4
  <1> QED BY <1>3, <1>5, <1>6

(* A global of a name that is settled, or that is marked as changed.       *)
LEMMA WrittenIs ==
  ASSUME TypeOK, NEW r \in Runtimes, NEW x \in Names, NEW y \in Names, NEW v \in Values,
         SetsGlobal(r, y, v) \/ UNCHANGED globals,
         changed' = [Settled({x}) EXCEPT ![r] = @ \cup ({y} \ {x})]
  PROVE  GlobalsBut({x})
  <1>1. changed \in [Runtimes -> SUBSET Names]
    BY DEF TypeOK
  <1>2. /\ changed' \in [Runtimes -> SUBSET Names]
        /\ \A q \in Runtimes, z \in Names \ {x} : z \in changed[q] => z \in changed'[q]
        /\ y # x => y \in changed'[r]
    BY <1>1 DEF Settled
  <1>3. CASE UNCHANGED globals
    <2>1. globals' \in [Runtimes -> Partial(Values)] /\ globals' = globals
      BY <1>3 DEF TypeOK
    <2> QED BY <1>2, <2>1 DEF GlobalsBut
  <1>4. CASE SetsGlobal(r, y, v)
    <2>1. /\ globals' \in [Runtimes -> Partial(Values)]
          /\ \A q \in Runtimes, z \in Names : q # r \/ z # y =>
               (z \in DOMAIN globals[q] =>
                  z \in DOMAIN globals'[q] /\ globals'[q][z] = globals[q][z])
      BY <1>4, SetGlobal
    <2>2. \A q \in Runtimes, z \in Names \ {x} :
            bindingOrigins[z] = None /\ z \in DOMAIN globals[q] =>
              (z \in DOMAIN globals'[q] /\ globals'[q][z] = globals[q][z])
                \/ z \in changed'[q]
      BY <1>2, <2>1, Zenon
    <2> QED BY <1>2, <2>1, <2>2 DEF GlobalsBut
  <1> QED BY <1>3, <1>4

LEMMA SetBindingStep ==
  ASSUME Inv, NEW x \in Names, NEW b \in Binding, Sound(b), SetBinding(x, b),
         UNCHANGED <<injectedVersions, bindingOrigins>>, GlobalsBut({x}),
         code' = code \/ (code # << >> /\ code' = Front(code))
  PROVE  Inv'
  <1>1. TypeOK /\ Evals
    BY DEF Inv
  <1>2. scopes' = [scopes EXCEPT ![Len(scopes)] = With(@, x, b)] /\ Bump({x})
    BY DEF SetBinding
  <1>3. ScopesBut({x}) /\ Len(scopes') = Len(scopes)
    BY <1>1, <1>2, SetScope
  <1>4. Len(scopes) \in Nat /\ Len(scopes) >= Len(scopes)
    BY <1>1 DEF TypeOK
  <1>5. Nests(code', Len(scopes')) /\ Recorded(code')
    BY <1>1, <1>3, <1>4, CodeKept, CodeEnds
  <1> QED BY <1>2, <1>3, <1>5, BindStep

LEMMA PlainIs == ASSUME NEW v \in Values PROVE Plain(v) \in Binding /\ Sound(Plain(v))
  BY DEF Plain, Binding, Sound

LEMMA RefIs ==
  ASSUME NEW h \in Runtimes, NEW x \in Names, NEW v \in Values, NEW known \in BOOLEAN
  PROVE  RuntimeRef(h, x, v, known) \in Binding /\ Sound(RuntimeRef(h, x, v, known))
  <1>1. h # None /\ x # None
    BY BindingsAssumption
  <1> QED BY <1>1 DEF RuntimeRef, Binding, Sound

LEMMA InvDeclare ==
  ASSUME Inv, NEW x \in Names, NEW v \in Values, Declare(x, v)
  PROVE  Inv'
  <1>1. Plain(v) \in Binding /\ Sound(Plain(v))
    BY PlainIs
  <1>2. GlobalsBut({x})
    BY SettledIs DEF Declare, Inv
  <1> QED BY <1>1, <1>2, SetBindingStep DEF Declare

LEMMA InvDeclareFrom ==
  ASSUME Inv, NEW x \in Names, NEW y \in Names, DeclareFrom(x, y)
  PROVE  Inv'
  <1>1. Visible(y) \in Binding /\ Sound(Visible(y))
    BY VisibleIs DEF DeclareFrom, Inv
  <1>2. GlobalsBut({x})
    BY SettledIs DEF DeclareFrom, Inv
  <1> QED BY <1>1, <1>2, SetBindingStep DEF DeclareFrom

LEMMA InvAssign ==
  ASSUME Inv, NEW x \in Names, NEW v \in Values, Assign(x, v)
  PROVE  Inv'
  <1> DEFINE b == Visible(x)
             ref == RuntimeRef(b.home, b.var, v, FALSE)
  <1>1. b \in Binding /\ Sound(b) /\ TypeOK
    BY VisibleIs DEF Assign, Inv
  <1>2. UNCHANGED <<injectedVersions, bindingOrigins, code>>
    BY DEF Assign
  <1>3. CASE b.home = None
    <2>1. Plain(v) \in Binding /\ Sound(Plain(v))
      BY PlainIs
    <2>2. SetBinding(x, Plain(v)) /\ changed' = Settled({x}) /\ UNCHANGED globals
      BY <1>3 DEF Assign
    <2>3. GlobalsBut({x})
      BY <1>1, <2>2, SettledIs
    <2> QED BY <1>2, <2>1, <2>2, <2>3, SetBindingStep
  <1>4. CASE b.home # None
    <2>1. b.home \in Runtimes /\ b.var \in Names
      BY <1>1, <1>4 DEF Sound, Binding
    <2>2. ref \in Binding /\ Sound(ref)
      BY <2>1, RefIs
    <2>3. /\ SetBinding(x, ref)
          /\ \/ \E w \in Values : globals' = [globals EXCEPT ![b.home] = With(@, b.var, w)]
             \/ UNCHANGED globals
          /\ changed' = [Settled({x}) EXCEPT ![b.home] = @ \cup ({b.var} \ {x})]
      BY <1>4 DEF Assign
    <2> HIDE DEF ref
    <2>4. PICK q \in Runtimes, y \in Names : q = b.home /\ y = b.var
      BY <2>1
    <2>5. PICK w \in Values : SetsGlobal(q, y, w) \/ UNCHANGED globals
      BY <2>3, <2>4 DEF SetsGlobal
    <2>6. changed' = [Settled({x}) EXCEPT ![q] = @ \cup ({y} \ {x})]
      BY <2>3, <2>4
    <2>7. GlobalsBut({x})
      BY <1>1, <2>5, <2>6, WrittenIs
    <2> QED BY <1>2, <2>2, <2>3, <2>7, SetBindingStep
  <1> QED BY <1>3, <1>4

LEMMA InvPush ==
  ASSUME Inv, NEW x \in Names, NEW v \in Values, PushScope(x, v)
  PROVE  Inv'
  <1>1. TypeOK /\ Evals
    BY DEF Inv
  <1>2. ScopesBut({x}) /\ Len(scopes') = Len(scopes) + 1
    BY <1>1, PushedScope DEF PushScope
  <1>3. Len(scopes) + 1 \in Nat /\ Len(scopes) + 1 >= Len(scopes)
    BY <1>1 DEF TypeOK
  <1>4. Nests(code, Len(scopes')) /\ Recorded(code)
    BY <1>1, <1>2, <1>3, CodeKept
  <1>5. Bump({x}) /\ UNCHANGED <<injectedVersions, bindingOrigins, code>>
    BY DEF PushScope
  <1>6. GlobalsBut({x})
    BY <1>1, SettledIs DEF PushScope
  <1> QED BY <1>2, <1>4, <1>5, <1>6, BindStep

LEMMA InvReturn == ASSUME Inv, Return PROVE Inv'
  <1>1. TypeOK /\ Evals /\ ExecutorRuns /\ Len(scopes) > 1 /\ scopes' = Front(scopes)
    BY DEF Inv, Return, PopScope
  <1> DEFINE names == DOMAIN Last(scopes)
  <1>2. names \subseteq Names /\ ScopesBut(names) /\ Len(scopes') = Len(scopes) - 1
    BY <1>1, PoppedScope
  <1>3. Bump(names) /\ changed' = Settled(names)
        /\ UNCHANGED <<injectedVersions, bindingOrigins, globals, code>>
    BY DEF Return, PopScope
  <1>4. \A i \in DOMAIN code : code[i].base \in 1..Len(scopes')
    BY <1>1, <1>2, CodeOutside
  <1>5. Nests(code, Len(scopes')) /\ Recorded(code)
    BY <1>1, <1>4 DEF TypeOK, Nests, Evals, Recorded
  <1> HIDE DEF names
  <1>6. GlobalsBut(names)
    BY <1>1, <1>2, <1>3, SettledIs
  <1> QED BY <1>2, <1>3, <1>5, <1>6, BindStep

----------------------------------------------------------------------------
(* Guest code and the ends of it                                           *)

LEMMA InvOutputBinds ==
  ASSUME Inv, NEW x \in Names, NEW v \in Values, OutputBinds(x, v)
  PROVE  Inv'
  <1>1. Plain(v) \in Binding /\ Sound(Plain(v))
    BY PlainIs
  <1>2. GlobalsBut({x})
    BY SettledIs DEF OutputBinds, Inv
  <1>3. code # << >> /\ code' = Front(code) /\ SetBinding(x, Plain(v))
        /\ UNCHANGED <<injectedVersions, bindingOrigins>>
    BY DEF OutputBinds, GuestRuns
  <1> QED BY <1>1, <1>2, <1>3, SetBindingStep

(* What no step of the scopes changes.                                     *)
LEMMA QuietStep ==
  ASSUME Inv, UNCHANGED <<scopes, versionVars, injectedVersions, bindingOrigins>>,
         GlobalsBut({}), Nests(code', Len(scopes)), Recorded(code')
  PROVE  Inv'
  <1>1. TypeOK'
    BY DEF Inv, TypeOK, GlobalsBut, Nests, versionVars
  <1>2. Evals'
    BY DEF Inv, Evals, Recorded, Sound
  <1>3. ASSUME NEW r \in Runtimes, NEW x \in Names PROVE Copied(r, x)'
    <2>1. Same(x)
      BY DEF Same, Holders, versionVars
    <2>2. /\ injectedVersions'[r][x] = injectedVersions[r][x]
          /\ bindingOrigins'[x] = bindingOrigins[x]
          /\ TypeOK /\ Copied(r, x)
      BY DEF Inv
    <2>3. /\ x \in changed[r] => x \in changed'[r]
          /\ bindingOrigins[x] = None /\ x \in DOMAIN globals[r] =>
               (x \in DOMAIN globals'[r] /\ globals'[r][x] = globals[r][x])
                 \/ x \in changed'[r]
      BY DEF GlobalsBut
    <2> QED BY <2>1, <2>2, <2>3, CopyStays
  <1> QED BY <1>1, <1>2, <1>3 DEF Inv

(* A global is changed.                                                    *)
LEMMA TouchStep ==
  ASSUME Inv, NEW r \in Runtimes, NEW x \in Names, NEW v \in Values, SetsGlobal(r, x, v),
         changed' = [changed EXCEPT ![r] = @ \cup {x}],
         UNCHANGED <<scopes, versionVars, injectedVersions, bindingOrigins>>,
         Nests(code', Len(scopes)), Recorded(code')
  PROVE  Inv'
  <1>1. TypeOK
    BY DEF Inv
  <1>2. /\ globals' \in [Runtimes -> Partial(Values)]
        /\ \A q \in Runtimes, y \in Names : q # r \/ y # x =>
             (y \in DOMAIN globals[q] =>
                y \in DOMAIN globals'[q] /\ globals'[q][y] = globals[q][y])
    BY <1>1, SetGlobal
  <1>3. changed \in [Runtimes -> SUBSET Names]
    BY <1>1 DEF TypeOK
  <1>4. /\ changed' \in [Runtimes -> SUBSET Names]
        /\ \A q \in Runtimes : changed[q] \subseteq changed'[q]
        /\ x \in changed'[r]
    BY <1>3
  <1>5. \A q \in Runtimes, y \in Names :
          /\ y \in changed[q] => y \in changed'[q]
          /\ bindingOrigins[y] = None /\ y \in DOMAIN globals[q] =>
               (y \in DOMAIN globals'[q] /\ globals'[q][y] = globals[q][y])
                 \/ y \in changed'[q]
    BY <1>2, <1>4, Zenon
  <1>6. GlobalsBut({})
    BY <1>2, <1>4, <1>5 DEF GlobalsBut
  <1> QED BY <1>6, QuietStep

LEMMA LastIs ==
  ASSUME TypeOK, GuestRuns
  PROVE  /\ code # << >> /\ Last(code) \in Code /\ Len(code) \in DOMAIN code
         /\ Last(code) = code[Len(code)]
  <1>1. code \in Seq(Code) /\ code # << >>
    BY DEF TypeOK, GuestRuns
  <1> QED BY <1>1 DEF Last

LEMMA InvMutate ==
  ASSUME Inv, NEW r \in Runtimes, NEW x \in Names, NEW v \in Values, Mutate(r, x, v)
  PROVE  Inv'
  <1>1. /\ SetsGlobal(r, x, v) /\ changed' = [changed EXCEPT ![r] = @ \cup {x}]
        /\ UNCHANGED <<scopes, versionVars, injectedVersions, bindingOrigins, code>>
    BY DEF Mutate, SetsGlobal
  <1>2. TypeOK /\ Evals /\ Len(scopes) \in Nat /\ Len(scopes) >= Len(scopes)
    BY DEF Inv, TypeOK
  <1>3. Nests(code', Len(scopes)) /\ Recorded(code')
    BY <1>1, <1>2, CodeKept
  <1> QED BY <1>1, <1>3, TouchStep

(* A global is assigned, and a ref to it bound unless that fails.          *)
LEMMA BoundRef ==
  ASSUME Inv, NEW r \in Runtimes, NEW x \in Names, NEW v \in Values, SetsGlobal(r, x, v),
         \/ SetBinding(x, RuntimeRef(r, x, v, TRUE)) /\ changed' = Settled({x})
         \/ /\ changed' = [changed EXCEPT ![r] = @ \cup {x}]
            /\ UNCHANGED <<scopes, versionVars>>,
         UNCHANGED <<injectedVersions, bindingOrigins>>,
         code' = code \/ (code # << >> /\ code' = Front(code))
  PROVE  Inv'
  <1>1. TypeOK /\ Evals /\ Len(scopes) \in Nat /\ Len(scopes) >= Len(scopes)
    BY DEF Inv, TypeOK
  <1>2. CASE SetBinding(x, RuntimeRef(r, x, v, TRUE)) /\ changed' = Settled({x})
    <2>1. RuntimeRef(r, x, v, TRUE) \in Binding /\ Sound(RuntimeRef(r, x, v, TRUE))
      BY RefIs
    <2>2. changed' = [Settled({x}) EXCEPT ![r] = @ \cup ({x} \ {x})]
      BY <1>2 DEF Settled
    <2>3. GlobalsBut({x})
      BY <1>1, <2>2, WrittenIs
    <2> QED BY <1>2, <2>1, <2>3, SetBindingStep
  <1>3. CASE changed' = [changed EXCEPT ![r] = @ \cup {x}] /\ UNCHANGED <<scopes, versionVars>>
    <2>1. Nests(code', Len(scopes)) /\ Recorded(code')
      BY <1>1, CodeKept, CodeEnds
    <2> QED BY <1>3, <2>1, TouchStep
  <1> QED BY <1>2, <1>3

LEMMA InvRefBinds ==
  ASSUME Inv, NEW r \in Runtimes, NEW x \in Names, NEW v \in Values, RefBinds(r, x, v)
  PROVE  Inv'
  BY BoundRef DEF RefBinds, SetsGlobal

LEMMA InvEnd == ASSUME Inv, End PROVE Inv'
  <1>1. TypeOK /\ Evals /\ code # << >> /\ code' = Front(code)
    BY DEF Inv, End, GuestRuns
  <1>2. /\ Len(scopes) \in Nat /\ Len(scopes) >= Len(scopes)
    BY <1>1 DEF TypeOK
  <1>3. Nests(code', Len(scopes)) /\ Recorded(code')
    BY <1>1, <1>2, CodeEnds
  <1>4. UNCHANGED <<scopes, versionVars, injectedVersions, bindingOrigins, globals, changed>>
    BY DEF End
  <1>5. GlobalsBut({})
    BY <1>1, <1>4 DEF TypeOK, GlobalsBut
  <1> QED BY <1>3, <1>4, <1>5, QuietStep

LEMMA InvEvalBinds ==
  ASSUME Inv, NEW v \in Values, EvalBinds(v)
  PROVE  Inv'
  <1>1. TypeOK /\ GuestRuns /\ Last(code).bind # None /\ code' = Front(code)
        /\ UNCHANGED <<injectedVersions, bindingOrigins>>
    BY DEF Inv, EvalBinds
  <1>2. code # << >> /\ Last(code) \in Code
    BY <1>1, LastIs
  <1>3. PICK r \in Runtimes, x \in Names : r = Last(code).runtime /\ x = Last(code).bind
    BY <1>1, <1>2 DEF Code
  <1>4. /\ SetsGlobal(r, x, v)
        /\ \/ SetBinding(x, RuntimeRef(r, x, v, TRUE)) /\ changed' = Settled({x})
           \/ /\ changed' = [changed EXCEPT ![r] = @ \cup {x}]
              /\ UNCHANGED <<scopes, versionVars>>
    BY <1>3 DEF EvalBinds, SetsGlobal
  <1> QED BY <1>1, <1>2, <1>4, BoundRef

----------------------------------------------------------------------------
(* Injection                                                               *)

(* The automatic injection of an op, the globals it leaves, and the code   *)
(* it starts.                                                              *)
AutoOf(kind, r, c) == IF Automatic(kind) THEN AutoInject(r, Excluded(c)) ELSE {}
Own(kind, r, c) == Injected(r, AutoOf(kind, r, c))
Starts(kind, r, c, bind) == Append(code,
  [runtime |-> r, bind |-> bind, base |-> Len(scopes)])

(* Where the visible binding is plain and no eval has bound its name, no   *)
(* binding on the way out is passed over: it is the one that is offered.   *)
LEMMA OfferedIsVisible ==
  ASSUME TypeOK, NEW r \in Runtimes, NEW x \in Names, bindingOrigins[x] = None, Bound(x),
         Visible(x).home = None
  PROVE  Offers(r, x) # {} /\ Offered(r, x) = Visible(x)
  <1> DEFINE m == Max(Holders(x))
             o == Max(Offers(r, x))
  <1>1. Len(scopes) \in Nat /\ Holders(x) \subseteq 1..Len(scopes) /\ Holders(x) # {}
    BY DEF TypeOK, Bound, Holders
  <1>2. m \in Holders(x) /\ \A i \in Holders(x) : m >= i
    BY <1>1, MaxIn
  <1>3. r # None
    BY BindingsAssumption
  <1>4. ~PassedOver(r, x, scopes[m][x])
    BY <1>3 DEF PassedOver, Visible
  <1>5. m \in Offers(r, x) /\ Offers(r, x) \subseteq Holders(x)
    BY <1>2, <1>4 DEF Offers
  <1>6. o \in Offers(r, x) /\ \A i \in Offers(r, x) : o >= i
    BY <1>1, <1>5, MaxIn
  <1>7. o >= m /\ m >= o /\ o \in Nat /\ m \in Nat
    BY <1>1, <1>2, <1>5, <1>6
  <1>8. o = m
    BY <1>7
  <1> QED BY <1>5, <1>8 DEF Offered, Visible

LEMMA OfferedIs ==
  ASSUME TypeOK, Evals, NEW r \in Runtimes, NEW x \in Names, Offers(r, x) # {}
  PROVE  Offered(r, x) \in Binding /\ Sound(Offered(r, x))
  <1>1. Len(scopes) \in Nat /\ Offers(r, x) \subseteq 1..Len(scopes)
    BY DEF TypeOK, Offers, Holders
  <1>2. Max(Offers(r, x)) \in Offers(r, x)
    BY <1>1, MaxIn
  <1>3. PICK i \in DOMAIN scopes : i = Max(Offers(r, x)) /\ x \in DOMAIN scopes[i]
    BY <1>2 DEF Offers, Holders
  <1>4. scopes[i] \in Partial(Binding)
    BY <1>3 DEF TypeOK
  <1>5. scopes[i][x] \in Binding /\ Sound(scopes[i][x])
    BY <1>3, <1>4, PartialIs DEF Evals
  <1> QED BY <1>3, <1>5 DEF Offered

LEMMA CopyIsValue ==
  ASSUME TypeOK, NEW b \in Binding, Sound(b)
  PROVE  CopyOf(b) \in Values /\ (b.home = None => CopyOf(b) = b.value)
  <1>1. b.value \in Values /\ b.home \in Runtimes \cup {None}
    BY DEF Binding
  <1>2. CASE b.known \/ b.var \notin DOMAIN globals[b.home]
    BY <1>1, <1>2 DEF CopyOf
  <1>3. CASE ~(b.known \/ b.var \notin DOMAIN globals[b.home])
    <2>1. b.home \in Runtimes
      BY <1>1, <1>3 DEF Sound
    <2>2. globals[b.home] \in Partial(Values)
      BY <2>1 DEF TypeOK
    <2>3. globals[b.home][b.var] \in Values
      BY <1>3, <2>2, PartialIs
    <2> QED BY <1>3, <2>1, <2>3, BindingsAssumption DEF CopyOf
  <1> QED BY <1>2, <1>3

LEMMA AutoIs ==
  ASSUME TypeOK, Evals, NEW kind, NEW r \in Runtimes, NEW c \in Captures
  PROVE  /\ AutoOf(kind, r, c) \subseteq Names
         /\ \A x \in AutoOf(kind, r, c) : Offers(r, x) # {} /\ CopyOf(Offered(r, x)) \in Values
  <1>1. AutoOf(kind, r, c) \subseteq Names /\ \A x \in AutoOf(kind, r, c) : Offers(r, x) # {}
    BY DEF AutoOf, AutoInject
  <1>2. ASSUME NEW x \in AutoOf(kind, r, c) PROVE CopyOf(Offered(r, x)) \in Values
    <2>1. x \in Names /\ Offers(r, x) # {}
      BY <1>1
    <2>2. Offered(r, x) \in Binding /\ Sound(Offered(r, x))
      BY <2>1, OfferedIs
    <2> QED BY <2>2, CopyIsValue
  <1> QED BY <1>1, <1>2

LEMMA OwnIs ==
  ASSUME TypeOK, Evals, NEW kind, NEW r \in Runtimes, NEW c \in Captures
  PROVE  /\ Own(kind, r, c) \in Partial(Values)
         /\ \A x \in AutoOf(kind, r, c) : x \in DOMAIN Own(kind, r, c)
              /\ Own(kind, r, c)[x] = CopyOf(Offered(r, x))
         /\ \A x \in DOMAIN globals[r] \ AutoOf(kind, r, c) : x \in DOMAIN Own(kind, r, c)
              /\ Own(kind, r, c)[x] = globals[r][x]
  <1> DEFINE auto == AutoOf(kind, r, c)
             own == Own(kind, r, c)
             copy(x) == CopyOf(Offered(r, x))
             g == globals[r]
  <1>1. auto \subseteq Names /\ \A x \in auto : copy(x) \in Values
    BY AutoIs
  <1>2. g \in Partial(Values)
    BY DEF TypeOK
  <1>3. DOMAIN g \subseteq Names /\ \A x \in DOMAIN g : g[x] \in Values
    <2> HIDE DEF g
    <2> QED BY <1>2, PartialIs
  <1>4. own = [x \in DOMAIN g \cup auto |-> IF x \in auto THEN copy(x) ELSE g[x]]
    BY DEF Own, Injected
  <1> HIDE DEF auto, own, copy, g
  <1>5. DOMAIN own = DOMAIN g \cup auto /\ DOMAIN own \subseteq Names
        /\ own \in [DOMAIN own -> Values]
    BY <1>1, <1>3, <1>4
  <1>6. own \in Partial(Values)
    BY <1>5, PartialIs
  <1>7. \A x \in auto : x \in DOMAIN own /\ own[x] = copy(x)
    BY <1>4, <1>5
  <1>8. \A x \in DOMAIN g \ auto : x \in DOMAIN own /\ own[x] = g[x]
    BY <1>4, <1>5
  <1> QED BY <1>6, <1>7, <1>8 DEF auto, own, copy, g

LEMMA CaptureIs ==
  ASSUME NEW c \in Captures
  PROVE  \/ c = << >> /\ Captured(c) = {} /\ Excluded(c) = {}
         \/ /\ c # << >> /\ Captured(c) = {c[1]} /\ Excluded(c) = {c[2]}
            /\ c[1] \in Names /\ c[2] \in Names /\ {c[i] : i \in DOMAIN c} = {c[1], c[2]}
  <1>1. CASE c = << >>
    BY <1>1 DEF Captured, Excluded
  <1>2. CASE c # << >>
    <2>1. PICK x \in Names, y \in Names : c = <<x, y>>
      BY <1>2 DEF Captures
    <2>2. DOMAIN c = 1..2 /\ c[1] = x /\ c[2] = y
      BY <2>1
    <2>3. 1..2 = {1, 2}
      OBVIOUS
    <2>4. {c[i] : i \in DOMAIN c} = {c[1], c[2]}
      BY <2>2, <2>3
    <2> QED BY <1>2, <2>2, <2>4 DEF Captured, Excluded
  <1> QED BY <1>1, <1>2

LEMMA CaptureValuesAre ==
  ASSUME TypeOK, Evals, NEW r \in Runtimes, NEW y \in Names, NEW own \in Partial(Values)
  PROVE  CaptureValues(r, y, own) \subseteq Values
  <1>1. CASE ~Bound(y)
    <2>1. ASSUME NEW q \in Runtimes, y \in DOMAIN globals[q] PROVE globals[q][y] \in Values
      <3>1. globals[q] \in Partial(Values)
        BY DEF TypeOK
      <3> QED BY <2>1, <3>1, PartialIs
    <2> QED BY <1>1, <2>1 DEF CaptureValues
  <1>2. CASE Bound(y) /\ Visible(y).home # r
    <2>1. Visible(y) \in Binding /\ Sound(Visible(y))
      BY <1>2, VisibleIs
    <2>2. CopyOf(Visible(y)) \in Values
      BY <2>1, CopyIsValue
    <2> QED BY <1>2, <2>2 DEF CaptureValues
  <1>3. CASE Bound(y) /\ Visible(y).home = r
    <2>1. \A z \in DOMAIN own : own[z] \in Values
      BY PartialIs
    <2> QED BY <1>3, <2>1 DEF CaptureValues
  <1> QED BY <1>1, <1>2, <1>3

(* What the start of an op does, the captures aside.                       *)
Leaves(r, own, c, given) ==
  /\ given \in Partial(Values)
  /\ globals' = [globals EXCEPT ![r] = given]
  /\ \A x \in DOMAIN own \ Captured(c) : x \in DOMAIN given /\ given[x] = own[x]
Registers(r, bind) ==
  bindingOrigins' = IF bind = None THEN bindingOrigins ELSE [bindingOrigins EXCEPT ![bind] = r]

LEMMA StartIs ==
  ASSUME Inv, NEW kind, NEW r \in Runtimes, NEW c \in Captures, NEW bind \in Names \cup {None},
         Start(kind, r, c, bind)
  PROVE  /\ ExecutorRuns /\ UNCHANGED <<scopes, versionVars>>
         /\ Commit(r, AutoOf(kind, r, c), c)
         /\ changed' = [changed EXCEPT ![r] = @ \ AutoOf(kind, r, c)]
         /\ \E given : Leaves(r, Own(kind, r, c), c, given)
         /\ \/ code' = code /\ UNCHANGED bindingOrigins
            \/ code' = Starts(kind, r, c, bind) /\ Registers(r, bind)
  <1> DEFINE auto == AutoOf(kind, r, c)
             own == Own(kind, r, c)
             skip == c = << >> \/ (c # << >> /\ CaptureSkipped(r, c[2]))
             values == IF skip THEN {} ELSE CaptureValues(r, c[2], own)
             fails == ~skip /\ values = {}
             local == CaptureIsLocal(kind, r, c[2])
  <1>1. TypeOK /\ Evals
    BY DEF Inv
  <1>2. own \in Partial(Values)
    BY <1>1, OwnIs
  <1>3. /\ ExecutorRuns /\ UNCHANGED <<scopes, versionVars>>
        /\ Commit(r, auto, c)
        /\ changed' = [changed EXCEPT ![r] = @ \ auto]
        /\ \/ /\ skip \/ fails
              /\ globals' = [globals EXCEPT ![r] = own]
           \/ \E v \in values :
                globals' = [globals EXCEPT ![r] = IF local THEN own ELSE With(own, c[1], v)]
        /\ code' = IF fails THEN code ELSE Starts(kind, r, c, bind)
        /\ bindingOrigins' = IF fails \/ bind = None THEN bindingOrigins
                             ELSE [bindingOrigins EXCEPT ![bind] = r]
    BY DEF Start, AutoOf, Own, Starts
  <1>4. \/ code' = code /\ UNCHANGED bindingOrigins
        \/ code' = Starts(kind, r, c, bind) /\ Registers(r, bind)
    <2> HIDE DEF fails
    <2> QED BY <1>3 DEF Registers
  <1>5. ~skip => c[1] \in Names /\ c[2] \in Names /\ Captured(c) = {c[1]}
    BY CaptureIs
  <1> HIDE DEF auto, own, fails, local
  <1>6. values \subseteq Values
    BY <1>1, <1>2, <1>5, CaptureValuesAre
  <1>7. \E given : Leaves(r, own, c, given)
    <2>1. CASE globals' = [globals EXCEPT ![r] = own]
      <3>1. Leaves(r, own, c, own)
        BY <1>2, <2>1 DEF Leaves
      <3> QED BY <3>1
    <2>2. ASSUME NEW v \in values,
                 globals' = [globals EXCEPT ![r] = IF local THEN own ELSE With(own, c[1], v)],
                 ~local
          PROVE  \E given : Leaves(r, own, c, given)
      <3>1. PICK x \in Names : v \in Values /\ x = c[1] /\ Captured(c) = {x}
        BY <1>5, <1>6
      <3>2. Extends(Values)
        BY WithIs
      <3> DEFINE given == With(own, x, v)
      <3>3. /\ given \in Partial(Values) /\ DOMAIN given = DOMAIN own \cup {x}
            /\ \A y \in DOMAIN own : y # x => given[y] = own[y]
        <4> HIDE DEF values
        <4> QED BY <1>2, <3>1, <3>2, Zenon DEF Extends
      <3>4. globals' = [globals EXCEPT ![r] = given]
        BY <2>2, <3>1
      <3> HIDE DEF given
      <3>5. Leaves(r, own, c, given)
        BY <3>1, <3>3, <3>4 DEF Leaves
      <3> QED BY <3>5
    <2>3. ASSUME NEW v \in values,
                 globals' = [globals EXCEPT ![r] = IF local THEN own ELSE With(own, c[1], v)],
                 local
          PROVE  globals' = [globals EXCEPT ![r] = own]
      BY <2>3
    <2> HIDE DEF values, skip
    <2> QED BY <1>3, <2>1, <2>2, <2>3
  <1> QED BY <1>3, <1>4, <1>7 DEF auto, own

(* Where the globals of an op's runtime stand when its code starts.        *)
LEMMA StartGlobals ==
  ASSUME Inv, NEW kind, NEW r \in Runtimes, NEW c \in Captures, NEW given,
         Leaves(r, Own(kind, r, c), c, given)
  PROVE  /\ globals' \in [Runtimes -> Partial(Values)]
         /\ \A q \in Runtimes : q # r => globals'[q] = globals[q]
         /\ \A x \in Names \ Captured(c) :
              /\ x \in AutoOf(kind, r, c) =>
                   x \in DOMAIN globals'[r] /\ globals'[r][x] = CopyOf(Offered(r, x))
              /\ x \notin AutoOf(kind, r, c) /\ x \in DOMAIN globals[r] =>
                   x \in DOMAIN globals'[r] /\ globals'[r][x] = globals[r][x]
  <1> DEFINE auto == AutoOf(kind, r, c)
             own == Own(kind, r, c)
  <1>1. TypeOK /\ Evals /\ globals \in [Runtimes -> Partial(Values)]
    BY DEF Inv, TypeOK
  <1>2. /\ \A x \in auto : x \in DOMAIN own /\ own[x] = CopyOf(Offered(r, x))
        /\ \A x \in DOMAIN globals[r] \ auto : x \in DOMAIN own /\ own[x] = globals[r][x]
    BY <1>1, OwnIs
  <1> HIDE DEF auto, own
  <1>3. /\ given \in Partial(Values)
        /\ globals' = [globals EXCEPT ![r] = given]
        /\ \A x \in DOMAIN own \ Captured(c) : x \in DOMAIN given /\ given[x] = own[x]
    BY DEF Leaves, own
  <1>4. /\ globals' \in [Runtimes -> Partial(Values)] /\ globals'[r] = given
        /\ \A q \in Runtimes : q # r => globals'[q] = globals[q]
    BY <1>1, <1>3
  <1>5. \A x \in Names \ Captured(c) :
          /\ x \in auto => x \in DOMAIN globals'[r] /\ globals'[r][x] = CopyOf(Offered(r, x))
          /\ x \notin auto /\ x \in DOMAIN globals[r] =>
               x \in DOMAIN globals'[r] /\ globals'[r][x] = globals[r][x]
    BY <1>2, <1>3, <1>4
  <1> QED BY <1>4, <1>5 DEF auto

(* A name that is injected arrives with the value of its visible binding.  *)
LEMMA AutoCopies ==
  ASSUME Inv, NEW kind, NEW r \in Runtimes, NEW c \in Captures, NEW given,
         Leaves(r, Own(kind, r, c), c, given), NEW x \in Names \ Captured(c),
         x \in AutoOf(kind, r, c), bindingOrigins[x] = None, Bound(x), Visible(x).home = None
  PROVE  x \in DOMAIN globals'[r] /\ globals'[r][x] = Visible(x).value
  <1>1. TypeOK /\ Evals
    BY DEF Inv
  <1>2. Offered(r, x) = Visible(x)
    BY <1>1, OfferedIsVisible
  <1>3. Visible(x) \in Binding /\ Sound(Visible(x))
    BY <1>1, VisibleIs
  <1>4. CopyOf(Visible(x)) = Visible(x).value
    BY <1>1, <1>3, CopyIsValue
  <1>5. x \in DOMAIN globals'[r] /\ globals'[r][x] = CopyOf(Offered(r, x))
    BY StartGlobals
  <1> QED BY <1>2, <1>4, <1>5

LEMMA StartRecords ==
  ASSUME Inv, NEW kind, NEW r \in Runtimes, NEW c \in Captures, Commit(r, AutoOf(kind, r, c), c)
  PROVE  /\ injectedVersions' \in [Runtimes -> [Names -> 0..nextBindingVersion]]
         /\ \A q \in Runtimes : q # r => injectedVersions'[q] = injectedVersions[q]
         /\ \A x \in Captured(c) \cap Names : injectedVersions'[r][x] = 0
         /\ \A x \in Names \ Captured(c) : x \notin AutoOf(kind, r, c) =>
              injectedVersions'[r][x] = injectedVersions[r][x]
  <1> DEFINE auto == AutoOf(kind, r, c)
             row == [x \in Names |-> IF x \in Captured(c) THEN 0
                       ELSE IF x \in auto /\ Offered(r, x).home = None THEN bindingVersions[x]
                       ELSE injectedVersions[r][x]]
  <1>1. /\ injectedVersions \in [Runtimes -> [Names -> 0..nextBindingVersion]]
        /\ bindingVersions \in [Names -> 0..nextBindingVersion]
        /\ nextBindingVersion \in Nat
    BY BindingsAssumption DEF Inv, TypeOK
  <1>2. injectedVersions' = [injectedVersions EXCEPT ![r] = row]
    BY DEF Commit
  <1>3. row \in [Names -> 0..nextBindingVersion]
    <2> HIDE DEF auto
    <2>1. 0 \in 0..nextBindingVersion
      BY <1>1
    <2> QED BY <1>1, <2>1
  <1>4. /\ \A x \in Captured(c) \cap Names : row[x] = 0
        /\ \A x \in Names \ Captured(c) : x \notin auto => row[x] = injectedVersions[r][x]
    <2> HIDE DEF auto
    <2> QED OBVIOUS
  <1> HIDE DEF row, auto
  <1>5. /\ injectedVersions' \in [Runtimes -> [Names -> 0..nextBindingVersion]]
        /\ \A q \in Runtimes : q # r => injectedVersions'[q] = injectedVersions[q]
        /\ injectedVersions'[r] = row
    BY <1>1, <1>2, <1>3
  <1> QED BY <1>4, <1>5 DEF auto

LEMMA RegistersIs ==
  ASSUME TypeOK, NEW r \in Runtimes, NEW bind \in Names \cup {None},
         UNCHANGED bindingOrigins \/ Registers(r, bind)
  PROVE  /\ bindingOrigins' \in [Names -> Runtimes \cup {None}]
         /\ \A x \in Names : bindingOrigins'[x] = None => bindingOrigins[x] = None
         /\ Registers(r, bind) /\ bind # None => bindingOrigins'[bind] # None
  <1>1. bindingOrigins \in [Names -> Runtimes \cup {None}] /\ r # None
    BY BindingsAssumption DEF TypeOK
  <1>2. CASE UNCHANGED bindingOrigins /\ ~Registers(r, bind)
    BY <1>1, <1>2
  <1>3. CASE Registers(r, bind) /\ bind = None
    BY <1>1, <1>3 DEF Registers
  <1>4. CASE Registers(r, bind) /\ bind # None
    <2>1. bind \in Names /\ bindingOrigins' = [bindingOrigins EXCEPT ![bind] = r]
      BY <1>4 DEF Registers
    <2> QED BY <1>1, <2>1
  <1> QED BY <1>2, <1>3, <1>4

LEMMA StartCode ==
  ASSUME Inv, ExecutorRuns, NEW kind, NEW r \in Runtimes, NEW c \in Captures,
         NEW bind \in Names \cup {None}, code' = Starts(kind, r, c, bind),
         Registers(r, bind)
  PROVE  /\ Nests(code', Len(scopes))
         /\ \A i \in DOMAIN code' : code'[i].bind # None => bindingOrigins'[code'[i].bind] # None
  <1> DEFINE new == [runtime |-> r, bind |-> bind, base |-> Len(scopes)]
  <1>1. TypeOK /\ Evals /\ code \in Seq(Code) /\ Len(scopes) \in Nat /\ Len(scopes) >= 1
    BY DEF Inv, TypeOK
  <1>3. new \in Code /\ new.base = Len(scopes) /\ new.bind = bind
    BY <1>1 DEF Code
  <1>4. code' = Append(code, new)
    BY DEF Starts
  <1> HIDE DEF new
  <1>5. /\ code' \in Seq(Code) /\ DOMAIN code' = DOMAIN code \cup {Len(code) + 1}
        /\ Len(code) + 1 \notin DOMAIN code
        /\ \A i \in DOMAIN code : code'[i] = code[i]
        /\ code'[Len(code) + 1] = new
    BY <1>1, <1>3, <1>4, Appended
  <1>6. \A i \in DOMAIN code : code[i].base \in 1..Len(scopes) - 1
    BY <1>1, CodeOutside
  <1>7. \A i \in DOMAIN code' : code'[i].base \in 1..Len(scopes)
    BY <1>1, <1>3, <1>5, <1>6
  <1>8. ASSUME NEW i \in DOMAIN code', NEW j \in DOMAIN code', i < j
        PROVE  code'[i].base < code'[j].base
    <2>1. DOMAIN code = 1..Len(code) /\ Len(code) \in Nat
      BY <1>1
    <2>2. i \in DOMAIN code
      BY <1>5, <1>8, <2>1
    <2>3. CASE j \in DOMAIN code
      BY <1>1, <1>5, <1>8, <2>2, <2>3 DEF TypeOK
    <2>4. CASE j = Len(code) + 1
      BY <1>1, <1>3, <1>5, <1>6, <2>2, <2>4
    <2> QED BY <1>5, <2>3, <2>4
  <1>9. Nests(code', Len(scopes))
    BY <1>5, <1>7, <1>8 DEF Nests
  <1>10. ASSUME NEW i \in DOMAIN code', code'[i].bind # None
         PROVE  bindingOrigins'[code'[i].bind] # None
    <2>1. /\ \A x \in Names : bindingOrigins'[x] = None => bindingOrigins[x] = None
          /\ bind # None => bindingOrigins'[bind] # None
      BY <1>1, RegistersIs
    <2>2. CASE i \in DOMAIN code
      <3>1. code'[i] = code[i] /\ code[i] \in Code
        BY <1>1, <1>5, <2>2
      <3>2. code[i].bind \in Names
        BY <1>10, <3>1 DEF Code
      <3>3. bindingOrigins[code[i].bind] # None
        BY <1>1, <1>10, <2>2, <3>1 DEF Evals
      <3> QED BY <2>1, <3>1, <3>2, <3>3
    <2>3. CASE i = Len(code) + 1
      BY <1>3, <1>5, <1>10, <2>1, <2>3
    <2> QED BY <1>5, <2>2, <2>3
  <1> QED BY <1>9, <1>10

LEMMA InvStart ==
  ASSUME Inv, NEW kind, NEW r \in Runtimes, NEW c \in Captures, NEW bind \in Names \cup {None},
         Start(kind, r, c, bind)
  PROVE  Inv'
  <1> DEFINE auto == AutoOf(kind, r, c)
  <1>1. /\ ExecutorRuns /\ UNCHANGED <<scopes, versionVars>>
        /\ Commit(r, auto, c)
        /\ changed' = [changed EXCEPT ![r] = @ \ auto]
        /\ \E given : Leaves(r, Own(kind, r, c), c, given)
        /\ \/ code' = code /\ UNCHANGED bindingOrigins
           \/ code' = Starts(kind, r, c, bind) /\ Registers(r, bind)
    BY StartIs
  <1>2. PICK given : Leaves(r, Own(kind, r, c), c, given)
    BY <1>1
  <1>3. /\ globals' \in [Runtimes -> Partial(Values)]
        /\ \A q \in Runtimes : q # r => globals'[q] = globals[q]
        /\ \A x \in Names \ Captured(c) :
              x \notin auto /\ x \in DOMAIN globals[r] =>
                x \in DOMAIN globals'[r] /\ globals'[r][x] = globals[r][x]
    BY <1>2, StartGlobals
  <1>4. /\ injectedVersions' \in [Runtimes -> [Names -> 0..nextBindingVersion]]
        /\ \A q \in Runtimes : q # r => injectedVersions'[q] = injectedVersions[q]
        /\ \A x \in Captured(c) \cap Names : injectedVersions'[r][x] = 0
        /\ \A x \in Names \ Captured(c) : x \notin auto =>
             injectedVersions'[r][x] = injectedVersions[r][x]
    BY <1>1, StartRecords
  <1>5. TypeOK /\ Evals /\ changed \in [Runtimes -> SUBSET Names]
        /\ Len(scopes) \in Nat /\ Len(scopes) >= Len(scopes)
    BY DEF Inv, TypeOK
  <1>6. /\ bindingOrigins' \in [Names -> Runtimes \cup {None}]
        /\ \A x \in Names : bindingOrigins'[x] = None => bindingOrigins[x] = None
    BY <1>1, <1>5, RegistersIs
  <1> HIDE DEF auto
  <1>7. /\ changed' \in [Runtimes -> SUBSET Names]
        /\ \A q \in Runtimes : q # r => changed'[q] = changed[q]
        /\ \A x \in changed[r] : x \notin auto => x \in changed'[r]
    BY <1>1, <1>5
  <1>8. /\ Nests(code', Len(scopes))
        /\ \A i \in DOMAIN code' : code'[i].bind # None => bindingOrigins'[code'[i].bind] # None
    <2>1. CASE code' = code /\ UNCHANGED bindingOrigins
      <3>1. Nests(code, Len(scopes)) /\ Recorded(code)
        BY <1>5, CodeKept
      <3> QED BY <2>1, <3>1 DEF Recorded
    <2>2. CASE code' = Starts(kind, r, c, bind) /\ Registers(r, bind)
      BY <1>1, <2>2, StartCode
    <2> QED BY <1>1, <2>1, <2>2
  <1>9. TypeOK'
    BY <1>1, <1>3, <1>4, <1>5, <1>6, <1>7, <1>8 DEF TypeOK, Nests, versionVars
  <1>10. Evals'
    <2>1. ASSUME NEW i \in DOMAIN scopes, NEW x \in DOMAIN scopes[i]
          PROVE  Sound(scopes[i][x])'
      <3>1. scopes[i] \in Partial(Binding) /\ Sound(scopes[i][x])
        BY <1>5 DEF TypeOK, Evals
      <3>2. scopes[i][x] \in Binding
        BY <3>1, PartialIs
      <3>3. scopes[i][x].var \in Names \cup {None} /\ scopes'[i][x] = scopes[i][x]
        BY <1>1, <3>2 DEF Binding
      <3> QED BY <1>6, <3>1, <3>3 DEF Sound
    <2> QED BY <1>1, <1>8, <2>1 DEF Evals
  <1>11. ASSUME NEW q \in Runtimes, NEW x \in Names PROVE Copied(q, x)'
    <2>1. Same(x)
      BY <1>1 DEF Same, Holders, versionVars
    <2>2. CASE q # r
      <3>1. /\ injectedVersions'[q][x] = injectedVersions[q][x]
            /\ globals'[q] = globals[q] /\ changed'[q] = changed[q]
        BY <1>3, <1>4, <1>7, <2>2
      <3> QED BY <1>5, <1>6, <2>1, <3>1, CopyStays DEF Inv
    <2>3. CASE q = r /\ x \in Captured(c)
      <3>1. injectedVersions'[q][x] = 0
        BY <1>4, <2>3
      <3> QED BY <3>1 DEF Copied, Skippable, InjectedVersionCurrent
    <2>4. CASE q = r /\ x \notin Captured(c) /\ x \notin auto
      <3>1. /\ injectedVersions'[q][x] = injectedVersions[q][x]
            /\ x \in DOMAIN globals[q] =>
                 x \in DOMAIN globals'[q] /\ globals'[q][x] = globals[q][x]
            /\ x \in changed[q] => x \in changed'[q]
        BY <1>3, <1>4, <1>7, <2>4
      <3> QED BY <1>5, <1>6, <2>1, <3>1, CopyStays DEF Inv
    <2>5. CASE q = r /\ x \notin Captured(c) /\ x \in auto
      <3> SUFFICES ASSUME Skippable(q, x)' PROVE Copy(q, x)'
        BY DEF Copied
      <3>1. /\ Bound(x) /\ Visible(x)' = Visible(x) /\ Visible(x).home = None
            /\ bindingOrigins[x] = None
        BY <1>5, <1>6, <2>1, SameIs DEF Skippable
      <3>2. x \in DOMAIN globals'[r] /\ globals'[r][x] = Visible(x).value
        BY <1>2, <2>5, <3>1, AutoCopies DEF auto
      <3> QED BY <2>5, <3>1, <3>2 DEF Copy
    <2> QED BY <2>2, <2>3, <2>4, <2>5
  <1> QED BY <1>9, <1>10, <1>11 DEF Inv

----------------------------------------------------------------------------
(* The theorems                                                            *)

LEMMA EvaluatedNames == Evaluated \cup {None} \subseteq Names \cup {None}
  BY BindingsAssumption

LEMMA InvNext == ASSUME Inv, [Next]_vars PROVE Inv'
  <1>1. ASSUME NEW x \in Names, NEW v \in Values,
               \/ Declare(x, v) \/ Assign(x, v) \/ HandleCall(x, v) \/ Catch(x, v)
               \/ OutputBinds(x, v)
               \/ \E r \in Runtimes : Mutate(r, x, v) \/ RefBinds(r, x, v)
        PROVE  Inv'
    BY <1>1, InvDeclare, InvAssign, InvPush, InvMutate, InvRefBinds, InvOutputBinds
       DEF HandleCall, Catch
  <1>2. ASSUME NEW x \in Names, NEW y \in Names, DeclareFrom(x, y) PROVE Inv'
    BY <1>2, InvDeclareFrom
  <1>3. ASSUME NEW r \in Runtimes, NEW c \in Captures,
               Exec(r, c) \/ EvalCondition(r, c) \/ Async(r, c) \/ AsyncBranch(r, c)
        PROVE  Inv'
    BY <1>3, InvStart DEF Exec, EvalCondition, Async, AsyncBranch
  <1>4. ASSUME NEW r \in Runtimes, NEW c \in Captures, NEW bind \in Evaluated \cup {None},
               Eval(r, c, bind)
        PROVE  Inv'
    BY <1>4, EvaluatedNames, InvStart DEF Eval
  <1>5. ASSUME NEW v \in Values, EvalBinds(v) PROVE Inv'
    BY <1>5, InvEvalBinds
  <1>6. CASE Return \/ End
    BY <1>6, InvReturn, InvEnd
  <1>7. CASE UNCHANGED vars
    <2>1. UNCHANGED <<scopes, versionVars, injectedVersions, bindingOrigins, globals, code,
                      changed>>
      BY <1>7 DEF vars
    <2>2. TypeOK' /\ Evals'
      BY <2>1 DEF Inv, TypeOK, Evals, Sound, versionVars
    <2>3. \A r \in Runtimes, x \in Names : Copied(r, x)'
      BY <2>1 DEF Inv, Copied, Skippable, Copy, Bound, Visible, Holders,
                  InjectedVersionCurrent, versionVars
    <2> QED BY <2>2, <2>3 DEF Inv
  <1>8. ASSUME NEW r \in Runtimes, Concat(r) PROVE Inv'
    <2>1. << >> \in Captures
      BY DEF Captures
    <2> QED BY <1>8, <2>1, InvStart DEF Concat
  <1> QED BY <1>1, <1>2, <1>3, <1>4, <1>5, <1>6, <1>7, <1>8 DEF Next

(* The type invariant, which also says that scopes and the guest code they *)
(* were pushed for nest (Executor.scopes, pushScope, popScope).            *)
THEOREM TypeCorrect == Spec => []TypeOK
  <1>1. Init => Inv
    BY InvInit
  <1>2. Inv /\ [Next]_vars => Inv'
    BY InvNext
  <1>3. Inv => TypeOK
    BY DEF Inv
  <1> QED BY <1>1, <1>2, <1>3, PTL DEF Spec

(* What CopiesAreCurrent says of a step.                                   *)
CopiesStep == Started => \A r \in Runtimes, c \in Captures : \A x \in Expected(c) :
  Sees(r, x) \/ bindingOrigins[x] # None \/ ~Injects(r, c)

LEMMA StartCopies ==
  ASSUME Inv, NEW kind, Automatic(kind), NEW r \in Runtimes, NEW c \in Captures,
         NEW bind \in Names \cup {None}, Start(kind, r, c, bind),
         NEW x \in Expected(c), bindingOrigins[x] = None
  PROVE  Sees(r, x)
  <1> DEFINE auto == AutoOf(kind, r, c)
  <1>1. /\ changed' = [changed EXCEPT ![r] = @ \ auto]
        /\ \E given : Leaves(r, Own(kind, r, c), c, given)
    BY StartIs
  <1>2. PICK given : Leaves(r, Own(kind, r, c), c, given)
    BY <1>1
  <1>3. TypeOK /\ Evals /\ changed \in [Runtimes -> SUBSET Names]
    BY DEF Inv, TypeOK
  <1>4. x \in Names /\ Bound(x) /\ Visible(x).home = None
    BY DEF Expected
  <1>5. x \notin Captured(c) /\ x \notin Excluded(c)
    BY CaptureIs DEF Expected
  <1>6. CASE x \in auto
    BY <1>2, <1>4, <1>5, <1>6, AutoCopies DEF Sees, Current
  <1>7. CASE x \notin auto
    <2>1. Offers(r, x) # {} /\ Offered(r, x) = Visible(x)
      BY <1>3, <1>4, OfferedIsVisible
    <2>2. InjectedVersionCurrent(r, x)
      BY <1>4, <1>5, <1>7, <2>1 DEF AutoOf, AutoInject
    <2>3. Copy(r, x) \/ x \in changed[r]
      BY <1>4, <2>2 DEF Inv, Copied, Skippable
    <2>4. x \in DOMAIN globals[r] =>
            x \in DOMAIN globals'[r] /\ globals'[r][x] = globals[r][x]
      BY <1>2, <1>4, <1>5, <1>7, StartGlobals
    <2>5. x \in changed[r] => x \in changed'[r]
      <3> HIDE DEF auto
      <3> QED BY <1>1, <1>3, <1>7
    <2> QED BY <2>3, <2>4, <2>5 DEF Sees, Current, Copy
  <1> QED BY <1>6, <1>7

LEMMA CopiesNext == ASSUME Inv, [Next]_vars PROVE CopiesStep
  <1> SUFFICES ASSUME Started, NEW r \in Runtimes, NEW c \in Captures, NEW x \in Expected(c),
                      bindingOrigins[x] = None, Injects(r, c)
               PROVE  Sees(r, x)
    BY DEF CopiesStep
  <1>1. /\ code' \in Seq(Code) /\ code' # << >>
    <2>1. Inv'
      BY InvNext
    <2>2. code \in Seq(Code) /\ code' \in Seq(Code)
      BY <2>1 DEF Inv, TypeOK
    <2> QED BY <2>2 DEF Started
  <1>2. Last(code').bind \in Names \cup {None}
    <2>1. Last(code') \in Code
      BY <1>1 DEF Last
    <2> QED BY <2>1 DEF Code
  <1>3. Automatic("exec") /\ Automatic("eval") /\ Automatic("branch")
    BY DEF Automatic
  <1>4. CASE Exec(r, c)
    BY <1>3, <1>4, StartCopies DEF Exec
  <1>5. CASE AsyncBranch(r, c)
    BY <1>3, <1>5, StartCopies DEF AsyncBranch
  <1>6. CASE Eval(r, c, Last(code').bind)
    BY <1>2, <1>3, <1>6, StartCopies DEF Eval
  <1> QED BY <1>4, <1>5, <1>6 DEF Injects

(* Guest code starts with the current value of every plain binding whose   *)
(* name no eval has bound: leaving out an injection never leaves behind a  *)
(* value of a popped scope, of an earlier binding or of an explicit        *)
(* capture (autoInjectScopePlanExcluding, popScope).                       *)
THEOREM CopiesStayCurrent == Spec => CopiesAreCurrent
  <1>1. Init => Inv
    BY InvInit
  <1>2. Inv /\ [Next]_vars => Inv'
    BY InvNext
  <1>3. Inv /\ [Next]_vars => CopiesStep
    BY CopiesNext
  <1>4. [][CopiesStep]_vars <=> CopiesAreCurrent
    BY DEF CopiesStep, CopiesAreCurrent
  <1> QED BY <1>1, <1>2, <1>3, <1>4, PTL DEF Spec
=============================================================================
