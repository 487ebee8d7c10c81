------------------------- MODULE ControlFlowProofs -------------------------
(***************************************************************************)
(* Proofs about the executor: its ControlFlow, and the Tables and Captures *)
(* it gives to guests.                                                     *)
(*                                                                         *)
(* For any channels, any depth of the stack and any number of ops:         *)
(* whatever way a frame is left, what it opened is closed with it, and a   *)
(* return, break, continue, throw or error arrives at the frame that it is *)
(* for, and nowhere else.                                                  *)
(*                                                                         *)
(* For any shapes, strides, offsets, widths and nulls: a layout is         *)
(* accepted exactly if its elements lie in the buffer, and what is read    *)
(* through it and through C is what is stored there.                       *)
(*                                                                         *)
(* For any types, lengths and scalars: a nested value that is captured is  *)
(* read as it was.                                                         *)
(***************************************************************************)
EXTENDS ControlFlow, Tables, SequenceTheorems, FiniteSetTheorems, WellFoundedInduction, TLAPS

----------------------------------------------------------------------------
(* The invariant                                                           *)

(* A signal that is under way in the first n frames aims at the innermost  *)
(* of them that takes it.                                                  *)
AimsIn(fs, s, n) ==
  IF s.kind = "none" THEN s = Quiet
  ELSE /\ s.aim \in 1..n /\ Takes(fs[s.aim], s.kind)
       /\ \A j \in s.aim+1..n : ~Takes(fs[j], s.kind)

(* The outermost frame is the run or a function; what a finally body puts  *)
(* off is for a frame around it; a stream of its own is the frame's.       *)
FrameOK(fs, i) ==
  /\ i = 1 => fs[i].kind \in Functions \cup {"run"}
  /\ fs[i].kind = "run" => i = 1
  /\ fs[i].at = "pulling" => fs[i].kind = "stream"
  /\ fs[i].at \in {"catch", "finally"} => fs[i].kind = "try"
  /\ fs[i].stream \in Positions => fs[i].kind = "stream" /\ fs[i].stream = i
  /\ fs[i].at = "finally" => AimsIn(fs, fs[i].saved, i - 1)
Sound ==
  /\ \A i \in DOMAIN frames : FrameOK(frames, i)
  /\ AimsIn(frames, signal, Depth)

Scoped == {i \in DOMAIN frames : HasScope(i)}
Generating == {i \in DOMAIN frames : frames[i].kind = "generator"}

(* The stream of a generator call was registered in the scope that the     *)
(* loop stands in, and no frame between the two has a scope of its own.    *)
StreamsNest ==
  \A h \in handles : h.stream \in Positions =>
    /\ h.stream \in DOMAIN frames /\ frames[h.stream].stream = h.stream
    /\ h.owner < h.stream
    /\ \A k \in h.owner+1..h.stream : k \notin Scoped

Nest == ScopesNest /\ CollectorsNest /\ StreamsNest

Inv == TypeOK /\ Sound /\ (disturbed \/ Nest)

----------------------------------------------------------------------------
(* Sequences                                                               *)

(* A sequence with one element replaced.                                   *)
LEMMA Replaced ==
  ASSUME NEW S, NEW s \in Seq(S), NEW i \in DOMAIN s, NEW e \in S, NEW t,
         t = [s EXCEPT ![i] = e]
  PROVE  /\ t \in Seq(S) /\ Len(t) = Len(s) /\ DOMAIN t = DOMAIN s
         /\ \A j \in DOMAIN s : t[j] = IF j = i THEN e ELSE s[j]
  OBVIOUS

(* A sequence with one element more at its end ...                         *)
LEMMA Appended ==
  ASSUME NEW S, NEW s \in Seq(S), NEW e \in S, NEW t, t = Append(s, e)
  PROVE  /\ t \in Seq(S) /\ Len(t) = Len(s) + 1 /\ t # << >>
         /\ DOMAIN t = 1..Len(s) + 1 /\ DOMAIN s = 1..Len(s)
         /\ \A j \in DOMAIN s : t[j] = s[j]
         /\ t[Len(s) + 1] = e
  OBVIOUS

(* ... or cut short, and in particular without its last.                   *)
LEMMA CutShort ==
  ASSUME NEW S, NEW s \in Seq(S), NEW n \in 0..Len(s), NEW t, t = SubSeq(s, 1, n)
  PROVE  /\ t \in Seq(S) /\ Len(t) = n /\ DOMAIN t = 1..n /\ DOMAIN s = 1..Len(s)
         /\ \A j \in DOMAIN t : j \in DOMAIN s /\ t[j] = s[j]
  <1>1. Len(s) \in Nat /\ DOMAIN s = 1..Len(s)
    OBVIOUS
  <1>2. n \in Nat /\ \A j \in 1..n : j \in DOMAIN s /\ s[j] \in S
    BY <1>1
  <1>3. t = [j \in 1..n |-> s[j]]
    BY <1>1, <1>2
  <1> QED BY <1>1, <1>2, <1>3

LEMMA Fronted ==
  ASSUME NEW S, NEW s \in Seq(S), s # << >>, NEW t, t = Front(s)
  PROVE  /\ t \in Seq(S) /\ Len(t) = Len(s) - 1 /\ Len(s) >= 1
         /\ DOMAIN t = 1..Len(s) - 1 /\ DOMAIN s = 1..Len(s)
         /\ \A j \in DOMAIN t : j \in DOMAIN s /\ t[j] = s[j]
  <1> DEFINE n == Len(s) - 1
  <1>1. Len(s) \in Nat /\ Len(s) >= 1 /\ n \in 0..Len(s)
    OBVIOUS
  <1>2. t = SubSeq(s, 1, n)
    BY DEF Front
  <1> HIDE DEF n
  <1>3. /\ t \in Seq(S) /\ Len(t) = n /\ DOMAIN t = 1..n /\ DOMAIN s = 1..Len(s)
        /\ \A j \in DOMAIN t : j \in DOMAIN s /\ t[j] = s[j]
    BY <1>1, <1>2, CutShort
  <1> QED BY <1>1, <1>3 DEF n

(* The last element of a sequence.                                         *)
LEMMA LastOf ==
  ASSUME NEW S, NEW s \in Seq(S), s # << >>
  PROVE  Len(s) \in DOMAIN s /\ Last(s) = s[Len(s)] /\ Last(s) \in S
  BY DEF Last

LEMMA SeqIs ==
  ASSUME NEW S, NEW s \in Seq(S)
  PROVE  /\ DOMAIN s = 1..Len(s) /\ Len(s) \in Nat /\ \A i \in DOMAIN s : s[i] \in S
         /\ s = [i \in 1..Len(s) |-> s[i]]
  OBVIOUS

LEMMA SeqWider ==
  ASSUME NEW S, NEW T, S \subseteq T
  PROVE  Seq(S) \subseteq Seq(T)
  OBVIOUS

(* A set of positions that is not empty has a greatest.                    *)
LEMMA Innermost ==
  ASSUME NEW n \in Nat, NEW S, S \subseteq 1..n, S # {}
  PROVE  \E m \in S : \A j \in m+1..n : j \notin S
  <1> DEFINE T == {k \in Nat : n - k \in S}
  <1>1. T \subseteq Nat /\ T # {}
    <2>1. PICK s \in S : TRUE
      OBVIOUS
    <2>2. s \in 1..n /\ n - s \in Nat /\ n - (n - s) = s
      BY <2>1
    <2>3. n - s \in T
      BY <2>1, <2>2
    <2> QED BY <2>3
  <1> HIDE DEF T
  <1>2. PICK k \in T : \A l \in T : ~(<<l, k>> \in OpToRel(<, Nat))
    BY <1>1, WFMin, NatLessThanWellFounded, Zenon
  <1>3. \A l \in T : ~(l < k)
    BY <1>1, <1>2 DEF OpToRel
  <1>4. k \in Nat /\ n - k \in S
    BY DEF T
  <1>5. ASSUME NEW j \in n - k + 1..n, j \in S
        PROVE  FALSE
    <2>1. n - j \in Nat /\ n - (n - j) = j /\ n - j < k
      BY <1>4
    <2>2. n - j \in T
      BY <2>1, <1>5 DEF T
    <2> QED BY <2>1, <2>2, <1>3
  <1> QED BY <1>4, <1>5

----------------------------------------------------------------------------
(* Signals and what takes them                                             *)

Raised == {"return", "break", "continue", "throw", "error"}

(* A signal aims at the innermost frame that takes it.                     *)
LEMMA Aimed ==
  ASSUME NEW fs \in Seq(Frame), fs # << >>, Len(fs) <= MaxDepth, NEW kind \in Raised,
         fs[1].kind \in Functions \cup {"run"}, Raise(fs, kind)
  PROVE  signal' \in Signal /\ AimsIn(fs, signal', Len(fs))
  <1> DEFINE S == {i \in 1..Len(fs) : Takes(fs[i], kind)}
             s == [kind |-> kind, aim |-> Aim(fs, kind)]
  <1>1. Len(fs) \in Nat /\ Len(fs) >= 1 /\ DOMAIN fs = 1..Len(fs) /\ MaxDepth \in Nat
    BY ControlFlowAssumption
  <1>2. 1 \in S /\ S \subseteq 1..Len(fs)
    BY <1>1 DEF Takes
  <1> HIDE DEF S
  <1>3. \E m \in S : \A j \in m+1..Len(fs) : j \notin S
    BY <1>1, <1>2, Innermost
  <1>4. \E i \in DOMAIN fs : Takes(fs[i], kind) /\ \A j \in i+1..Len(fs) : ~Takes(fs[j], kind)
    BY <1>1, <1>3 DEF S
  <1>5. /\ Aim(fs, kind) \in DOMAIN fs /\ Takes(fs[Aim(fs, kind)], kind)
        /\ \A j \in Aim(fs, kind)+1..Len(fs) : ~Takes(fs[j], kind)
    BY <1>4 DEF Aim
  <1>6. s.kind = kind /\ s.aim = Aim(fs, kind) /\ kind # "none"
    BY DEF Raised
  <1>7. s \in Signal
    BY <1>1, <1>5 DEF Signal, Raised
  <1>8. AimsIn(fs, s, Len(fs))
    BY <1>1, <1>5, <1>6 DEF AimsIn
  <1> QED BY <1>7, <1>8 DEF Raise

(* It goes by the frames alone that it may pass ...                        *)
LEMMA AimsStay ==
  ASSUME NEW fs, NEW gs, NEW n \in Nat, NEW s \in Signal, AimsIn(fs, s, n),
         \A i \in 1..n : \A k : Takes(fs[i], k) = Takes(gs[i], k)
  PROVE  AimsIn(gs, s, n)
  <1>1. s.aim \in Nat
    BY ControlFlowAssumption DEF Signal
  <1> QED BY <1>1 DEF AimsIn

(* ... passes the last if that does not take it ...                        *)
LEMMA AimsBelow ==
  ASSUME NEW fs, NEW n \in Nat \ {0}, NEW s \in Signal, AimsIn(fs, s, n),
         s.kind = "none" \/ ~Takes(fs[n], s.kind)
  PROVE  AimsIn(fs, s, n - 1)
  <1>1. CASE s.kind = "none"
    BY <1>1 DEF AimsIn
  <1>2. CASE s.kind # "none"
    <2>1. s.aim \in 1..n /\ s.aim # n
      BY <1>2 DEF AimsIn
    <2> QED BY <1>2, <2>1 DEF AimsIn
  <1> QED BY <1>1, <1>2

(* ... and stops there if it does.                                         *)
LEMMA AimsHere ==
  ASSUME NEW fs, NEW n \in Nat \ {0}, NEW s \in Signal, AimsIn(fs, s, n),
         s.kind # "none", Takes(fs[n], s.kind)
  PROVE  s.aim = n
  BY DEF AimsIn

(* The frames after a step that leaves or makes them as they ought to be.  *)
Like(f, g) == /\ f.kind = g.kind /\ f.at = g.at /\ f.catches = g.catches
              /\ f.stream = g.stream /\ f.saved = g.saved
LEMMA FrameStays ==
  ASSUME NEW fs, NEW gs, NEW i \in Nat \ {0}, FrameOK(fs, i), fs[i].saved \in Signal,
         \A j \in 1..i : Like(fs[j], gs[j])
  PROVE  FrameOK(gs, i)
  <1>1. Like(fs[i], gs[i])
    OBVIOUS
  <1>2. i - 1 \in Nat /\ \A j \in 1..i - 1 : \A k : Takes(fs[j], k) = Takes(gs[j], k)
    <2>1. SUFFICES ASSUME NEW j \in 1..i - 1, NEW k PROVE Takes(fs[j], k) = Takes(gs[j], k)
      OBVIOUS
    <2>2. Like(fs[j], gs[j])
      OBVIOUS
    <2> QED BY <2>2 DEF Like, Takes
  <1>3. fs[i].at = "finally" => AimsIn(gs, fs[i].saved, i - 1)
    BY <1>2, AimsStay DEF FrameOK
  <1> QED BY <1>1, <1>3 DEF FrameOK, Like

LEMMA AtTop ==
  ASSUME TypeOK
  PROVE  /\ frames \in Seq(Frame) /\ Depth \in 0..MaxDepth /\ DOMAIN frames = 1..Depth
         /\ MaxDepth \in Nat /\ signal \in Signal
         /\ frames = << >> <=> Depth = 0
         /\ frames # << >> => /\ Depth \in Positions /\ Depth \in DOMAIN frames
                              /\ Top = frames[Depth] /\ Top \in Frame
  BY LastOf, ControlFlowAssumption DEF TypeOK, Depth, Top, Positions

LEMMA SoundMove ==
  ASSUME TypeOK, Sound, frames' \in Seq(Frame),
         \A i \in DOMAIN frames' : \/ i \in DOMAIN frames /\ \A j \in 1..i : Like(frames[j], frames'[j])
                                   \/ FrameOK(frames', i),
         AimsIn(frames', signal', Len(frames'))
  PROVE  Sound'
  <1>1. ASSUME NEW i \in DOMAIN frames', i \in DOMAIN frames,
               \A j \in 1..i : Like(frames[j], frames'[j])
        PROVE  FrameOK(frames', i)
    <2>1. i \in Nat \ {0} /\ frames[i] \in Frame /\ FrameOK(frames, i)
      BY <1>1 DEF TypeOK, Sound
    <2>2. frames[i].saved \in Signal
      BY <2>1 DEF Frame
    <2> QED BY <1>1, <2>1, <2>2, FrameStays
  <1> QED BY <1>1 DEF Sound, Depth

(* A frame on top of the others.                                           *)
LEMMA PushSound ==
  ASSUME TypeOK, Sound, NEW f \in Frame, Depth < MaxDepth, Push(f),
         f.at = "body" \/ (f.at = "pulling" /\ f.kind = "stream"),
         f.kind # "run", Depth = 0 => f.kind \in Functions,
         f.stream \in Positions => f.kind = "stream" /\ f.stream = Depth + 1,
         signal = Quiet, signal' = Quiet
  PROVE  frames' \in Seq(Frame) /\ Depth' <= MaxDepth /\ Sound'
  <1>1. /\ frames' \in Seq(Frame) /\ Len(frames') = Depth + 1 /\ DOMAIN frames' = 1..Depth + 1
        /\ \A i \in 1..Depth : i \in DOMAIN frames /\ frames'[i] = frames[i]
        /\ frames'[Depth + 1] = f /\ Depth \in Nat
    BY AtTop, Appended DEF Push, Depth
  <1>2. FrameOK(frames', Depth + 1)
    BY <1>1 DEF FrameOK
  <1>3. \A i \in 1..Depth : \A j \in 1..i : Like(frames[j], frames'[j])
    BY <1>1 DEF Like
  <1>4. AimsIn(frames', signal', Len(frames'))
    BY DEF AimsIn, Quiet
  <1>5. Sound'
    BY <1>1, <1>2, <1>3, <1>4, SoundMove
  <1> QED BY <1>1, <1>5, AtTop DEF Depth

(* The frames without their last ones.                                     *)
LEMMA CutSound ==
  ASSUME TypeOK, Sound, NEW n \in 0..Depth, frames' = SubSeq(frames, 1, n),
         signal' \in Signal, AimsIn(frames, signal', n)
  PROVE  frames' \in Seq(Frame) /\ Depth' <= MaxDepth /\ Sound'
  <1>1. /\ frames' \in Seq(Frame) /\ Len(frames') = n /\ DOMAIN frames' = 1..n
        /\ \A i \in 1..n : i \in DOMAIN frames /\ frames'[i] = frames[i]
        /\ n \in Nat
    BY AtTop, CutShort DEF Depth
  <1>2. \A i \in 1..n : \A j \in 1..i : Like(frames[j], frames'[j])
    BY <1>1 DEF Like
  <1>3. AimsIn(frames', signal', n)
    BY <1>1, AimsStay
  <1>4. Sound'
    BY <1>1, <1>2, <1>3, SoundMove
  <1>5. n <= MaxDepth
    BY AtTop
  <1> QED BY <1>1, <1>4, <1>5 DEF Depth

LEMMA PopSound ==
  ASSUME TypeOK, Sound, frames # << >>, Pop, signal' \in Signal,
         AimsIn(frames, signal', Depth - 1)
  PROVE  frames' \in Seq(Frame) /\ Depth' <= MaxDepth /\ Sound'
  <1>1. Depth - 1 \in 0..Depth /\ frames' = SubSeq(frames, 1, Depth - 1)
    BY AtTop DEF Pop, Front, Depth
  <1> QED BY <1>1, CutSound

(* What is raised from the frames under the top one.                       *)
LEMMA RaisedBelow ==
  ASSUME TypeOK, Sound, frames # << >>, Top.kind \notin Functions \cup {"run"},
         Raise(Front(frames), "error")
  PROVE  signal' \in Signal /\ AimsIn(frames, signal', Depth - 1)
  <1> DEFINE fs == Front(frames)
  <1>1. /\ fs \in Seq(Frame) /\ Len(fs) = Depth - 1 /\ DOMAIN fs = 1..Depth - 1
        /\ \A i \in 1..Depth - 1 : i \in DOMAIN frames /\ fs[i] = frames[i]
    <2>1. frames \in Seq(Frame)
      BY AtTop
    <2> HIDE DEF fs
    <2>2. /\ fs \in Seq(Frame) /\ Len(fs) = Len(frames) - 1 /\ DOMAIN fs = 1..Len(frames) - 1
          /\ \A i \in DOMAIN fs : i \in DOMAIN frames /\ fs[i] = frames[i]
      BY <2>1, Fronted DEF fs
    <2> QED BY <2>2 DEF Depth
  <1>2. /\ frames[1].kind \in Functions \cup {"run"} /\ Top = frames[Depth]
        /\ Depth \in Nat /\ Depth >= 1 /\ Depth <= MaxDepth
    BY AtTop DEF Sound, FrameOK, Positions
  <1>3. Depth # 1
    BY <1>2
  <1>4. fs[1].kind \in Functions \cup {"run"} /\ Len(fs) \in Nat /\ Len(fs) >= 1
        /\ fs # << >> /\ Len(fs) <= MaxDepth
    BY <1>1, <1>2, <1>3, AtTop
  <1> HIDE DEF fs
  <1>5. signal' \in Signal /\ AimsIn(fs, signal', Depth - 1)
    BY <1>1, <1>4, Aimed DEF fs, Raised
  <1> QED BY <1>1, <1>4, <1>5, AimsStay

(* Another frame in place of the top one, which goes on with it.           *)
LEMMA SetTopSound ==
  ASSUME TypeOK, Sound, frames # << >>, NEW f \in Frame, SetTop(f),
         f.kind = Top.kind, f.stream = Top.stream,
         f.at = "pulling" => f.kind = "stream",
         f.at \in {"catch", "finally"} => f.kind = "try",
         f.at = "finally" => AimsIn(frames, f.saved, Depth - 1),
         signal' = Quiet
  PROVE  frames' \in Seq(Frame) /\ Depth' <= MaxDepth /\ Sound'
  <1>1. /\ frames' \in Seq(Frame) /\ Len(frames') = Depth /\ DOMAIN frames' = 1..Depth
        /\ \A i \in 1..Depth : i \in DOMAIN frames
             /\ frames'[i] = IF i = Depth THEN f ELSE frames[i]
        /\ Depth \in Positions /\ Top = frames[Depth] /\ FrameOK(frames, Depth)
    BY AtTop, Replaced DEF SetTop, Sound, Depth
  <1>2. \A i \in 1..Depth - 1 : \A j \in 1..i : j # Depth /\ Like(frames[j], frames'[j])
    BY <1>1 DEF Like, Positions
  <1>3. ASSUME f.at = "finally"
        PROVE  AimsIn(frames', f.saved, Depth - 1)
    BY <1>1, <1>3, AimsStay DEF Positions, Frame
  <1>4. frames'[Depth] = f /\ FrameOK(frames', Depth)
    BY <1>1, <1>3 DEF FrameOK, Positions
  <1>5. AimsIn(frames', signal', Len(frames'))
    BY DEF AimsIn, Quiet
  <1>6. \A i \in 1..Depth : i = Depth \/ i \in 1..Depth - 1
    BY <1>1 DEF Positions
  <1>7. Sound'
    BY <1>1, <1>2, <1>4, <1>5, <1>6, SoundMove
  <1>8. Depth' = Depth
    BY <1>1 DEF Depth
  <1> QED BY <1>1, <1>7, <1>8, AtTop

----------------------------------------------------------------------------
(* Every step keeps the types, and the frames and signal sound             *)

LEMMA FreshTypes ==
  ASSUME NEW kind \in Kinds
  PROVE  /\ Quiet \in Signal /\ Fresh(kind) \in Frame
         /\ Fresh(kind).kind = kind /\ Fresh(kind).at = "body"
         /\ Fresh(kind).stream = None /\ None \notin Positions
  <1>1. Quiet \in Signal
    BY ControlFlowAssumption DEF Quiet, Signal, None
  <1>2. None \in Channels \cup (0..MaxDepth)
    BY ControlFlowAssumption DEF None
  <1> QED BY <1>1, <1>2 DEF Fresh, Frame, None, Positions

LEMMA ScopeTypes ==
  ASSUME TypeOK, \/ UNCHANGED scopeVars \/ PopScope
                 \/ \E o \in 0..MaxDepth : PushScope(o)
                 \/ \E s \in Channels \cup (0..MaxDepth) : Register(s)
                 \/ UNCHANGED <<scopes, handleScopes>> /\ \E s : ReleaseStream(s)
  PROVE  /\ scopes' \in Seq(0..MaxDepth) /\ scopes' # << >>
         /\ handleScopes' \in Nat /\ handles' \subseteq Handle
  <1>0. /\ scopes \in Seq(0..MaxDepth) /\ scopes # << >>
        /\ handleScopes \in Nat /\ handles \subseteq Handle
    BY DEF TypeOK
  <1>1. CASE UNCHANGED scopeVars
    BY <1>0, <1>1 DEF scopeVars
  <1>2. CASE PopScope /\ Len(scopes) = 1
    BY <1>0, <1>2 DEF PopScope, scopeVars
  <1>3. CASE PopScope /\ Len(scopes) # 1
    <2>1. scopes' = Front(scopes) /\ handles' \subseteq handles
      BY <1>3 DEF PopScope
    <2>2. /\ scopes' \in Seq(0..MaxDepth) /\ Len(scopes') = Len(scopes) - 1
          /\ Len(scopes) >= 1 /\ Len(scopes) \in Nat
      BY <1>0, <2>1, Fronted
    <2>3. scopes' # << >>
      BY <1>3, <2>2
    <2>4. handleScopes' \in Nat
      BY <1>0, <1>3 DEF PopScope
    <2> QED BY <1>0, <2>1, <2>2, <2>3, <2>4
  <1>4. ASSUME NEW o \in 0..MaxDepth, PushScope(o)
        PROVE  /\ scopes' \in Seq(0..MaxDepth) /\ scopes' # << >>
               /\ handleScopes' \in Nat /\ handles' \subseteq Handle
    BY <1>0, <1>4, Appended DEF PushScope
  <1>5. ASSUME NEW s \in Channels \cup (0..MaxDepth), Register(s)
        PROVE  /\ scopes' \in Seq(0..MaxDepth) /\ scopes' # << >>
               /\ handleScopes' \in Nat /\ handles' \subseteq Handle
    <2>1. Last(scopes) \in 0..MaxDepth
      BY <1>0, LastOf
    <2>2. CurrentScope \in Nat \ {0}
      BY <1>0 DEF CurrentScope
    <2>3. [scope |-> CurrentScope, owner |-> Last(scopes), stream |-> s] \in Handle
      BY <2>1, <2>2 DEF Handle
    <2> QED BY <1>0, <1>5, <2>2, <2>3 DEF Register
  <1>6. CASE UNCHANGED <<scopes, handleScopes>> /\ \E s : ReleaseStream(s)
    BY <1>0, <1>6 DEF ReleaseStream
  <1> QED BY <1>1, <1>2, <1>3, <1>4, <1>5, <1>6

(* What a step leaves alone is as it was.                                  *)
LEMMA TypesStay ==
  ASSUME TypeOK, frames' \in Seq(Frame), Depth' <= MaxDepth, signal' \in Signal,
         scopes' \in Seq(0..MaxDepth), scopes' # << >>,
         handleScopes' \in Nat, handles' \subseteq Handle,
         yieldCollectors' \in Seq([of : Positions, holds : Nat]),
         phase' \in {phase, "module"}, disturbed' \in BOOLEAN,
         ops' = ops \/ (ops < MaxOps /\ ops' = ops + 1)
  PROVE  TypeOK'
  <1>1. ops' \in 0..MaxOps
    BY ControlFlowAssumption, SMTT(30) DEF TypeOK
  <1> QED BY <1>1 DEF TypeOK

(* Ops and guest code that make no frame.                                  *)
LEMMA StillSound ==
  ASSUME TypeOK, Sound, Fail \/ OpTable \/ StreamCancel
  PROVE  TypeOK' /\ Sound'
  <1>1. /\ frames' = frames /\ phase' = phase /\ disturbed' = disturbed
        /\ yieldCollectors' = yieldCollectors
        /\ ops' = ops \/ (ops < MaxOps /\ ops' = ops + 1)
    BY DEF Fail, OpTable, StreamCancel, Executes
  <1>2. /\ scopes' \in Seq(0..MaxDepth) /\ scopes' # << >>
        /\ handleScopes' \in Nat /\ handles' \subseteq Handle
    <2>1. None \in Channels \cup (0..MaxDepth)
      BY ControlFlowAssumption DEF None
    <2> QED BY <2>1, ScopeTypes DEF Fail, OpTable, StreamCancel
  <1>3. signal' \in Signal /\ AimsIn(frames, signal', Depth)
    <2>1. CASE UNCHANGED signal
      BY <2>1 DEF TypeOK, Sound
    <2>2. CASE Fail
      <3>1. PICK kind \in Raised : Raise(frames, kind)
        BY <2>2 DEF Fail, Raised
      <3>2. frames # << >>
        BY <2>2 DEF Fail, Executes, TopIs
      <3>3. frames[1].kind \in Functions \cup {"run"}
        BY <3>2, AtTop DEF Sound, FrameOK, Positions
      <3> QED BY <3>1, <3>2, <3>3, Aimed, AtTop DEF Depth
    <2> QED BY <2>1, <2>2 DEF OpTable, StreamCancel
  <1>4. Sound'
    BY <1>1, <1>3 DEF Sound, Depth
  <1> QED BY <1>1, <1>2, <1>3, <1>4, TypesStay DEF TypeOK, Depth

(* Ops with a frame of their own.                                          *)
LEMMA Entered ==
  ASSUME TypeOK, Exec \/ OpLoop \/ OpForeachStream \/ OpTry \/ PullRuns
  PROVE  /\ signal = Quiet /\ signal' = Quiet /\ Depth < MaxDepth /\ Depth \in Nat \ {0}
         /\ phase' = phase /\ disturbed' = disturbed /\ yieldCollectors' = yieldCollectors
         /\ ops < MaxOps /\ ops' = ops + 1
         /\ \E f \in Frame :
              /\ Push(f) /\ f.kind \notin Functions \cup {"run"}
              /\ f.at = "body" \/ (f.at = "pulling" /\ f.kind = "stream")
              /\ f.stream \in Positions => f.kind = "stream" /\ f.stream = Depth + 1
              /\ UNCHANGED scopeVars \/ Register(f.stream)
  <1>1. /\ signal = Quiet /\ signal' = Quiet /\ Depth < MaxDepth /\ frames # << >>
        /\ phase' = phase /\ disturbed' = disturbed /\ yieldCollectors' = yieldCollectors
        /\ ops < MaxOps /\ ops' = ops + 1
    BY DEF Exec, OpLoop, OpForeachStream, OpTry, PullRuns, Enters, Executes, TopIs
  <1>2. Depth \in Nat \ {0}
    BY <1>1, AtTop
  <1>3. CASE Exec \/ PullRuns
    BY <1>1, <1>2, <1>3, FreshTypes DEF Exec, PullRuns, Kinds, Functions
  <1>4. CASE OpLoop
    <2>1. PICK kind \in {"while", "each"} : Push([Fresh(kind) EXCEPT !.count = 1])
      BY <1>4 DEF OpLoop
    <2> DEFINE f == [Fresh(kind) EXCEPT !.count = 1]
    <2>2. f \in Frame /\ f.kind = kind /\ f.at = "body" /\ f.stream = None
      BY FreshTypes DEF Kinds, Loops, Frame
    <2>3. UNCHANGED scopeVars
      BY <1>4 DEF OpLoop
    <2> QED BY <1>1, <1>2, <2>1, <2>2, <2>3, FreshTypes DEF Kinds, Loops, Functions
  <1>5. CASE OpForeachStream
    <2>1. PICK s \in Channels \cup {Depth + 1} :
            /\ Push([Fresh("stream") EXCEPT !.at = "pulling", !.stream = s])
            /\ UNCHANGED scopeVars \/ Register(s)
      BY <1>5 DEF OpForeachStream
    <2> DEFINE f == [Fresh("stream") EXCEPT !.at = "pulling", !.stream = s]
    <2>2. s \in Channels \cup (0..MaxDepth) /\ (s \in Positions => s = Depth + 1)
      BY <1>1, <1>2, ControlFlowAssumption DEF Positions
    <2>3. Fresh("stream") \in Frame /\ Fresh("stream").kind = "stream"
      BY FreshTypes DEF Kinds, Loops
    <2>4. f \in Frame /\ f.kind = "stream" /\ f.at = "pulling" /\ f.stream = s
      BY <2>2, <2>3 DEF Frame
    <2> QED BY <1>1, <1>2, <2>1, <2>2, <2>4 DEF Functions
  <1>6. CASE OpTry
    <2>1. PICK c \in BOOLEAN : Push([Fresh("try") EXCEPT !.catches = c])
      BY <1>6 DEF OpTry
    <2> DEFINE f == [Fresh("try") EXCEPT !.catches = c]
    <2>2. f \in Frame /\ f.kind = "try" /\ f.at = "body" /\ f.stream = None
      BY FreshTypes DEF Kinds, Frame
    <2>3. UNCHANGED scopeVars
      BY <1>6 DEF OpTry
    <2> QED BY <1>1, <1>2, <2>1, <2>2, <2>3, FreshTypes DEF Kinds, Functions
  <1> QED BY <1>3, <1>4, <1>5, <1>6

LEMMA EnterSound ==
  ASSUME TypeOK, Sound, Exec \/ OpLoop \/ OpForeachStream \/ OpTry \/ PullRuns
  PROVE  TypeOK' /\ Sound'
  <1>1. PICK f \in Frame :
          /\ Push(f) /\ f.kind \notin Functions \cup {"run"}
          /\ f.at = "body" \/ (f.at = "pulling" /\ f.kind = "stream")
          /\ f.stream \in Positions => f.kind = "stream" /\ f.stream = Depth + 1
          /\ UNCHANGED scopeVars \/ Register(f.stream)
    BY Entered
  <1>2. /\ scopes' \in Seq(0..MaxDepth) /\ scopes' # << >>
        /\ handleScopes' \in Nat /\ handles' \subseteq Handle
    BY <1>1, ScopeTypes DEF Frame
  <1>3. frames' \in Seq(Frame) /\ Depth' <= MaxDepth /\ Sound'
    BY <1>1, Entered, PushSound
  <1>4. signal' \in Signal
    BY Entered, FreshTypes DEF Kinds
  <1> QED BY <1>2, <1>3, <1>4, Entered, TypesStay DEF TypeOK

LEMMA CallSound ==
  ASSUME TypeOK, Sound, HandleCall \/ SpawnFuncDef
  PROVE  TypeOK' /\ Sound'
  <1>1. /\ Call /\ phase' = phase /\ disturbed' = disturbed /\ signal' = signal
        /\ ops < MaxOps /\ ops' = ops + 1 /\ Depth < MaxDepth
    BY DEF HandleCall, SpawnFuncDef, Executes, Call
  <1>2. signal = Quiet /\ Quiet \in Signal /\ Depth \in Nat
    <2>1. ASSUME frames = << >>
          PROVE  signal = Quiet
      BY <2>1, AtTop DEF Sound, AimsIn
    <2> QED BY <2>1, FreshTypes, AtTop DEF HandleCall, SpawnFuncDef, Executes, Kinds
  <1>3. PICK kind \in Functions :
          /\ Push(Fresh(kind)) /\ PushScope(Depth + 1)
          /\ yieldCollectors' = IF kind = "func" THEN yieldCollectors
               ELSE Append(yieldCollectors, [of |-> Depth + 1, holds |-> 0])
    BY <1>1 DEF Call
  <1>4. kind \in Kinds /\ kind # "run"
    BY DEF Kinds, Functions
  <1>5. frames' \in Seq(Frame) /\ Depth' <= MaxDepth /\ Sound'
    BY <1>1, <1>2, <1>3, <1>4, FreshTypes, PushSound
  <1>6. Depth + 1 \in 0..MaxDepth /\ Depth + 1 \in Positions
    BY <1>1, <1>2, ControlFlowAssumption DEF Positions
  <1>7. /\ scopes' \in Seq(0..MaxDepth) /\ scopes' # << >>
        /\ handleScopes' \in Nat /\ handles' \subseteq Handle
    BY <1>3, <1>6, ScopeTypes
  <1>8. yieldCollectors' \in Seq([of : Positions, holds : Nat])
    <2>1. [of |-> Depth + 1, holds |-> 0] \in [of : Positions, holds : Nat]
      BY <1>6
    <2> QED BY <1>3, <2>1, Appended DEF TypeOK
  <1> QED BY <1>1, <1>2, <1>5, <1>7, <1>8, TypesStay DEF TypeOK

(* What the top frame does to a signal.                                    *)
LEMMA AtTopSound ==
  ASSUME TypeOK, Sound, frames # << >>
  PROVE  /\ FrameOK(frames, Depth) /\ Top.saved \in Signal /\ Quiet \in Signal
         /\ AimsIn(frames, Quiet, Depth - 1)
         /\ signal.kind = "none" => signal = Quiet
         /\ signal.kind = "none" \/ ~Takes(Top, signal.kind) => AimsIn(frames, signal, Depth - 1)
         /\ signal.kind # "none" /\ Takes(Top, signal.kind) => signal.aim = Depth
  <1>1. /\ Depth \in Nat \ {0} /\ Depth \in DOMAIN frames /\ Top = frames[Depth]
        /\ Top \in Frame /\ signal \in Signal
    BY AtTop DEF Positions
  <1>2. AimsIn(frames, signal, Depth) /\ FrameOK(frames, Depth)
    BY <1>1 DEF Sound
  <1>3. Top.saved \in Signal /\ Quiet \in Signal
    BY <1>1, FreshTypes DEF Frame, Kinds
  <1>4. AimsIn(frames, Quiet, Depth - 1)
    BY DEF AimsIn, Quiet
  <1>5. signal.kind = "none" => signal = Quiet
    BY <1>2 DEF AimsIn
  <1> QED BY <1>1, <1>2, <1>3, <1>4, <1>5, AimsBelow, AimsHere

(* The function that an op belongs to.                                     *)
LEMMA HereIs ==
  ASSUME TypeOK
  PROVE  /\ Here \in 0..Depth /\ (Here # None => frames[Here].kind \in Functions)
         /\ \A j \in Here+1..Depth : frames[j].kind \notin Functions
  <1> DEFINE S == {i \in 1..Depth : frames[i].kind \in Functions}
             P(i) == /\ i # None => frames[i].kind \in Functions
                     /\ \A j \in i+1..Depth : frames[j].kind \notin Functions
  <1>1. Depth \in Nat
    BY AtTop
  <1>2. CASE S = {}
    <2>1. 0 \in 0..Depth /\ P(0)
      BY <1>1, <1>2 DEF None
    <2> QED BY <2>1 DEF Here
  <1>3. CASE S # {}
    <2> HIDE DEF S
    <2>1. S \subseteq 1..Depth
      BY DEF S
    <2>2. PICK m \in S : \A j \in m+1..Depth : j \notin S
      BY <1>1, <1>3, <2>1, Innermost
    <2>3. m \in 0..Depth /\ P(m)
      BY <1>1, <2>2 DEF S
    <2> QED BY <2>3 DEF Here
  <1> QED BY <1>2, <1>3

(* Frames that end.                                                        *)
LEMMA LeaveFuncSound ==
  ASSUME TypeOK, Sound, LeaveFunc \/ LeaveRun
  PROVE  TypeOK' /\ Sound'
  <1>1. /\ frames # << >> /\ Pop /\ signal' = Quiet
        /\ phase' \in {phase, "module"} /\ disturbed' = disturbed /\ ops' = ops
    BY DEF LeaveFunc, LeaveRun, TopIs
  <1>2. frames' \in Seq(Frame) /\ Depth' <= MaxDepth /\ Sound' /\ signal' \in Signal
    BY <1>1, AtTopSound, PopSound
  <1>3. /\ scopes' \in Seq(0..MaxDepth) /\ scopes' # << >>
        /\ handleScopes' \in Nat /\ handles' \subseteq Handle
    BY ScopeTypes DEF LeaveFunc, LeaveRun, TypeOK
  <1>4. yieldCollectors' \in Seq([of : Positions, holds : Nat])
    <2>1. CASE yieldCollectors' = yieldCollectors
      BY <2>1 DEF TypeOK
    <2>2. CASE yieldCollectors' = Front(yieldCollectors)
      <3>1. CASE yieldCollectors = << >>
        BY <2>2, <3>1 DEF Front
      <3>2. CASE yieldCollectors # << >>
        BY <2>2, <3>2, Fronted DEF TypeOK
      <3> QED BY <3>1, <3>2
    <2> QED BY <2>1, <2>2 DEF LeaveFunc, LeaveRun
  <1> QED BY <1>1, <1>2, <1>3, <1>4, TypesStay DEF TypeOK

LEMMA GuestEndsSound ==
  ASSUME TypeOK, Sound, GuestEnds
  PROVE  TypeOK' /\ Sound'
  <1>1. /\ frames # << >> /\ Pop /\ signal = Quiet /\ Top.kind = "guest"
        /\ UNCHANGED scopeVars /\ UNCHANGED <<yieldCollectors, phase, disturbed, ops>>
    BY DEF GuestEnds, TopIs
  <1>2. signal' \in Signal /\ AimsIn(frames, signal', Depth - 1)
    <2>1. CASE UNCHANGED signal
      BY <1>1, <2>1, AtTopSound
    <2>2. CASE Raise(Front(frames), "error")
      BY <1>1, <2>2, RaisedBelow DEF Functions
    <2> QED BY <2>1, <2>2 DEF GuestEnds
  <1>3. frames' \in Seq(Frame) /\ Depth' <= MaxDepth /\ Sound'
    BY <1>1, <1>2, PopSound
  <1> QED BY <1>1, <1>2, <1>3, TypesStay DEF TypeOK, scopeVars

LEMMA LeaveLoopSound ==
  ASSUME TypeOK, Sound, LeaveLoop
  PROVE  TypeOK' /\ Sound'
  <1>1. /\ frames # << >> /\ Pop /\ Top.kind \in Loops
        /\ UNCHANGED scopeVars /\ UNCHANGED <<yieldCollectors, phase, disturbed, ops>>
        /\ \/ signal' = Quiet
           \/ signal.kind \notin {"break", "continue"} /\ UNCHANGED signal
    BY DEF LeaveLoop, TopIs, Loops
  <1>2. signal.kind \notin {"break", "continue"} => ~Takes(Top, signal.kind)
    BY <1>1 DEF Takes, Loops, Functions
  <1>3. signal' \in Signal /\ AimsIn(frames, signal', Depth - 1)
    BY <1>1, <1>2, AtTopSound, AtTop
  <1>4. frames' \in Seq(Frame) /\ Depth' <= MaxDepth /\ Sound'
    BY <1>1, <1>3, PopSound
  <1> QED BY <1>1, <1>3, <1>4, TypesStay DEF TypeOK, scopeVars

(* Steps of loops ...                                                      *)
LEMMA IterateSound ==
  ASSUME TypeOK, Sound, Iterate
  PROVE  TypeOK' /\ Sound'
  <1>1. /\ frames # << >> /\ Top.kind \in {"while", "each"} /\ Top \in Frame
        /\ UNCHANGED scopeVars /\ UNCHANGED <<yieldCollectors, phase, disturbed, ops>>
    BY AtTop DEF Iterate, TopIs
  <1>2. CASE Top.count < MaxIterations
    <2> DEFINE f == [Top EXCEPT !.count = @ + 1]
    <2>1. SetTop(f) /\ signal' = Quiet
      BY <1>2 DEF Iterate
    <2>2. /\ f \in Frame /\ f.kind = Top.kind /\ f.stream = Top.stream /\ f.at = Top.at
          /\ f.saved = Top.saved
      BY <1>1 DEF Frame
    <2>3. FrameOK(frames, Depth) /\ Top = frames[Depth] /\ Quiet \in Signal
      BY <1>1, AtTopSound, AtTop
    <2>4. f.at \notin {"pulling", "catch", "finally"}
      BY <1>1, <2>2, <2>3 DEF FrameOK
    <2> HIDE DEF f
    <2>5. frames' \in Seq(Frame) /\ Depth' <= MaxDepth /\ Sound'
      BY <1>1, <2>1, <2>2, <2>4, SetTopSound
    <2> QED BY <1>1, <2>1, <2>3, <2>5, TypesStay DEF TypeOK, scopeVars
  <1>3. CASE ~(Top.count < MaxIterations)
    <2>1. Pop /\ Raise(Front(frames), "error")
      BY <1>3 DEF Iterate
    <2>2. signal' \in Signal /\ AimsIn(frames, signal', Depth - 1)
      BY <1>1, <2>1, RaisedBelow DEF Functions
    <2>3. frames' \in Seq(Frame) /\ Depth' <= MaxDepth /\ Sound'
      BY <1>1, <2>1, <2>2, PopSound
    <2> QED BY <1>1, <2>2, <2>3, TypesStay DEF TypeOK, scopeVars
  <1> QED BY <1>2, <1>3

(* ... of loops over streams ...                                           *)
LEMMA StreamSound ==
  ASSUME TypeOK, Sound, PullEnds \/ PullNext \/ LeaveStream
  PROVE  TypeOK' /\ Sound'
  <1>1. /\ frames # << >> /\ Top.kind = "stream" /\ Top \in Frame
        /\ UNCHANGED <<scopes, handleScopes, yieldCollectors, phase, disturbed, ops>>
        /\ \/ UNCHANGED handles \/ \E s : ReleaseStream(s)
    BY AtTop DEF PullEnds, PullNext, LeaveStream, TopIs, scopeVars
  <1>2. handles' \subseteq Handle
    BY <1>1 DEF TypeOK, ReleaseStream
  <1>3. frames' \in Seq(Frame) /\ Depth' <= MaxDepth /\ Sound' /\ signal' \in Signal
    <2>1. ASSUME NEW x \in {"pulling", "body"}, SetTop([Top EXCEPT !.at = x]), signal' = Quiet
          PROVE  frames' \in Seq(Frame) /\ Depth' <= MaxDepth /\ Sound' /\ signal' \in Signal
      <3> DEFINE f == [Top EXCEPT !.at = x]
      <3>1. f \in Frame /\ f.kind = Top.kind /\ f.stream = Top.stream /\ f.at = x
        BY <1>1 DEF Frame
      <3>2. SetTop(f)
        BY <2>1
      <3> HIDE DEF f
      <3> QED BY <1>1, <2>1, <3>1, <3>2, SetTopSound, AtTopSound
    <2>2. ASSUME Pop, \/ signal' = Quiet
                      \/ UNCHANGED signal /\ signal.kind \notin {"break", "continue"}
                      \/ Raise(Front(frames), "error")
          PROVE  frames' \in Seq(Frame) /\ Depth' <= MaxDepth /\ Sound' /\ signal' \in Signal
      <3>1. ~Takes(Top, signal.kind) \/ signal.kind \in {"break", "continue"}
        BY <1>1 DEF Takes, Loops, Functions
      <3>2. signal' \in Signal /\ AimsIn(frames, signal', Depth - 1)
        BY <1>1, <2>2, <3>1, RaisedBelow, AtTopSound, AtTop DEF Functions
      <3> QED BY <1>1, <2>2, <3>2, PopSound
    <2>3. CASE PullEnds
      <3>1. signal.kind \notin {"break", "continue"}
        BY <2>3 DEF PullEnds
      <3> QED BY <2>1, <2>2, <2>3, <3>1 DEF PullEnds
    <2>4. CASE PullNext
      BY <2>1, <2>4 DEF PullNext
    <2>5. CASE LeaveStream
      BY <2>2, <2>5 DEF LeaveStream
    <2> QED BY <2>3, <2>4, <2>5
  <1> QED BY <1>1, <1>2, <1>3, TypesStay DEF TypeOK

(* ... and of tries: what is put off is for a frame around the try.        *)
LEMMA TrySound ==
  ASSUME TypeOK, Sound, LeaveTryBody \/ LeaveCatch
  PROVE  TypeOK' /\ Sound'
  <1>1. /\ frames # << >> /\ Top.kind = "try" /\ Top \in Frame /\ Quiet \in Signal
        /\ signal \in Signal /\ Depth \in 0..MaxDepth
        /\ UNCHANGED <<yieldCollectors, phase, disturbed, ops>> /\ signal' = Quiet
    BY AtTop, AtTopSound DEF LeaveTryBody, LeaveCatch, TopIs, ToFinally
  <1>2. /\ scopes' \in Seq(0..MaxDepth) /\ scopes' # << >>
        /\ handleScopes' \in Nat /\ handles' \subseteq Handle
    BY <1>1, ScopeTypes DEF LeaveTryBody, LeaveCatch
  <1>3. frames' \in Seq(Frame) /\ Depth' <= MaxDepth /\ Sound'
    <2>1. CASE SetTop([Top EXCEPT !.at = "catch"])
      <3> DEFINE f == [Top EXCEPT !.at = "catch"]
      <3>1. f \in Frame /\ f.kind = Top.kind /\ f.stream = Top.stream /\ f.at = "catch"
        BY <1>1 DEF Frame
      <3>2. SetTop(f)
        BY <2>1
      <3> HIDE DEF f
      <3> QED BY <1>1, <3>1, <3>2, SetTopSound
    <2>2. CASE ToFinally(signal)
      <3> DEFINE f == [Top EXCEPT !.at = "finally", !.saved = signal]
      <3>1. /\ f \in Frame /\ f.kind = Top.kind /\ f.stream = Top.stream
            /\ f.at = "finally" /\ f.saved = signal
        BY <1>1 DEF Frame
      <3>2. SetTop(f)
        BY <2>2 DEF ToFinally
      <3>3. signal.kind = "none" \/ ~Takes(Top, signal.kind)
        <4>1. signal.kind \in {"none", "throw", "error"} \cup ControlFlow
          BY <1>1 DEF Signal, ControlFlow
        <4>2. CASE LeaveCatch
          BY <1>1, <4>2 DEF LeaveCatch, Takes, Functions, Loops
        <4>3. CASE LeaveTryBody
          <5>1. Top.at = "body"
            BY <4>3 DEF LeaveTryBody
          <5>2. ~(signal.kind \in {"throw", "error"} /\ Top.catches)
            <6>1. SUFFICES ASSUME signal.kind \in {"throw", "error"} /\ Top.catches
                           PROVE  FALSE
              OBVIOUS
            <6>2. SetTop([Top EXCEPT !.at = "catch"])
              BY <4>3, <6>1 DEF LeaveTryBody
            <6>3. /\ [Top EXCEPT !.at = "catch"].at = "catch"
                  /\ frames'[Depth] = [Top EXCEPT !.at = "catch"]
                  /\ frames'[Depth] = f
              BY <1>1, <3>2, <6>2, AtTop DEF SetTop, Frame
            <6> QED BY <3>1, <6>3
          <5> QED BY <1>1, <4>1, <5>1, <5>2 DEF Takes, Functions, Loops
        <4> QED BY <4>2, <4>3
      <3>4. AimsIn(frames, signal, Depth - 1)
        BY <1>1, <3>3, AtTopSound
      <3> HIDE DEF f
      <3> QED BY <1>1, <3>1, <3>2, <3>4, SetTopSound
    <2> QED BY <2>1, <2>2 DEF LeaveTryBody, LeaveCatch
  <1> QED BY <1>1, <1>2, <1>3, TypesStay DEF TypeOK

LEMMA LeaveFinallySound ==
  ASSUME TypeOK, Sound, LeaveFinally
  PROVE  TypeOK' /\ Sound'
  <1>1. /\ frames # << >> /\ Pop /\ signal' = Top.saved /\ Top.at = "finally"
        /\ UNCHANGED scopeVars /\ UNCHANGED <<yieldCollectors, phase, disturbed, ops>>
    BY DEF LeaveFinally, TopIs
  <1>2. signal' \in Signal /\ AimsIn(frames, signal', Depth - 1)
    BY <1>1, AtTopSound, AtTop DEF FrameOK
  <1>3. frames' \in Seq(Frame) /\ Depth' <= MaxDepth /\ Sound'
    BY <1>1, <1>2, PopSound
  <1> QED BY <1>1, <1>2, <1>3, TypesStay DEF TypeOK, scopeVars

(* A panic ends the frames of a function, a yield counts in its own.       *)
LEMMA PanicSound ==
  ASSUME TypeOK, Sound, Panic
  PROVE  TypeOK' /\ Sound'
  <1>1. /\ signal = Quiet /\ signal' = Quiet /\ frames' = SubSeq(frames, 1, Here - 1)
        /\ Here # None /\ PopScope /\ UNCHANGED <<yieldCollectors, phase>>
        /\ ops < MaxOps /\ ops' = ops + 1
    BY DEF Panic, Executes
  <1>2. Here - 1 \in 0..Depth /\ Here \in Nat
    BY <1>1, HereIs, AtTop DEF None
  <1>3. signal' \in Signal /\ AimsIn(frames, signal', Here - 1)
    BY <1>1, AtTop DEF AimsIn, Quiet
  <1>4. frames' \in Seq(Frame) /\ Depth' <= MaxDepth /\ Sound'
    BY <1>1, <1>2, <1>3, CutSound
  <1>5. disturbed' \in BOOLEAN
    BY DEF Panic, TypeOK
  <1>6. /\ scopes' \in Seq(0..MaxDepth) /\ scopes' # << >>
        /\ handleScopes' \in Nat /\ handles' \subseteq Handle
    BY <1>1, ScopeTypes
  <1> QED BY <1>1, <1>3, <1>4, <1>5, <1>6, TypesStay DEF TypeOK

LEMMA YieldCounts ==
  ASSUME TypeOK, OpYield
  PROVE  /\ signal = Quiet /\ Here \in DOMAIN frames /\ frames[Here].kind = "generator"
         /\ frames' \in Seq(Frame) /\ Depth' = Depth /\ DOMAIN frames' = DOMAIN frames
         /\ \A i \in DOMAIN frames : /\ Like(frames[i], frames'[i])
                                     /\ i # Here => frames'[i] = frames[i]
         /\ frames'[Here].count = frames[Here].count + 1
  <1> DEFINE f == [frames[Here] EXCEPT !.count = @ + 1]
  <1>1. /\ signal = Quiet /\ Here # None /\ frames[Here].kind = "generator"
        /\ frames' = [frames EXCEPT ![Here] = f]
    BY DEF OpYield, Executes
  <1>2. Here \in DOMAIN frames /\ frames \in Seq(Frame) /\ frames[Here] \in Frame
    BY <1>1, HereIs, AtTop DEF None
  <1>3. f \in Frame /\ Like(frames[Here], f) /\ f.count = frames[Here].count + 1
    BY <1>2 DEF Frame, Like
  <1> HIDE DEF f
  <1>4. /\ frames' \in Seq(Frame) /\ Len(frames') = Len(frames) /\ DOMAIN frames' = DOMAIN frames
        /\ \A j \in DOMAIN frames : frames'[j] = IF j = Here THEN f ELSE frames[j]
    BY <1>1, <1>2, <1>3, Replaced
  <1>5. Depth' = Depth
    BY <1>4 DEF Depth
  <1>6. \A i \in DOMAIN frames : Like(frames[i], frames'[i])
    BY <1>3, <1>4 DEF Like
  <1> QED BY <1>1, <1>2, <1>3, <1>4, <1>5, <1>6

LEMMA OpYieldSound ==
  ASSUME TypeOK, Sound, OpYield
  PROVE  TypeOK' /\ Sound'
  <1>1. /\ signal = Quiet /\ frames' \in Seq(Frame) /\ Depth' = Depth
        /\ DOMAIN frames' = DOMAIN frames
        /\ \A i \in DOMAIN frames : Like(frames[i], frames'[i])
    BY YieldCounts
  <1>2. /\ UNCHANGED <<signal, scopeVars, phase, disturbed>> /\ ops < MaxOps /\ ops' = ops + 1
    BY DEF OpYield, Executes
  <1>3. DOMAIN frames = 1..Depth /\ Depth \in Nat
    BY AtTop
  <1>4. Sound'
    <2>1. \A i \in DOMAIN frames' : i \in DOMAIN frames /\ \A j \in 1..i : Like(frames[j], frames'[j])
      BY <1>1, <1>3
    <2>2. AimsIn(frames', signal', Len(frames'))
      BY <1>1, <1>2 DEF AimsIn, Quiet
    <2> QED BY <1>1, <2>1, <2>2, SoundMove
  <1>5. yieldCollectors' \in Seq([of : Positions, holds : Nat])
    <2> DEFINE n == Len(yieldCollectors)
               c == [yieldCollectors[n] EXCEPT !.holds = @ + 1]
    <2>1. yieldCollectors \in Seq([of : Positions, holds : Nat])
      BY DEF TypeOK
    <2>2. yieldCollectors' = [yieldCollectors EXCEPT ![n] = c]
      BY DEF OpYield
    <2>3. CASE yieldCollectors = << >>
      <3> HIDE DEF n, c
      <3>1. DOMAIN yieldCollectors' = 1..0
        BY <2>2, <2>3
      <3>2. yieldCollectors' = [i \in 1..0 |-> yieldCollectors'[i]]
        BY <2>2, <3>1
      <3> QED BY <3>2
    <2>4. CASE yieldCollectors # << >>
      <3> HIDE DEF n
      <3>1. n \in DOMAIN yieldCollectors /\ yieldCollectors[n] \in [of : Positions, holds : Nat]
        BY <2>1, <2>4, LastOf DEF n
      <3>2. c \in [of : Positions, holds : Nat]
        BY <3>1
      <3> HIDE DEF c
      <3> QED BY <2>1, <2>2, <3>1, <3>2, Replaced
    <2> QED BY <2>3, <2>4
  <1> QED BY <1>1, <1>2, <1>3, <1>4, <1>5, AtTop, TypesStay DEF TypeOK, scopeVars

(* The invariant but for the scopes, collectors and streams.               *)
LEMMA StaysSound ==
  ASSUME TypeOK, Sound, [Next]_vars
  PROVE  TypeOK' /\ Sound'
  <1>1. CASE UNCHANGED vars
    <2>1. TypeOK'
      BY <1>1 DEF TypeOK, vars, Depth
    <2>2. Sound'
      BY <1>1 DEF Sound, vars, Depth
    <2> QED BY <2>1, <2>2
  <1>2. CASE Next
    BY <1>2, StillSound, EnterSound, CallSound, LeaveFuncSound, GuestEndsSound, LeaveLoopSound,
       IterateSound, StreamSound, TrySound, LeaveFinallySound, PanicSound, OpYieldSound DEF Next
  <1> QED BY <1>1, <1>2

----------------------------------------------------------------------------
(* Scopes, collectors and streams                                          *)

(* A sequence that increases, with a mark more at its end or one less.     *)
LEMMA MarkPushed ==
  ASSUME NEW s \in Seq(Nat), Increasing(s), NEW e \in Nat, \A p \in Range(s) : p < e,
         NEW t, t = Append(s, e)
  PROVE  Increasing(t) /\ Range(t) = Range(s) \cup {e}
  <1>1. /\ DOMAIN t = 1..Len(s) + 1 /\ DOMAIN s = 1..Len(s) /\ Len(s) \in Nat
        /\ \A j \in DOMAIN s : t[j] = s[j]
        /\ t[Len(s) + 1] = e
    BY Appended
  <1>2. \A i \in DOMAIN s : s[i] < e
    BY DEF Range
  <1>3. Increasing(t)
    <2>1. SUFFICES ASSUME NEW i \in DOMAIN t, NEW j \in DOMAIN t, i < j PROVE t[i] < t[j]
      BY DEF Increasing
    <2>2. CASE j = Len(s) + 1
      BY <1>1, <1>2, <2>1, <2>2
    <2>3. CASE j # Len(s) + 1
      BY <1>1, <2>1, <2>3 DEF Increasing
    <2> QED BY <2>2, <2>3
  <1>4. Range(t) = Range(s) \cup {e}
    <2>1. ASSUME NEW p \in Range(t) PROVE p \in Range(s) \cup {e}
      BY <1>1 DEF Range
    <2>2. ASSUME NEW p \in Range(s) \cup {e} PROVE p \in Range(t)
      BY <1>1 DEF Range
    <2> QED BY <2>1, <2>2
  <1> QED BY <1>3, <1>4

LEMMA MarkPopped ==
  ASSUME NEW s \in Seq(Nat), Increasing(s), NEW e \in Range(s), \A p \in Range(s) : p <= e
  PROVE  /\ s # << >> /\ s[Len(s)] = e /\ Last(s) = e
         /\ Increasing(Front(s)) /\ Range(Front(s)) = Range(s) \ {e}
  <1>1. PICK i \in DOMAIN s : s[i] = e
    BY DEF Range
  <1>2. s # << >> /\ DOMAIN s = 1..Len(s) /\ Len(s) \in Nat
    BY <1>1
  <1>3. Len(s) \in DOMAIN s /\ s[Len(s)] <= e /\ s[Len(s)] \in Nat /\ e \in Nat
    BY <1>1, <1>2 DEF Range
  <1>4. i = Len(s)
    BY <1>1, <1>2, <1>3 DEF Increasing
  <1>5. Last(s) = e
    BY <1>1, <1>2, <1>4, LastOf
  <1> DEFINE t == Front(s)
  <1> HIDE DEF t
  <1>6. /\ DOMAIN t = 1..Len(s) - 1 /\ \A j \in DOMAIN t : j \in DOMAIN s /\ t[j] = s[j]
    BY <1>2, Fronted DEF t
  <1>7. Increasing(t)
    BY <1>6 DEF Increasing
  <1>8. ASSUME NEW p \in Range(t) PROVE p \in Range(s) \ {e}
    <2>1. PICK j \in DOMAIN t : p = s[j] /\ j \in DOMAIN s
      BY <1>6 DEF Range
    <2>2. s[j] < s[Len(s)]
      BY <1>2, <1>3, <1>6, <2>1 DEF Increasing
    <2>3. s[j] # e
      BY <1>1, <1>3, <1>4, <2>1, <2>2
    <2> QED BY <2>1, <2>3 DEF Range
  <1>9. ASSUME NEW p \in Range(s) \ {e} PROVE p \in Range(t)
    <2>1. PICK j \in DOMAIN s : p = s[j]
      BY DEF Range
    <2>2. j # Len(s)
      BY <1>1, <1>4, <2>1
    <2>3. j \in DOMAIN t
      BY <1>2, <1>6, <2>2
    <2> QED BY <1>6, <2>1, <2>3 DEF Range
  <1> QED BY <1>1, <1>2, <1>4, <1>5, <1>7, <1>8, <1>9 DEF t

(* What holds of the scopes while they nest.                               *)
LEMMA ScopesAre ==
  ASSUME TypeOK, ScopesNest
  PROVE  /\ scopes \in Seq(Nat) /\ Len(scopes) \in Nat /\ Len(scopes) >= 1
         /\ DOMAIN scopes = 1..Len(scopes) /\ \A k \in DOMAIN scopes : scopes[k] \in Nat
         /\ scopes # << >> /\ Last(scopes) = scopes[Len(scopes)]
         /\ Increasing(scopes) /\ Range(scopes) = {None} \cup Scoped
         /\ Scoped \subseteq Positions /\ None = 0 /\ None \notin Positions
         /\ handles \subseteq Handle /\ handleScopes \in Nat /\ handleScopes <= Len(scopes)
  <1>1. /\ scopes \in Seq(0..MaxDepth) /\ handleScopes \in Nat /\ handles \subseteq Handle
        /\ scopes # << >> /\ Increasing(scopes) /\ Range(scopes) = {None} \cup Scoped
        /\ handleScopes <= Len(scopes)
    BY DEF TypeOK, ScopesNest, Scoped
  <1>2. 0..MaxDepth \subseteq Nat /\ None = 0 /\ None \notin Positions
    BY ControlFlowAssumption DEF None, Positions
  <1>3. scopes \in Seq(Nat)
    BY <1>1, <1>2, SeqWider
  <1>4. Scoped \subseteq Positions
    BY AtTop DEF Scoped, Positions
  <1> QED BY <1>1, <1>2, <1>3, <1>4, LastOf

(* The scopes are where they were ...                                      *)
LEMMA ScopesStay ==
  ASSUME ScopesNest, Scoped' = Scoped, scopes' = scopes, handleScopes' = handleScopes,
         handles' \subseteq handles
  PROVE  ScopesNest'
  <1>1. Range(scopes) = {None} \cup Scoped
    BY DEF ScopesNest, Scoped
  <1>2. Range(scopes') = {None} \cup Scoped'
    BY <1>1
  <1>3. Increasing(scopes') /\ handleScopes' <= Len(scopes')
    BY DEF ScopesNest
  <1>4. \A h \in handles' : /\ h.scope <= handleScopes'
                            /\ scopes'[Len(scopes') - handleScopes' + h.scope] = h.owner
    BY DEF ScopesNest
  <1> QED BY <1>2, <1>3, <1>4 DEF ScopesNest, Scoped

(* ... there is one more, around the frames to come ...                    *)
LEMMA ScopesPushed ==
  ASSUME TypeOK, ScopesNest, NEW o \in Positions, \A p \in Scoped : p < o,
         Scoped' = Scoped \cup {o}, PushScope(o)
  PROVE  ScopesNest'
  <1>1. /\ scopes \in Seq(Nat) /\ Len(scopes) \in Nat /\ handleScopes \in Nat
        /\ handles \subseteq Handle /\ Increasing(scopes) /\ handleScopes <= Len(scopes)
        /\ Range(scopes) = {None} \cup Scoped
    BY ScopesAre
  <1>2. o \in Nat /\ o # None /\ \A p \in Range(scopes) : p < o
    BY <1>1, ScopesAre DEF Positions
  <1>3. /\ scopes' = Append(scopes, o) /\ handleScopes' = handleScopes + 1 /\ handles' = handles
    BY DEF PushScope
  <1>4. Increasing(scopes') /\ Range(scopes') = {None} \cup Scoped'
    <2>1. Increasing(scopes') /\ Range(scopes') = Range(scopes) \cup {o}
      BY <1>1, <1>2, <1>3, MarkPushed
    <2> QED BY <1>1, <2>1
  <1>5. Len(scopes') = Len(scopes) + 1 /\ Len(scopes) \in Nat
        /\ \A j \in 1..Len(scopes) : scopes'[j] = scopes[j]
    BY <1>1, <1>2, <1>3, Appended
  <1>6. ASSUME NEW h \in handles'
        PROVE  /\ h.scope <= handleScopes'
               /\ scopes'[Len(scopes') - handleScopes' + h.scope] = h.owner
    <2>1. /\ h.scope \in Nat /\ h.scope >= 1 /\ h.scope <= handleScopes
          /\ scopes[Len(scopes) - handleScopes + h.scope] = h.owner
      BY <1>1, <1>3 DEF Handle, ScopesNest
    <2>2. /\ Len(scopes') - handleScopes' + h.scope = Len(scopes) - handleScopes + h.scope
          /\ Len(scopes) - handleScopes + h.scope \in 1..Len(scopes)
      BY <1>1, <1>3, <1>5, <2>1
    <2> QED BY <1>1, <1>3, <1>5, <2>1, <2>2
  <1>7. handleScopes' <= Len(scopes')
    BY <1>1, <1>3, <1>5
  <1> QED BY <1>4, <1>6, <1>7 DEF ScopesNest, Scoped

(* ... or one less, the innermost, with what was registered in it ...      *)
LEMMA ScopesPopped ==
  ASSUME TypeOK, ScopesNest, NEW o \in Scoped, \A p \in Scoped : p <= o,
         Scoped' = Scoped \ {o}, PopScope
  PROVE  ScopesNest' /\ \A h \in handles' : h \in handles /\ h.owner < o
  <1>1. /\ scopes \in Seq(Nat) /\ handleScopes \in Nat /\ handles \subseteq Handle
        /\ Increasing(scopes) /\ handleScopes <= Len(scopes)
        /\ Range(scopes) = {None} \cup Scoped
    BY ScopesAre
  <1>2. o \in Range(scopes) /\ o # None /\ \A p \in Range(scopes) : p <= o
    BY <1>1, ScopesAre DEF Positions
  <1>3. /\ scopes # << >> /\ scopes[Len(scopes)] = o /\ Increasing(Front(scopes))
        /\ Range(Front(scopes)) = Range(scopes) \ {o}
    BY <1>1, <1>2, MarkPopped
  <1>4. Len(scopes) \in Nat /\ DOMAIN scopes = 1..Len(scopes)
    BY <1>1
  <1>5. PICK j \in DOMAIN scopes : scopes[j] = None
    BY <1>1 DEF Range
  <1>6. Len(scopes) # 1
    BY <1>2, <1>3, <1>4, <1>5
  <1>7. /\ scopes' = Front(scopes) /\ handles' = {h \in handles : h.scope # handleScopes}
        /\ handleScopes' = IF handleScopes = 0 THEN 0 ELSE handleScopes - 1
    BY <1>6 DEF PopScope
  <1>8. /\ Len(scopes') = Len(scopes) - 1 /\ DOMAIN scopes' = 1..Len(scopes) - 1
        /\ \A k \in DOMAIN scopes' : scopes'[k] = scopes[k]
    BY <1>1, <1>3, <1>7, Fronted
  <1>9. Increasing(scopes') /\ Range(scopes') = {None} \cup Scoped'
    BY <1>1, <1>2, <1>3, <1>7
  <1>10. ASSUME NEW h \in handles'
         PROVE  /\ h.scope <= handleScopes' /\ h \in handles /\ h.owner < o
                /\ scopes'[Len(scopes') - handleScopes' + h.scope] = h.owner
    <2>1. /\ h \in handles /\ h.scope \in Nat /\ h.scope >= 1 /\ h.scope < handleScopes
          /\ scopes[Len(scopes) - handleScopes + h.scope] = h.owner
      BY <1>1, <1>7 DEF Handle, ScopesNest
    <2>2. handleScopes' = handleScopes - 1 /\ Len(scopes') = Len(scopes) - 1
      BY <1>1, <1>7, <1>8, <2>1
    <2> DEFINE k == Len(scopes) - handleScopes + h.scope
    <2>a. \A m, a, c \in Nat : a <= m /\ 1 <= c /\ c < a =>
            /\ m - a + c \in 1..(m - 1) /\ (m - 1) - (a - 1) + c = m - a + c
            /\ m - a + c < m
      OBVIOUS
    <2>b. Len(scopes) \in Nat /\ handleScopes \in Nat /\ h.scope \in Nat
          /\ handleScopes <= Len(scopes) /\ 1 <= h.scope /\ h.scope < handleScopes
      BY <1>1, <1>4, <2>1
    <2>3. /\ k \in 1..(Len(scopes) - 1) /\ k < Len(scopes)
          /\ Len(scopes') - handleScopes' + h.scope = k
      BY <2>a, <2>b, <2>2
    <2> HIDE DEF k
    <2>4. scopes[k] = h.owner
      BY <2>1 DEF k
    <2>c. k \in DOMAIN scopes /\ Len(scopes) \in DOMAIN scopes /\ k \in DOMAIN scopes'
      BY <1>4, <1>8, <2>3
    <2>5. scopes'[k] = h.owner /\ scopes[k] < scopes[Len(scopes)]
      BY <1>1, <1>8, <2>4, <2>3, <2>c DEF Increasing
    <2> QED BY <1>1, <1>3, <2>1, <2>2, <2>4, <2>3, <2>5, SMTT(30)
  <1>11. handleScopes' <= Len(scopes')
    BY <1>1, <1>4, <1>6, <1>7, <1>8
  <1> QED BY <1>9, <1>10, <1>11 DEF ScopesNest, Scoped

(* ... and what is registered belongs to the innermost.                    *)
LEMMA ScopesRegistered ==
  ASSUME TypeOK, ScopesNest, NEW s, Register(s), Scoped' = Scoped
  PROVE  /\ ScopesNest' /\ Last(scopes) \in Nat /\ \A p \in Scoped : p <= Last(scopes)
         /\ Last(scopes) = None \/ Last(scopes) \in Scoped
         /\ \A h \in handles' : h \in handles \/ (h.owner = Last(scopes) /\ h.stream = s)
  <1>1. /\ scopes \in Seq(Nat) /\ handleScopes \in Nat /\ handles \subseteq Handle
        /\ Increasing(scopes) /\ handleScopes <= Len(scopes)
        /\ Range(scopes) = {None} \cup Scoped
    BY ScopesAre
  <1>2. /\ Len(scopes) \in Nat /\ DOMAIN scopes = 1..Len(scopes) /\ Len(scopes) >= 1
        /\ Last(scopes) = scopes[Len(scopes)] /\ \A k \in DOMAIN scopes : scopes[k] \in Nat
    BY ScopesAre
  <1>3. /\ scopes' = scopes /\ handleScopes' = CurrentScope
        /\ handles' = handles \cup {[scope |-> CurrentScope, owner |-> Last(scopes),
                                     stream |-> s]}
    BY DEF Register
  <1>4. \A p \in Scoped : p <= Last(scopes)
    <2>1. SUFFICES ASSUME NEW p \in Scoped PROVE p <= Last(scopes)
      OBVIOUS
    <2>2. PICK j \in DOMAIN scopes : scopes[j] = p
      BY <1>1 DEF Range
    <2> QED BY <1>1, <1>2, <2>2 DEF Increasing
  <1>5. Last(scopes) \in Range(scopes)
    BY <1>2 DEF Range
  <1>6. ASSUME NEW h \in handles'
        PROVE  /\ h.scope <= handleScopes'
               /\ scopes'[Len(scopes') - handleScopes' + h.scope] = h.owner
               /\ h \in handles \/ (h.owner = Last(scopes) /\ h.stream = s)
    <2>1. CASE h \in handles
      <3>1. /\ h.scope \in Nat /\ h.scope >= 1 /\ h.scope <= handleScopes
            /\ scopes[Len(scopes) - handleScopes + h.scope] = h.owner
        BY <1>1, <2>1 DEF Handle, ScopesNest
      <3>2. CurrentScope = handleScopes
        BY <1>1, <3>1 DEF CurrentScope
      <3> QED BY <1>3, <2>1, <3>1, <3>2
    <2>2. CASE h \notin handles
      <3>1. h = [scope |-> CurrentScope, owner |-> Last(scopes), stream |-> s]
        BY <1>3, <2>2
      <3>2. /\ h.scope = CurrentScope /\ h.owner = Last(scopes) /\ h.stream = s
            /\ CurrentScope \in Nat
        BY <1>1, <3>1 DEF CurrentScope
      <3>3. Len(scopes') - handleScopes' + h.scope = Len(scopes)
        BY <1>2, <1>3, <3>2
      <3> QED BY <1>2, <1>3, <3>2, <3>3
    <2> QED BY <2>1, <2>2
  <1>7. handleScopes' <= Len(scopes')
    BY <1>1, <1>2, <1>3 DEF CurrentScope
  <1>8. ScopesNest'
    <2>1. Increasing(scopes') /\ Range(scopes') = {None} \cup Scoped'
      BY <1>1, <1>3
    <2> QED BY <1>6, <1>7, <2>1 DEF ScopesNest, Scoped
  <1> QED BY <1>1, <1>2, <1>4, <1>5, <1>6, <1>8

(* Each generator counts what its collector holds ...                      *)
LEMMA CollectorsAre ==
  ASSUME TypeOK
  PROVE  /\ yieldCollectors \in Seq([of : Positions, holds : Nat])
         /\ Collecting \in Seq(Nat) /\ Len(Collecting) = Len(yieldCollectors)
         /\ DOMAIN Collecting = DOMAIN yieldCollectors
         /\ DOMAIN yieldCollectors = 1..Len(yieldCollectors) /\ Len(yieldCollectors) \in Nat
         /\ \A c \in DOMAIN yieldCollectors : /\ Collecting[c] = yieldCollectors[c].of
                                              /\ Collecting[c] \in Positions
  <1>1. yieldCollectors \in Seq([of : Positions, holds : Nat])
    BY DEF TypeOK
  <1>2. /\ DOMAIN yieldCollectors = 1..Len(yieldCollectors) /\ Len(yieldCollectors) \in Nat
        /\ \A c \in DOMAIN yieldCollectors : yieldCollectors[c] \in [of : Positions, holds : Nat]
    BY <1>1, SeqIs
  <1>3. Collecting = [c \in 1..Len(yieldCollectors) |-> yieldCollectors[c].of]
    BY <1>2 DEF Collecting
  <1>4. \A c \in 1..Len(yieldCollectors) : /\ yieldCollectors[c].of \in Positions
                                           /\ yieldCollectors[c].of \in Nat
    BY <1>2 DEF Positions
  <1>5. Collecting \in Seq(Nat) /\ Len(Collecting) = Len(yieldCollectors)
    BY <1>2, <1>3, <1>4
  <1> QED BY <1>1, <1>2, <1>3, <1>4, <1>5

LEMMA CollectorsStay ==
  ASSUME CollectorsNest, yieldCollectors' = yieldCollectors, Generating' = Generating,
         \A i \in Generating : frames'[i].count = frames[i].count
  PROVE  CollectorsNest'
  <1>1. Collecting' = Collecting
    BY DEF Collecting
  <1>2. Increasing(Collecting) /\ Range(Collecting) = Generating
    BY DEF CollectorsNest, Generating
  <1>3. \A c \in DOMAIN yieldCollectors : yieldCollectors[c].of \in Generating
    BY <1>2 DEF Range, Collecting
  <1>4. Increasing(Collecting') /\ Range(Collecting') = Generating'
    BY <1>1, <1>2
  <1>5. \A c \in DOMAIN yieldCollectors' :
          yieldCollectors'[c].holds = frames'[yieldCollectors'[c].of].count
    BY <1>3 DEF CollectorsNest
  <1> QED BY <1>4, <1>5 DEF CollectorsNest, Generating

(* ... a new one nothing yet ...                                           *)
LEMMA CollectorsPushed ==
  ASSUME TypeOK, CollectorsNest, NEW o \in Positions, \A p \in Generating : p < o,
         Generating' = Generating \cup {o}, frames'[o].count = 0,
         \A i \in Generating : frames'[i].count = frames[i].count,
         yieldCollectors' = Append(yieldCollectors, [of |-> o, holds |-> 0])
  PROVE  CollectorsNest'
  <1> DEFINE n == Len(yieldCollectors)
             x == [of |-> o, holds |-> 0]
  <1>1. x \in [of : Positions, holds : Nat] /\ x.of = o /\ x.holds = 0
    OBVIOUS
  <1>2. /\ yieldCollectors \in Seq([of : Positions, holds : Nat])
        /\ Increasing(Collecting) /\ Range(Collecting) = Generating
    BY CollectorsAre DEF CollectorsNest, Generating
  <1> HIDE DEF x
  <1>3. /\ DOMAIN yieldCollectors' = 1..n + 1 /\ DOMAIN yieldCollectors = 1..n /\ n \in Nat
        /\ \A c \in DOMAIN yieldCollectors : yieldCollectors'[c] = yieldCollectors[c]
        /\ yieldCollectors'[n + 1] = x
    BY <1>1, <1>2, Appended DEF x
  <1>4. Collecting' = Append(Collecting, o)
    <2>1. /\ Collecting \in Seq(Nat) /\ Len(Collecting) = n /\ DOMAIN Collecting = 1..n
          /\ \A c \in 1..n : Collecting[c] = yieldCollectors[c].of
      BY <1>3, CollectorsAre
    <2> DEFINE t == Append(Collecting, o)
    <2> HIDE DEF n, t
    <2>2. /\ t \in Seq(Nat) /\ Len(t) = n + 1 /\ DOMAIN t = 1..n + 1
          /\ \A c \in 1..n : t[c] = Collecting[c]
          /\ t[n + 1] = o
      BY <2>1, Appended DEF t, Positions
    <2>3. Collecting' = [c \in 1..n + 1 |-> yieldCollectors'[c].of]
      BY <1>3 DEF Collecting
    <2>4. \A c \in 1..n + 1 : yieldCollectors'[c].of = t[c]
      BY <1>1, <1>3, <2>1, <2>2
    <2>5. t = [c \in 1..n + 1 |-> t[c]]
      BY <2>2, SeqIs
    <2> QED BY <2>3, <2>4, <2>5 DEF t
  <1>5. Increasing(Collecting') /\ Range(Collecting') = Generating'
    <2>1. Collecting \in Seq(Nat) /\ o \in Nat
      BY CollectorsAre DEF Positions
    <2>2. Increasing(Collecting') /\ Range(Collecting') = Range(Collecting) \cup {o}
      BY <1>2, <1>4, <2>1, MarkPushed
    <2> QED BY <1>2, <2>2
  <1>6. ASSUME NEW c \in DOMAIN yieldCollectors'
        PROVE  yieldCollectors'[c].holds = frames'[yieldCollectors'[c].of].count
    <2>1. CASE c = n + 1
      BY <1>1, <1>3, <2>1
    <2>2. CASE c # n + 1
      <3>1. c \in DOMAIN yieldCollectors /\ yieldCollectors'[c] = yieldCollectors[c]
        BY <1>3, <2>2
      <3>2. yieldCollectors[c].of \in Generating
        BY <1>2, <3>1, CollectorsAre DEF Range
      <3> QED BY <3>1, <3>2 DEF CollectorsNest
    <2> QED BY <2>1, <2>2
  <1> QED BY <1>5, <1>6 DEF CollectorsNest, Generating

(* ... and the innermost goes with its generator.                          *)
LEMMA CollectorsPopped ==
  ASSUME TypeOK, CollectorsNest, NEW o \in Generating, \A p \in Generating : p <= o,
         Generating' = Generating \ {o},
         \A i \in Generating' : frames'[i].count = frames[i].count,
         yieldCollectors' = Front(yieldCollectors)
  PROVE  CollectorsNest'
  <1> DEFINE n == Len(yieldCollectors)
  <1>1. /\ yieldCollectors \in Seq([of : Positions, holds : Nat]) /\ Collecting \in Seq(Nat)
        /\ Increasing(Collecting) /\ Range(Collecting) = Generating
        /\ Len(Collecting) = n
    BY CollectorsAre DEF CollectorsNest, Generating
  <1>2. /\ Collecting # << >> /\ Increasing(Front(Collecting))
        /\ Range(Front(Collecting)) = Range(Collecting) \ {o}
    BY <1>1, MarkPopped
  <1>3. yieldCollectors # << >>
    BY <1>1, <1>2
  <1>4. /\ DOMAIN yieldCollectors' = 1..n - 1 /\ DOMAIN yieldCollectors = 1..n
        /\ \A c \in 1..n - 1 : yieldCollectors'[c] = yieldCollectors[c] /\ c \in 1..n
    <2> HIDE DEF n
    <2> DEFINE t == yieldCollectors'
    <2>1. t = Front(yieldCollectors) /\ Len(yieldCollectors) = n
      BY DEF n
    <2> HIDE DEF t
    <2>2. /\ DOMAIN t = 1..n - 1 /\ DOMAIN yieldCollectors = 1..n
          /\ \A c \in DOMAIN t : c \in DOMAIN yieldCollectors /\ t[c] = yieldCollectors[c]
      BY <1>1, <1>3, <2>1, Fronted, SMTT(30)
    <2> QED BY <2>2 DEF t
  <1>5. Collecting' = Front(Collecting)
    <2>1. Collecting' = [c \in 1..n - 1 |-> yieldCollectors'[c].of]
      BY <1>4 DEF Collecting
    <2> DEFINE t == Front(Collecting)
    <2> HIDE DEF t
    <2>2. /\ t \in Seq(Nat) /\ Len(t) = n - 1 /\ DOMAIN t = 1..n - 1
          /\ \A c \in DOMAIN t : t[c] = Collecting[c]
      BY <1>1, <1>2, Fronted DEF t
    <2>3. \A c \in 1..n - 1 : Collecting[c] = yieldCollectors'[c].of
      BY <1>4, CollectorsAre
    <2>4. t = [c \in 1..n - 1 |-> t[c]]
      BY <2>2
    <2> QED BY <2>1, <2>2, <2>3, <2>4 DEF t
  <1>6. Increasing(Collecting') /\ Range(Collecting') = Generating'
    BY <1>1, <1>2, <1>5
  <1>7. ASSUME NEW c \in DOMAIN yieldCollectors'
        PROVE  yieldCollectors'[c].holds = frames'[yieldCollectors'[c].of].count
    <2>1. c \in DOMAIN yieldCollectors /\ yieldCollectors'[c] = yieldCollectors[c]
      BY <1>4
    <2>2. c \in DOMAIN Collecting' /\ Collecting'[c] = yieldCollectors'[c].of
      BY DEF Collecting
    <2>3. yieldCollectors'[c].of \in Generating'
      BY <1>6, <2>2 DEF Range
    <2> QED BY <2>1, <2>3 DEF CollectorsNest
  <1> QED BY <1>6, <1>7 DEF CollectorsNest, Generating

(* A value more in the last collector is one more yield of its generator.  *)
LEMMA CollectorsCount ==
  ASSUME TypeOK, CollectorsNest, OpYield
  PROVE  CollectorsNest'
  <1> DEFINE n == Len(yieldCollectors)
             x == [yieldCollectors[n] EXCEPT !.holds = @ + 1]
  <1>1. /\ yieldCollectors \in Seq([of : Positions, holds : Nat]) /\ Collecting \in Seq(Nat)
        /\ Increasing(Collecting) /\ Range(Collecting) = Generating
        /\ Len(Collecting) = n
    BY CollectorsAre DEF CollectorsNest, Generating
  <1>2. /\ Here \in Generating /\ Generating' = Generating
        /\ \A i \in Generating : i # Here => frames'[i] = frames[i]
        /\ frames'[Here].count = frames[Here].count + 1
    BY YieldCounts DEF Generating, Like
  <1>3. \A p \in Generating : p <= Here
    <2>1. SUFFICES ASSUME NEW p \in Generating, ~(p <= Here) PROVE FALSE
      OBVIOUS
    <2>2. p \in Here+1..Depth /\ frames[p].kind \in Functions
      BY <2>1, HereIs, AtTop DEF Generating, Functions
    <2> QED BY <2>2, HereIs
  <1>4. Collecting # << >> /\ Collecting[n] = Here
    BY <1>1, <1>2, <1>3, MarkPopped
  <1>5. /\ n \in DOMAIN yieldCollectors /\ yieldCollectors[n].of = Here
        /\ yieldCollectors[n] \in [of : Positions, holds : Nat]
    <2>1. yieldCollectors # << >>
      BY <1>1, <1>4
    <2>2. n \in DOMAIN yieldCollectors /\ yieldCollectors[n] \in [of : Positions, holds : Nat]
      BY <1>1, <2>1, LastOf
    <2> QED BY <1>4, <2>2, CollectorsAre
  <1>6. /\ x \in [of : Positions, holds : Nat] /\ x.of = Here
        /\ x.holds = yieldCollectors[n].holds + 1
    BY <1>5
  <1>7. yieldCollectors' = [yieldCollectors EXCEPT ![n] = x]
    BY DEF OpYield
  <1> HIDE DEF x, n
  <1>8. /\ DOMAIN yieldCollectors' = DOMAIN yieldCollectors
        /\ \A c \in DOMAIN yieldCollectors :
             yieldCollectors'[c] = IF c = n THEN x ELSE yieldCollectors[c]
    BY <1>1, <1>5, <1>6, <1>7, Replaced
  <1>9. Collecting' = Collecting
    <2>1. \A c \in DOMAIN yieldCollectors : yieldCollectors'[c].of = yieldCollectors[c].of
      BY <1>5, <1>6, <1>8
    <2> QED BY <1>8, <2>1 DEF Collecting
  <1>10. ASSUME NEW c \in DOMAIN yieldCollectors'
         PROVE  yieldCollectors'[c].holds = frames'[yieldCollectors'[c].of].count
    <2>1. /\ c \in DOMAIN yieldCollectors /\ n \in DOMAIN yieldCollectors
          /\ yieldCollectors[c].holds = frames[yieldCollectors[c].of].count
          /\ yieldCollectors[n].holds = frames[yieldCollectors[n].of].count
      BY <1>5, <1>8 DEF CollectorsNest
    <2>2. CASE c = n
      BY <1>2, <1>5, <1>6, <1>8, <2>1, <2>2
    <2>3. CASE c # n
      <3>1. /\ yieldCollectors'[c] = yieldCollectors[c]
            /\ Collecting[c] = yieldCollectors[c].of /\ Collecting[n] = yieldCollectors[n].of
            /\ c \in DOMAIN Collecting /\ n \in DOMAIN Collecting /\ c \in Nat /\ n \in Nat
            /\ Collecting[c] \in Nat /\ Collecting[n] \in Nat
        BY <1>8, <2>1, <2>3, CollectorsAre, SMTT(30) DEF Positions
      <3>2. Collecting[c] # Collecting[n]
        BY <1>1, <2>3, <3>1, SMTT(30) DEF Increasing
      <3>3. yieldCollectors[c].of \in Generating /\ yieldCollectors[c].of # Here
        BY <1>1, <1>5, <3>1, <3>2 DEF Range
      <3> QED BY <1>2, <2>1, <3>1, <3>3
    <2> QED BY <2>2, <2>3
  <1>11. Increasing(Collecting') /\ Range(Collecting') = Generating'
    BY <1>1, <1>2, <1>9
  <1> QED BY <1>10, <1>11 DEF CollectorsNest, Generating

(* A stream that stays open stays within its scope.                        *)
LEMMA StreamsMove ==
  ASSUME TypeOK, StreamsNest,
         \A h \in handles' : h.stream \in Positions =>
           /\ h \in handles /\ h.stream \in DOMAIN frames' /\ frames'[h.stream].stream = h.stream
           /\ \A k \in Scoped' : k \in Scoped \/ k <= h.owner \/ k > h.stream
  PROVE  StreamsNest'
  <1>1. SUFFICES ASSUME NEW h \in handles', h.stream \in Positions
                 PROVE  /\ h.stream \in DOMAIN frames' /\ frames'[h.stream].stream = h.stream
                        /\ h.owner < h.stream
                        /\ \A k \in h.owner+1..h.stream : k \notin Scoped'
    BY DEF StreamsNest
  <1>2. /\ h \in handles /\ h.owner < h.stream /\ h.owner \in Nat /\ h.stream \in Nat
        /\ \A k \in h.owner+1..h.stream : k \notin Scoped
    BY <1>1, ControlFlowAssumption DEF StreamsNest, TypeOK, Handle, Positions
  <1>3. ASSUME NEW k \in h.owner+1..h.stream, k \in Scoped'
        PROVE  FALSE
    BY <1>1, <1>2, <1>3
  <1> QED BY <1>1, <1>2, <1>3

----------------------------------------------------------------------------
(* Every step keeps them nested                                            *)

(* The frames with scopes, and the generators, after a step.               *)
LEMMA Pushed ==
  ASSUME TypeOK, NEW f \in Frame, Push(f)
  PROVE  /\ Depth \in Nat /\ DOMAIN frames = 1..Depth /\ DOMAIN frames' = 1..Depth + 1
         /\ \A i \in DOMAIN frames : frames'[i] = frames[i]
         /\ frames'[Depth + 1] = f
         /\ Scoped' = Scoped \cup (IF f.kind \in Functions \/ f.at = "catch"
                                   THEN {Depth + 1} ELSE {})
         /\ Generating' = Generating \cup (IF f.kind = "generator" THEN {Depth + 1} ELSE {})
         /\ Scoped \subseteq 1..Depth /\ Generating \subseteq 1..Depth
  <1>1. /\ Depth \in Nat /\ DOMAIN frames = 1..Depth /\ DOMAIN frames' = 1..Depth + 1
        /\ \A i \in DOMAIN frames : frames'[i] = frames[i]
        /\ frames'[Depth + 1] = f
    BY AtTop, Appended DEF Push, Depth
  <1>2. Scoped' = {i \in 1..Depth + 1 : frames'[i].kind \in Functions \/ frames'[i].at = "catch"}
    BY <1>1 DEF Scoped, HasScope
  <1>3. Scoped = {i \in 1..Depth : frames[i].kind \in Functions \/ frames[i].at = "catch"}
    BY <1>1 DEF Scoped, HasScope
  <1>4. Generating' = {i \in 1..Depth + 1 : frames'[i].kind = "generator"}
    BY <1>1 DEF Generating
  <1>5. Generating = {i \in 1..Depth : frames[i].kind = "generator"}
    BY <1>1 DEF Generating
  <1>6. 1..Depth + 1 = 1..Depth \cup {Depth + 1} /\ Depth + 1 \notin 1..Depth
    BY <1>1
  <1>7. /\ Scoped' = Scoped \cup (IF f.kind \in Functions \/ f.at = "catch"
                                   THEN {Depth + 1} ELSE {})
        /\ Generating' = Generating \cup (IF f.kind = "generator" THEN {Depth + 1} ELSE {})
    BY <1>1, <1>2, <1>3, <1>4, <1>5, <1>6
  <1> QED BY <1>1, <1>3, <1>5, <1>7

LEMMA Cut ==
  ASSUME TypeOK, NEW n \in 0..Depth, frames' = SubSeq(frames, 1, n)
  PROVE  /\ n \in Nat /\ Depth \in Nat /\ DOMAIN frames = 1..Depth /\ DOMAIN frames' = 1..n
         /\ \A i \in 1..n : frames'[i] = frames[i]
         /\ Scoped' = Scoped \cap 1..n /\ Generating' = Generating \cap 1..n
         /\ Scoped \subseteq 1..Depth /\ Generating \subseteq 1..Depth
  <1>1. /\ n \in Nat /\ Depth \in Nat /\ DOMAIN frames = 1..Depth /\ DOMAIN frames' = 1..n
        /\ \A i \in 1..n : frames'[i] = frames[i] /\ i \in 1..Depth
    BY AtTop, CutShort DEF Depth
  <1>2. Scoped' = {i \in 1..n : frames'[i].kind \in Functions \/ frames'[i].at = "catch"}
    BY <1>1 DEF Scoped, HasScope
  <1>3. Scoped = {i \in 1..Depth : frames[i].kind \in Functions \/ frames[i].at = "catch"}
    BY <1>1 DEF Scoped, HasScope
  <1>4. Generating' = {i \in 1..n : frames'[i].kind = "generator"}
    BY <1>1 DEF Generating
  <1>5. Generating = {i \in 1..Depth : frames[i].kind = "generator"}
    BY <1>1 DEF Generating
  <1>6. Scoped' = Scoped \cap 1..n
    BY <1>1, <1>2, <1>3
  <1>7. Generating' = Generating \cap 1..n
    BY <1>1, <1>4, <1>5
  <1> QED BY <1>1, <1>3, <1>5, <1>6, <1>7

LEMMA Popped ==
  ASSUME TypeOK, frames # << >>, Pop
  PROVE  /\ Depth \in Positions /\ Depth \in Nat /\ Depth >= 1 /\ Top = frames[Depth]
         /\ DOMAIN frames = 1..Depth /\ DOMAIN frames' = 1..Depth - 1
         /\ \A i \in 1..Depth - 1 : frames'[i] = frames[i]
         /\ Scoped' = Scoped \ {Depth} /\ Generating' = Generating \ {Depth}
         /\ Scoped \subseteq 1..Depth /\ Generating \subseteq 1..Depth
         /\ Depth \in Scoped <=> Top.kind \in Functions \/ Top.at = "catch"
         /\ Depth \in Generating <=> Top.kind = "generator"
  <1>1. /\ Depth \in Positions /\ Depth \in Nat /\ Depth >= 1 /\ Top = frames[Depth]
        /\ Depth \in DOMAIN frames
    BY AtTop
  <1>2. Depth - 1 \in 0..Depth /\ frames' = SubSeq(frames, 1, Depth - 1)
    BY <1>1 DEF Pop, Front, Depth
  <1>3. /\ DOMAIN frames = 1..Depth /\ DOMAIN frames' = 1..Depth - 1
        /\ \A i \in 1..Depth - 1 : frames'[i] = frames[i]
        /\ Scoped' = Scoped \cap 1..Depth - 1 /\ Generating' = Generating \cap 1..Depth - 1
        /\ Scoped \subseteq 1..Depth /\ Generating \subseteq 1..Depth
    BY <1>2, Cut
  <1>4. 1..Depth - 1 = (1..Depth) \ {Depth}
    BY <1>1
  <1>5. Scoped' = Scoped \ {Depth} /\ Generating' = Generating \ {Depth}
    BY <1>3, <1>4
  <1> QED BY <1>1, <1>3, <1>5 DEF Scoped, Generating, HasScope

LEMMA TopSet ==
  ASSUME TypeOK, frames # << >>, NEW f \in Frame, SetTop(f), f.kind = Top.kind
  PROVE  /\ Depth \in Positions /\ Depth \in Nat /\ Top = frames[Depth]
         /\ DOMAIN frames = 1..Depth /\ DOMAIN frames' = 1..Depth
         /\ \A i \in 1..Depth : frames'[i] = IF i = Depth THEN f ELSE frames[i]
         /\ Generating' = Generating
         /\ Scoped' \ {Depth} = Scoped \ {Depth} /\ Scoped \subseteq 1..Depth
         /\ Depth \in Scoped <=> Top.kind \in Functions \/ Top.at = "catch"
         /\ Depth \in Scoped' <=> f.kind \in Functions \/ f.at = "catch"
  <1>1. /\ Depth \in Positions /\ Depth \in Nat /\ Top = frames[Depth]
        /\ DOMAIN frames = 1..Depth /\ DOMAIN frames' = 1..Depth /\ Depth \in 1..Depth
        /\ \A i \in 1..Depth : frames'[i] = IF i = Depth THEN f ELSE frames[i]
    BY AtTop, Replaced DEF SetTop
  <1>2. Scoped' = {i \in 1..Depth : frames'[i].kind \in Functions \/ frames'[i].at = "catch"}
    BY <1>1 DEF Scoped, HasScope
  <1>3. Scoped = {i \in 1..Depth : frames[i].kind \in Functions \/ frames[i].at = "catch"}
    BY <1>1 DEF Scoped, HasScope
  <1>4. Generating' = {i \in 1..Depth : frames'[i].kind = "generator"}
    BY <1>1 DEF Generating
  <1>5. Generating = {i \in 1..Depth : frames[i].kind = "generator"}
    BY <1>1 DEF Generating
  <1>6. Generating' = Generating
    BY <1>1, <1>4, <1>5
  <1>7. Scoped' \ {Depth} = Scoped \ {Depth}
    BY <1>1, <1>2, <1>3
  <1> QED BY <1>1, <1>2, <1>3, <1>6, <1>7

(* A step that opens and closes no scope, and only streams.                *)
LEMMA NestStays ==
  ASSUME TypeOK, Nest, Scoped' = Scoped, Generating' = Generating,
         \A i \in Generating : frames'[i].count = frames[i].count,
         yieldCollectors' = yieldCollectors,
         UNCHANGED <<scopes, handleScopes>>, handles' \subseteq handles,
         \A h \in handles' : h.stream \in Positions =>
           h.stream \in DOMAIN frames' /\ frames'[h.stream].stream = frames[h.stream].stream
  PROVE  Nest'
  <1>1. ScopesNest' /\ CollectorsNest'
    BY ScopesStay, CollectorsStay DEF Nest
  <1>2. StreamsNest'
    <2>1. \A h \in handles' : h.stream \in Positions =>
           /\ h \in handles /\ h.stream \in DOMAIN frames' /\ frames'[h.stream].stream = h.stream
           /\ \A k \in Scoped' : k \in Scoped \/ k <= h.owner \/ k > h.stream
      BY DEF Nest, StreamsNest
    <2> QED BY <2>1, StreamsMove DEF Nest
  <1> QED BY <1>1, <1>2 DEF Nest

LEMMA StillNest ==
  ASSUME TypeOK, Nest, Fail \/ OpTable \/ StreamCancel
  PROVE  Nest'
  <1>1. /\ frames' = frames /\ yieldCollectors' = yieldCollectors
        /\ Scoped' = Scoped /\ Generating' = Generating
    BY DEF Fail, OpTable, StreamCancel, Scoped, Generating, HasScope
  <1>2. \A h \in handles : h.stream \in Positions =>
          /\ h.stream \in DOMAIN frames /\ frames[h.stream].stream = h.stream
    BY DEF Nest, StreamsNest
  <1>3. CASE Fail \/ StreamCancel
    <2>1. UNCHANGED <<scopes, handleScopes>> /\ handles' \subseteq handles
      BY <1>3 DEF Fail, StreamCancel, ReleaseStream, scopeVars
    <2> QED BY <1>1, <1>2, <2>1, NestStays
  <1>4. CASE OpTable
    <2>1. Register(None) /\ None \notin Positions
      BY <1>4 DEF OpTable, None, Positions
    <2>2. /\ ScopesNest'
          /\ \A h \in handles' : h \in handles \/ h.stream = None
      BY <1>1, <2>1, ScopesRegistered DEF Nest
    <2>3. CollectorsNest'
      BY <1>1, CollectorsStay DEF Nest
    <2>4. StreamsNest'
      BY <1>1, <1>2, <2>1, <2>2, StreamsMove DEF Nest
    <2> QED BY <2>2, <2>3, <2>4 DEF Nest
  <1> QED BY <1>3, <1>4

LEMMA EnterNest ==
  ASSUME TypeOK, Nest, Exec \/ OpLoop \/ OpForeachStream \/ OpTry \/ PullRuns
  PROVE  Nest'
  <1>1. PICK f \in Frame :
          /\ Push(f) /\ f.kind \notin Functions \cup {"run"}
          /\ f.at = "body" \/ (f.at = "pulling" /\ f.kind = "stream")
          /\ f.stream \in Positions => f.kind = "stream" /\ f.stream = Depth + 1
          /\ UNCHANGED scopeVars \/ Register(f.stream)
    BY Entered
  <1>2. /\ Depth \in Nat /\ DOMAIN frames = 1..Depth /\ DOMAIN frames' = 1..Depth + 1
        /\ \A i \in DOMAIN frames : frames'[i] = frames[i]
        /\ frames'[Depth + 1] = f
        /\ Scoped' = Scoped /\ Generating' = Generating
        /\ Scoped \subseteq 1..Depth /\ Generating \subseteq 1..Depth
    BY <1>1, Pushed DEF Functions
  <1>3. yieldCollectors' = yieldCollectors
    BY Entered
  <1>4. \A h \in handles : h.stream \in Positions =>
          /\ h.stream \in DOMAIN frames' /\ frames'[h.stream].stream = h.stream
    BY <1>2 DEF Nest, StreamsNest
  <1>5. CASE UNCHANGED scopeVars
    <2>1. UNCHANGED <<scopes, handleScopes>> /\ handles' \subseteq handles
      BY <1>5 DEF scopeVars
    <2>2. \A h \in handles : h.stream \in Positions => frames[h.stream].stream = h.stream
      BY DEF Nest, StreamsNest
    <2> QED BY <1>2, <1>3, <1>4, <2>1, <2>2, NestStays
  <1>6. CASE Register(f.stream)
    <2>1. /\ ScopesNest' /\ Last(scopes) \in Nat /\ \A p \in Scoped : p <= Last(scopes)
          /\ Last(scopes) = None \/ Last(scopes) \in Scoped
          /\ \A h \in handles' : h \in handles \/ (h.owner = Last(scopes) /\ h.stream = f.stream)
      BY <1>2, <1>6, ScopesRegistered DEF Nest
    <2>2. CollectorsNest'
      BY <1>2, <1>3, CollectorsStay DEF Nest
    <2>3. Last(scopes) < Depth + 1
      BY <1>2, <2>1 DEF None
    <2>4. StreamsNest'
      <3>1. SUFFICES ASSUME NEW h \in handles', h.stream \in Positions
                     PROVE  /\ h.stream \in DOMAIN frames' /\ frames'[h.stream].stream = h.stream
                            /\ h.owner < h.stream
                            /\ \A k \in h.owner+1..h.stream : k \notin Scoped'
        BY DEF StreamsNest
      <3>2. CASE h \in handles
        BY <1>2, <1>4, <3>1, <3>2 DEF Nest, StreamsNest
      <3>3. CASE h \notin handles
        <4>1. h.owner = Last(scopes) /\ h.stream = Depth + 1 /\ f.stream = Depth + 1
          BY <1>1, <2>1, <3>1, <3>3
        <4>2. \A k \in Last(scopes) + 1..Depth + 1 : k \notin Scoped
          BY <2>1, <1>2 DEF Positions
        <4> QED BY <1>2, <2>3, <4>1, <4>2
      <3> QED BY <3>2, <3>3
    <2> QED BY <2>1, <2>2, <2>4 DEF Nest
  <1> QED BY <1>1, <1>5, <1>6

LEMMA CallNest ==
  ASSUME TypeOK, Nest, HandleCall \/ SpawnFuncDef
  PROVE  Nest'
  <1>1. PICK kind \in Functions :
          /\ Push(Fresh(kind)) /\ PushScope(Depth + 1) /\ Depth < MaxDepth
          /\ yieldCollectors' = IF kind = "func" THEN yieldCollectors
               ELSE Append(yieldCollectors, [of |-> Depth + 1, holds |-> 0])
    BY DEF HandleCall, SpawnFuncDef, Call
  <1>2. Fresh(kind) \in Frame /\ Fresh(kind).kind = kind /\ Fresh(kind).count = 0
    BY FreshTypes DEF Kinds, Fresh
  <1>3. /\ Depth \in Nat /\ DOMAIN frames = 1..Depth /\ DOMAIN frames' = 1..Depth + 1
        /\ \A i \in DOMAIN frames : frames'[i] = frames[i]
        /\ frames'[Depth + 1] = Fresh(kind)
        /\ Scoped' = Scoped \cup {Depth + 1}
        /\ Generating' = Generating \cup (IF kind = "generator" THEN {Depth + 1} ELSE {})
        /\ Scoped \subseteq 1..Depth /\ Generating \subseteq 1..Depth
    BY <1>1, <1>2, Pushed
  <1>4. /\ Depth + 1 \in Positions /\ \A p \in Scoped : p < Depth + 1
        /\ \A p \in Generating : p < Depth + 1
    BY <1>1, <1>3, ControlFlowAssumption DEF Positions
  <1>5. ScopesNest'
    BY <1>1, <1>3, <1>4, ScopesPushed DEF Nest
  <1>6. CollectorsNest'
    <2>1. CASE kind = "func"
      BY <1>1, <1>3, <2>1, CollectorsStay DEF Nest
    <2>2. CASE kind = "generator"
      BY <1>1, <1>2, <1>3, <1>4, <2>2, CollectorsPushed DEF Nest
    <2> QED BY <2>1, <2>2 DEF Functions
  <1>7. StreamsNest'
    <2>1. \A h \in handles : h.stream \in Positions =>
            h.stream \in DOMAIN frames /\ frames[h.stream].stream = h.stream
      BY DEF Nest, StreamsNest
    <2>2. handles' = handles
      BY <1>1 DEF PushScope
    <2>3. \A h \in handles' : h.stream \in Positions =>
           /\ h \in handles /\ h.stream \in DOMAIN frames' /\ frames'[h.stream].stream = h.stream
           /\ \A k \in Scoped' : k \in Scoped \/ k > h.stream
      BY <1>3, <2>1, <2>2
    <2> QED BY <2>3, StreamsMove DEF Nest
  <1> QED BY <1>5, <1>6, <1>7 DEF Nest

(* A frame ends that has no scope, and its stream with it.                 *)
LEMMA PopNest ==
  ASSUME TypeOK, Nest, frames # << >>, Pop, Top.kind \notin Functions, Top.at # "catch",
         yieldCollectors' = yieldCollectors, UNCHANGED <<scopes, handleScopes>>,
         handles' \subseteq handles, \A h \in handles' : h.stream # Depth
  PROVE  Nest'
  <1>1. /\ DOMAIN frames' = 1..Depth - 1 /\ DOMAIN frames = 1..Depth /\ Depth \in Nat
        /\ \A i \in 1..Depth - 1 : frames'[i] = frames[i]
        /\ Scoped' = Scoped /\ Generating' = Generating
        /\ Generating \subseteq 1..Depth /\ Depth \notin Generating
    BY Popped DEF Functions
  <1>2. \A i \in Generating : frames'[i].count = frames[i].count
    BY <1>1
  <1>3. \A h \in handles' : h.stream \in Positions =>
          h.stream \in DOMAIN frames' /\ frames'[h.stream].stream = frames[h.stream].stream
    BY <1>1 DEF Nest, StreamsNest
  <1> QED BY <1>1, <1>2, <1>3, NestStays

(* The top frame goes on, and has a scope if it had one.                   *)
LEMMA TopNest ==
  ASSUME TypeOK, Nest, frames # << >>, NEW f \in Frame, SetTop(f), f.kind = Top.kind,
         f.stream = Top.stream, f.kind \notin Functions, (f.at = "catch") = (Top.at = "catch"),
         yieldCollectors' = yieldCollectors, UNCHANGED scopeVars
  PROVE  Nest'
  <1>1. /\ DOMAIN frames = 1..Depth /\ DOMAIN frames' = 1..Depth /\ Top = frames[Depth]
        /\ \A i \in 1..Depth : frames'[i] = IF i = Depth THEN f ELSE frames[i]
        /\ Generating' = Generating /\ Scoped' \ {Depth} = Scoped \ {Depth}
        /\ Depth \in Scoped <=> Depth \in Scoped'
    BY TopSet
  <1>2. Scoped' = Scoped
    <2>1. ASSUME NEW p
          PROVE  p \in Scoped' <=> p \in Scoped
      BY <1>1, p \in Scoped' \ {Depth} <=> p \in Scoped \ {Depth}
    <2> QED BY <2>1
  <1>3. \A i \in Generating : frames'[i].count = frames[i].count
    BY <1>1 DEF Generating, Functions
  <1>4. \A h \in handles : h.stream \in Positions =>
          h.stream \in DOMAIN frames' /\ frames'[h.stream].stream = frames[h.stream].stream
    BY <1>1 DEF Nest, StreamsNest
  <1> QED BY <1>1, <1>2, <1>3, <1>4, NestStays DEF scopeVars

(* A frame that pulls no stream of its own has none.                       *)
LEMMA NoStream ==
  ASSUME TypeOK, Sound, Nest, frames # << >>, Top.kind # "stream"
  PROVE  \A h \in handles : h.stream # Depth
  BY AtTop, AtTopSound DEF Nest, StreamsNest, FrameOK

LEMMA LeaveNest ==
  ASSUME TypeOK, Sound, Nest, GuestEnds \/ LeaveLoop \/ LeaveFinally
  PROVE  Nest'
  <1>1. /\ frames # << >> /\ Pop /\ Top.kind \in {"guest", "while", "each", "try"}
        /\ yieldCollectors' = yieldCollectors /\ UNCHANGED scopeVars
        /\ Top.kind = "try" => Top.at = "finally"
    BY DEF GuestEnds, LeaveLoop, LeaveFinally, TopIs
  <1>2. Top.at # "catch"
    BY <1>1, AtTop, AtTopSound DEF FrameOK
  <1>3. \A h \in handles : h.stream # Depth
    BY <1>1, NoStream
  <1> QED BY <1>1, <1>2, <1>3, PopNest DEF Functions, scopeVars

LEMMA IterateNest ==
  ASSUME TypeOK, Sound, Nest, Iterate
  PROVE  Nest'
  <1>1. /\ frames # << >> /\ Top.kind \in {"while", "each"} /\ Top \in Frame
        /\ yieldCollectors' = yieldCollectors /\ UNCHANGED scopeVars
    BY AtTop DEF Iterate, TopIs
  <1>2. CASE Top.count < MaxIterations
    <2> DEFINE f == [Top EXCEPT !.count = @ + 1]
    <2>1. SetTop(f)
      BY <1>2 DEF Iterate
    <2>2. /\ f \in Frame /\ f.kind = Top.kind /\ f.stream = Top.stream /\ f.at = Top.at
      BY <1>1 DEF Frame
    <2> HIDE DEF f
    <2> QED BY <1>1, <2>1, <2>2, TopNest DEF Functions
  <1>3. CASE ~(Top.count < MaxIterations)
    <2>1. Pop
      BY <1>3 DEF Iterate
    <2>2. Top.at # "catch"
      BY <1>1, AtTop, AtTopSound DEF FrameOK
    <2>3. \A h \in handles : h.stream # Depth
      BY <1>1, NoStream
    <2> QED BY <1>1, <2>1, <2>2, <2>3, PopNest DEF Functions, scopeVars
  <1> QED BY <1>2, <1>3

LEMMA StreamNest ==
  ASSUME TypeOK, Sound, Nest, PullEnds \/ PullNext \/ LeaveStream
  PROVE  Nest'
  <1>1. /\ frames # << >> /\ Top.kind = "stream" /\ Top \in Frame /\ Top = frames[Depth]
        /\ UNCHANGED <<scopes, handleScopes>> /\ yieldCollectors' = yieldCollectors
        /\ Depth \in Positions
    BY AtTop DEF PullEnds, PullNext, LeaveStream, TopIs, scopeVars
  <1>2. Top.at # "catch"
    BY <1>1, AtTopSound DEF FrameOK
  <1>3. ASSUME NEW x \in {"pulling", "body"}, SetTop([Top EXCEPT !.at = x]), UNCHANGED handles
        PROVE  Nest'
    <2> DEFINE f == [Top EXCEPT !.at = x]
    <2>1. f \in Frame /\ f.kind = Top.kind /\ f.stream = Top.stream /\ f.at = x
      BY <1>1 DEF Frame
    <2>2. SetTop(f)
      BY <1>3
    <2> HIDE DEF f
    <2> QED BY <1>1, <1>2, <1>3, <2>1, <2>2, TopNest DEF Functions, scopeVars
  <1>4. ASSUME Pop, ReleaseStream(Top.stream) \/ (~StreamIsLive /\ UNCHANGED handles)
        PROVE  Nest'
    <2>1. handles' \subseteq handles /\ \A h \in handles' : h.stream # Top.stream
      BY <1>4 DEF ReleaseStream, StreamIsLive
    <2>2. \A h \in handles' : h.stream # Depth
      BY <1>1, <2>1 DEF Nest, StreamsNest
    <2> QED BY <1>1, <1>2, <1>4, <2>1, <2>2, PopNest DEF Functions
  <1>5. CASE PullEnds
    BY <1>3, <1>4, <1>5 DEF PullEnds
  <1>6. CASE PullNext
    BY <1>3, <1>6 DEF PullNext, scopeVars
  <1>7. CASE LeaveStream
    BY <1>4, <1>7 DEF LeaveStream
  <1> QED BY <1>5, <1>6, <1>7

(* A function ends, and with it its scope and its collector ...            *)
LEMMA LeaveFuncNest ==
  ASSUME TypeOK, Nest, LeaveFunc
  PROVE  Nest'
  <1>1. /\ frames # << >> /\ Pop /\ Top.kind \in Functions /\ PopScope
        /\ yieldCollectors' = IF Top.kind = "func" THEN yieldCollectors
                              ELSE Front(yieldCollectors)
    BY DEF LeaveFunc, TopIs
  <1>2. /\ DOMAIN frames' = 1..Depth - 1 /\ DOMAIN frames = 1..Depth /\ Depth \in Nat
        /\ \A i \in 1..Depth - 1 : frames'[i] = frames[i]
        /\ Scoped' = Scoped \ {Depth} /\ Generating' = Generating \ {Depth}
        /\ Scoped \subseteq 1..Depth /\ Generating \subseteq 1..Depth
        /\ Depth \in Scoped /\ (Depth \in Generating <=> Top.kind = "generator")
    BY <1>1, Popped
  <1>3. (\A p \in Scoped : p <= Depth) /\ (\A p \in Generating : p <= Depth)
    <2>1. Scoped \subseteq 1..Depth
      BY <1>2
    <2>2. Generating \subseteq 1..Depth
      BY <1>2
    <2>3. \A p \in 1..Depth : p <= Depth
      <3>1. Depth \in Nat
        BY <1>2
      <3> QED BY <3>1
    <2> QED BY <2>1, <2>2, <2>3
  <1>4. ScopesNest' /\ \A h \in handles' : h \in handles /\ h.owner < Depth
    BY <1>1, <1>2, <1>3, ScopesPopped DEF Nest
  <1>5. \A i \in Generating' : frames'[i].count = frames[i].count
    <2>1. Depth \in Nat
      BY <1>2
    <2>2. \A i \in 1..Depth : i # Depth => i \in 1..Depth - 1
      BY <2>1
    <2>3. \A i \in Generating' : i \in 1..Depth /\ i # Depth
      BY <1>2, Zenon
    <2>4. \A i \in 1..Depth - 1 : frames'[i] = frames[i]
      BY <1>2, Zenon
    <2> QED BY <2>2, <2>3, <2>4, Zenon
  <1>6. CollectorsNest'
    <2>1. CASE Top.kind = "func"
      <3>1. Generating' = Generating
        BY <1>2, <2>1
      <3> QED BY <1>1, <1>5, <2>1, <3>1, CollectorsStay DEF Nest
    <2>2. CASE Top.kind = "generator"
      BY <1>1, <1>2, <1>3, <1>5, <2>2, CollectorsPopped DEF Nest
    <2> QED BY <1>1, <2>1, <2>2 DEF Functions
  <1>7. StreamsNest'
    <2>1. ASSUME NEW h \in handles', h.stream \in Positions
          PROVE  /\ h \in handles /\ h.stream \in DOMAIN frames'
                 /\ frames'[h.stream].stream = h.stream
                 /\ \A k \in Scoped' : k \in Scoped
      <3>1. /\ h \in handles /\ h.stream \in DOMAIN frames /\ frames[h.stream].stream = h.stream
            /\ h.owner < Depth /\ h.owner \in Nat
            /\ \A k \in h.owner+1..h.stream : k \notin Scoped
        BY <1>4, <2>1, ControlFlowAssumption DEF Nest, StreamsNest, TypeOK, Handle
      <3>2. h.stream # Depth
        BY <1>2, <3>1
      <3> QED BY <1>2, <3>1, <3>2
    <2> QED BY <2>1, StreamsMove DEF Nest
  <1> QED BY <1>4, <1>6, <1>7 DEF Nest

(* ... and the run, when everything else has.                              *)
LEMMA LeaveRunNest ==
  ASSUME TypeOK, Sound, Nest, LeaveRun
  PROVE  Nest'
  <1>1. /\ frames # << >> /\ Pop /\ Top.kind = "run" /\ scopes' = scopes
        /\ handleScopes' = 0 /\ handles' = {} /\ yieldCollectors' = yieldCollectors
    BY DEF LeaveRun, TopIs
  <1>2. /\ DOMAIN frames' = 1..Depth - 1 /\ DOMAIN frames = 1..Depth /\ Depth \in Nat
        /\ Scoped' = Scoped \ {Depth} /\ Generating' = Generating \ {Depth}
        /\ Scoped \subseteq 1..Depth /\ Generating \subseteq 1..Depth
        /\ Depth \in Scoped <=> Top.at = "catch"
        /\ Depth \notin Generating /\ Depth >= 1 /\ Top = frames[Depth]
    BY <1>1, Popped DEF Functions
  <1>3. Depth = 1 /\ Top.at # "catch"
    BY <1>1, <1>2, AtTopSound DEF FrameOK
  <1>4. Scoped' = Scoped /\ Generating' = Generating /\ Generating = {}
    BY <1>2, <1>3
  <1>5. ScopesNest'
    <2>1. /\ Increasing(scopes') /\ Range(scopes') = {None} \cup Scoped' /\ 0 <= Len(scopes')
      BY <1>1, <1>4, ScopesAre DEF Nest
    <2> QED BY <1>1, <2>1 DEF ScopesNest, Scoped
  <1>6. CollectorsNest'
    BY <1>1, <1>4, CollectorsStay DEF Nest
  <1>7. StreamsNest'
    BY <1>1 DEF StreamsNest
  <1> QED BY <1>5, <1>6, <1>7 DEF Nest

(* A try opens a scope for its catch, and closes it on the way on.         *)
LEMMA TryNest ==
  ASSUME TypeOK, Sound, Nest, LeaveTryBody \/ LeaveCatch
  PROVE  Nest'
  <1>1. /\ frames # << >> /\ Top.kind = "try" /\ Top \in Frame /\ signal \in Signal
        /\ yieldCollectors' = yieldCollectors /\ \A h \in handles : h.stream # Depth
    BY AtTop, NoStream DEF LeaveTryBody, LeaveCatch, TopIs
  <1> DEFINE c == [Top EXCEPT !.at = "catch"]
             f == [Top EXCEPT !.at = "finally", !.saved = signal]
  <1>2. /\ c \in Frame /\ c.kind = "try" /\ c.stream = Top.stream /\ c.at = "catch"
        /\ f \in Frame /\ f.kind = "try" /\ f.stream = Top.stream /\ f.at = "finally"
    BY <1>1 DEF Frame
  <1>3. \/ Top.at = "body" /\ SetTop(c) /\ PushScope(Depth)
        \/ Top.at = "body" /\ SetTop(f) /\ UNCHANGED scopeVars
        \/ Top.at = "catch" /\ SetTop(f) /\ PopScope
    BY DEF LeaveTryBody, LeaveCatch, ToFinally
  <1> HIDE DEF c, f
  <1>4. ASSUME NEW g \in Frame, SetTop(g), g.kind = "try", g.stream = Top.stream
        PROVE  /\ Depth \in Positions /\ Depth \in Nat /\ Scoped \subseteq 1..Depth
               /\ DOMAIN frames = 1..Depth /\ DOMAIN frames' = 1..Depth
               /\ \A i \in 1..Depth : frames'[i].stream = frames[i].stream
               /\ CollectorsNest' /\ Scoped' \ {Depth} = Scoped \ {Depth}
               /\ Depth \in Scoped <=> Top.at = "catch"
               /\ Depth \in Scoped' <=> g.at = "catch"
    <2>1. /\ Depth \in Positions /\ Depth \in Nat /\ Top = frames[Depth]
          /\ DOMAIN frames = 1..Depth /\ DOMAIN frames' = 1..Depth
          /\ \A i \in 1..Depth : frames'[i] = IF i = Depth THEN g ELSE frames[i]
          /\ Generating' = Generating
          /\ Scoped' \ {Depth} = Scoped \ {Depth} /\ Scoped \subseteq 1..Depth
          /\ Depth \in Scoped <=> Top.at = "catch"
          /\ Depth \in Scoped' <=> g.at = "catch"
      BY <1>1, <1>4, TopSet DEF Functions
    <2>2. \A i \in Generating : frames'[i].count = frames[i].count
      BY <1>1, <2>1 DEF Generating
    <2>3. CollectorsNest'
      BY <1>1, <2>1, <2>2, CollectorsStay DEF Nest
    <2> QED BY <1>4, <2>1, <2>3
  <1>5. CASE Top.at = "body" /\ SetTop(f) /\ UNCHANGED scopeVars
    BY <1>1, <1>2, <1>5, TopNest DEF Functions
  <1>6. CASE Top.at = "body" /\ SetTop(c) /\ PushScope(Depth)
    <2>1. /\ Depth \in Positions /\ Depth \in Nat /\ Scoped \subseteq 1..Depth
          /\ DOMAIN frames = 1..Depth /\ DOMAIN frames' = 1..Depth
          /\ \A i \in 1..Depth : frames'[i].stream = frames[i].stream
          /\ CollectorsNest' /\ Scoped' \ {Depth} = Scoped \ {Depth}
          /\ Depth \notin Scoped /\ Depth \in Scoped'
      BY <1>2, <1>4, <1>6
    <2>2. Scoped' = Scoped \cup {Depth}
      <3>1. ASSUME NEW p
            PROVE  p \in Scoped' <=> p \in Scoped \cup {Depth}
        BY <2>1, p \in Scoped' \ {Depth} <=> p \in Scoped \ {Depth}
      <3> QED BY <3>1
    <2>3. \A p \in Scoped : p < Depth
      BY <2>1
    <2>4. ScopesNest'
      BY <1>6, <2>1, <2>2, <2>3, ScopesPushed DEF Nest
    <2>5. \A h \in handles' : h.stream \in Positions =>
           /\ h \in handles /\ h.stream \in DOMAIN frames' /\ frames'[h.stream].stream = h.stream
           /\ \A k \in Scoped' : k \in Scoped \/ k > h.stream
      <3>1. handles' = handles
        BY <1>6 DEF PushScope
      <3> QED BY <1>1, <2>1, <2>2, <3>1 DEF Nest, StreamsNest
    <2>6. StreamsNest'
      BY <2>5, StreamsMove DEF Nest
    <2> QED BY <2>1, <2>4, <2>6 DEF Nest
  <1>7. CASE Top.at = "catch" /\ SetTop(f) /\ PopScope
    <2>1. /\ Depth \in Positions /\ Depth \in Nat /\ Scoped \subseteq 1..Depth
          /\ DOMAIN frames = 1..Depth /\ DOMAIN frames' = 1..Depth
          /\ \A i \in 1..Depth : frames'[i].stream = frames[i].stream
          /\ CollectorsNest' /\ Scoped' \ {Depth} = Scoped \ {Depth}
          /\ Depth \in Scoped /\ Depth \notin Scoped'
      BY <1>2, <1>4, <1>7
    <2>2. Scoped' = Scoped \ {Depth}
      BY <2>1
    <2>3. ScopesNest' /\ \A h \in handles' : h \in handles /\ h.owner < Depth
      BY <1>7, <2>1, <2>2, ScopesPopped DEF Nest
    <2>4. \A h \in handles' : h.stream \in Positions =>
           /\ h \in handles /\ h.stream \in DOMAIN frames' /\ frames'[h.stream].stream = h.stream
           /\ \A k \in Scoped' : k \in Scoped
      BY <2>1, <2>2, <2>3 DEF Nest, StreamsNest
    <2>5. StreamsNest'
      BY <2>4, StreamsMove DEF Nest
    <2> QED BY <2>1, <2>3, <2>5 DEF Nest
  <1> QED BY <1>3, <1>5, <1>6, <1>7

LEMMA OpYieldNest ==
  ASSUME TypeOK, Nest, OpYield
  PROVE  Nest'
  <1>1. /\ DOMAIN frames' = DOMAIN frames
        /\ \A i \in DOMAIN frames : Like(frames[i], frames'[i])
    BY YieldCounts
  <1>2. UNCHANGED scopeVars
    BY DEF OpYield
  <1>3. Scoped' = Scoped
    BY <1>1 DEF Scoped, HasScope, Like
  <1>4. ScopesNest'
    BY <1>2, <1>3, ScopesStay DEF Nest, scopeVars
  <1>5. CollectorsNest'
    BY CollectorsCount DEF Nest
  <1>6. \A h \in handles' : h.stream \in Positions =>
         /\ h \in handles /\ h.stream \in DOMAIN frames' /\ frames'[h.stream].stream = h.stream
         /\ \A k \in Scoped' : k \in Scoped
    BY <1>1, <1>2, <1>3 DEF Nest, StreamsNest, Like, scopeVars
  <1>7. StreamsNest'
    BY <1>6, StreamsMove DEF Nest
  <1> QED BY <1>4, <1>5, <1>7 DEF Nest

(* A panic that passes no catch and no generator leaves nothing behind.    *)
LEMMA PanicNest ==
  ASSUME TypeOK, Nest, Panic, ~disturbed'
  PROVE  Nest'
  <1>1. /\ frames' = SubSeq(frames, 1, Here - 1) /\ Here # None /\ PopScope
        /\ frames[Here].kind # "generator" /\ yieldCollectors' = yieldCollectors
        /\ \A j \in Here+1..Depth : frames[j].at # "catch"
    BY DEF Panic
  <1>2. /\ Here \in 1..Depth /\ frames[Here].kind \in Functions /\ Here \in Nat
        /\ \A j \in Here+1..Depth : frames[j].kind \notin Functions
        /\ Here - 1 \in 0..Depth
    BY <1>1, HereIs, AtTop DEF None
  <1> DEFINE n == Here - 1
  <1> HIDE DEF n
  <1>3. /\ n \in Nat /\ Depth \in Nat /\ DOMAIN frames = 1..Depth /\ DOMAIN frames' = 1..n
        /\ \A i \in 1..n : frames'[i] = frames[i]
        /\ Scoped' = Scoped \cap 1..n /\ Generating' = Generating \cap 1..n
        /\ Scoped \subseteq 1..Depth /\ Generating \subseteq 1..Depth
    BY <1>1, <1>2, Cut DEF n
  <1>4. Here \in Scoped /\ \A p \in Scoped : p <= Here
    BY <1>1, <1>2, <1>3 DEF Scoped, HasScope
  <1>5. \A p \in Generating : p < Here
    BY <1>1, <1>2, <1>3 DEF Generating, Functions
  <1>6. \A p \in 1..Depth : p \in 1..n <=> p < Here
    BY <1>2, <1>3 DEF n
  <1>7. Scoped' = Scoped \ {Here}
    <2>1. ASSUME NEW p \in Scoped
          PROVE  p \in 1..n <=> p # Here
      BY <1>2, <1>3, <1>4, <1>6
    <2> QED BY <1>3, <2>1
  <1>8. Generating' = Generating
    BY <1>3, <1>5, <1>6
  <1>9. ScopesNest' /\ \A h \in handles' : h \in handles /\ h.owner < Here
    BY <1>1, <1>4, <1>7, ScopesPopped DEF Nest
  <1>10. CollectorsNest'
    <2>1. \A i \in Generating : frames'[i].count = frames[i].count
      BY <1>3, <1>8
    <2> QED BY <1>1, <1>8, <2>1, CollectorsStay DEF Nest
  <1>11. StreamsNest'
    <2>1. ASSUME NEW h \in handles', h.stream \in Positions
          PROVE  /\ h \in handles /\ h.stream \in DOMAIN frames'
                 /\ frames'[h.stream].stream = h.stream
                 /\ \A k \in Scoped' : k \in Scoped
      <3>1. /\ h \in handles /\ h.stream \in DOMAIN frames /\ frames[h.stream].stream = h.stream
            /\ h.owner < Here /\ h.owner \in Nat
            /\ \A k \in h.owner+1..h.stream : k \notin Scoped
        BY <1>9, <2>1, ControlFlowAssumption DEF Nest, StreamsNest, TypeOK, Handle
      <3>2. h.stream \in 1..n
        BY <1>2, <1>3, <1>4, <3>1 DEF n
      <3> QED BY <1>3, <3>1, <3>2
    <2> QED BY <2>1, StreamsMove DEF Nest
  <1> QED BY <1>9, <1>10, <1>11 DEF Nest

LEMMA StaysNest ==
  ASSUME TypeOK, Sound, Nest, [Next]_vars, ~disturbed'
  PROVE  Nest'
  <1>1. CASE UNCHANGED vars
    <2>1. Scoped' = Scoped /\ Generating' = Generating
      BY <1>1 DEF Scoped, Generating, HasScope, vars
    <2>2. \A h \in handles : h.stream \in Positions =>
            /\ h.stream \in DOMAIN frames /\ frames[h.stream].stream = h.stream
      BY DEF Nest, StreamsNest
    <2> QED BY <1>1, <2>1, <2>2, NestStays DEF vars
  <1>2. CASE Next
    BY <1>2, StillNest, EnterNest, CallNest, LeaveFuncNest, LeaveNest, LeaveRunNest, IterateNest,
       StreamNest, TryNest, PanicNest, OpYieldNest DEF Next
  <1> QED BY <1>1, <1>2

----------------------------------------------------------------------------
(* The theorems                                                            *)

LEMMA InitInv == Init => Inv
  <1> SUFFICES ASSUME Init PROVE Inv
    OBVIOUS
  <1>1. /\ frames = << Fresh("run") >> /\ signal = Quiet /\ scopes = << None >>
        /\ handleScopes = 1 /\ handles = {} /\ yieldCollectors = << >>
        /\ phase = "running" /\ disturbed = FALSE /\ ops = 0
    BY DEF Init
  <1>2. /\ Fresh("run") \in Frame /\ Fresh("run").kind = "run" /\ Fresh("run").at = "body"
        /\ Fresh("run").stream = None /\ None \notin Positions /\ None = 0 /\ Quiet \in Signal
    BY FreshTypes DEF Kinds, None
  <1>3. /\ frames \in Seq(Frame) /\ Depth = 1 /\ DOMAIN frames = {1}
        /\ frames[1] = Fresh("run")
    BY <1>1, <1>2 DEF Depth
  <1>4. TypeOK
    <2>1. scopes \in Seq(0..MaxDepth) /\ scopes # << >>
      BY <1>1, <1>2, ControlFlowAssumption
    <2>2. yieldCollectors \in Seq([of : Positions, holds : Nat])
      BY <1>1
    <2>3. Depth <= MaxDepth /\ ops \in 0..MaxOps
      BY <1>1, <1>3, ControlFlowAssumption
    <2> QED BY <1>1, <1>2, <1>3, <2>1, <2>2, <2>3 DEF TypeOK
  <1>5. Sound
    <2>1. FrameOK(frames, 1)
      BY <1>2, <1>3 DEF FrameOK
    <2>2. AimsIn(frames, signal, Depth)
      BY <1>1 DEF AimsIn, Quiet
    <2> QED BY <1>3, <2>1, <2>2 DEF Sound
  <1>6. Nest
    <2>1. Scoped = {} /\ Generating = {}
      BY <1>2, <1>3 DEF Scoped, Generating, HasScope, Functions
    <2>2. DOMAIN scopes = {1} /\ Len(scopes) = 1 /\ scopes[1] = None
      BY <1>1
    <2>3. Increasing(scopes) /\ Range(scopes) = {None}
      BY <2>2 DEF Increasing, Range
    <2>4. ScopesNest
      BY <1>1, <2>1, <2>2, <2>3 DEF ScopesNest, Scoped
    <2>5. DOMAIN yieldCollectors = {}
      BY <1>1
    <2>6. DOMAIN Collecting = {}
      BY <2>5 DEF Collecting
    <2>7. CollectorsNest
      BY <2>1, <2>5, <2>6 DEF CollectorsNest, Increasing, Range, Generating
    <2> QED BY <1>1, <2>4, <2>7 DEF Nest, StreamsNest
  <1> QED BY <1>4, <1>5, <1>6 DEF Inv

LEMMA NextInv == Inv /\ [Next]_vars => Inv'
  <1> SUFFICES ASSUME Inv, [Next]_vars PROVE Inv'
    OBVIOUS
  <1>1. TypeOK' /\ Sound'
    BY StaysSound DEF Inv
  <1>2. disturbed => disturbed'
    BY DEF Next, vars, Fail, Exec, OpTable, OpYield, OpLoop, OpForeachStream, OpTry, HandleCall,
       SpawnFuncDef, Call, LeaveFunc, GuestEnds, StreamCancel, Panic, LeaveRun, LeaveLoop, Iterate,
       PullRuns, PullEnds, PullNext, LeaveStream, LeaveTryBody, LeaveCatch, LeaveFinally
  <1>3. disturbed' \/ Nest'
    BY <1>2, StaysNest DEF Inv
  <1> QED BY <1>1, <1>3 DEF Inv

LEMMA Invariance == Spec => []Inv
  BY InitInv, NextInv, PTL DEF Spec

(* Whatever way a frame is left, what it opened is closed with it: scopes  *)
(* and handle scopes nest like the functions and catches that opened them, *)
(* every generator that runs collects its own values, and no stream of a   *)
(* generator call outlives its loop; only a panic in a catch body or in a  *)
(* generator leaves something behind (runOps, dispatchBridgeFunc,          *)
(* opLoopForeachStreamHandle, opTry, popScope).                            *)
THEOREM WhatIsOpenedIsClosed == Spec => []EverythingIsClosed
  <1>1. Inv => EverythingIsClosed
    BY DEF Inv, Nest, StreamsNest, StreamsClose, EverythingIsClosed
  <1> QED BY <1>1, Invariance, PTL

(* What a step does with a signal that is under way.                       *)
LEMMA StepsArrive ==
  ASSUME TypeOK, Sound, Next
  PROVE  Arrives
  <1>1. SUFFICES ASSUME signal # Quiet, signal' # signal
                 PROVE  \/ Top.kind = "stream" /\ signal'.kind = "error"
                        \/ Depth = signal.aim
                        \/ /\ Top.kind = "try" /\ Top.at # "finally"
                           /\ frames'[Depth].saved = signal
    BY DEF Arrives
  <1>2. /\ frames # << >> /\ signal.kind # "none"
        /\ Takes(Top, signal.kind) => signal.aim = Depth
    <2>1. frames # << >>
      BY <1>1, AtTop DEF Sound, AimsIn
    <2> QED BY <1>1, <2>1, AtTopSound
  <1>3. ASSUME Takes(Top, signal.kind)
        PROVE  Depth = signal.aim
    BY <1>2, <1>3
  <1>4. CASE LeaveFunc \/ LeaveRun
    BY <1>3, <1>4 DEF LeaveFunc, LeaveRun, TopIs, Takes
  <1>5. CASE LeaveLoop \/ Iterate \/ PullNext
    <2>1. Top.kind \in Loops
      BY <1>5 DEF LeaveLoop, Iterate, PullNext, TopIs, Loops
    <2>2. signal.kind \in {"break", "continue"}
      BY <1>1, <1>2, <1>5 DEF LeaveLoop, Iterate, PullNext
    <2> QED BY <1>3, <2>1, <2>2 DEF Takes
  <1>6. CASE PullEnds
    BY <1>1, <1>6 DEF PullEnds, TopIs, Raise
  <1>7. CASE LeaveStream
    <2>1. Top.kind = "stream"
      BY <1>7 DEF LeaveStream, TopIs
    <2>2. CASE signal.kind = "break"
      BY <1>3, <2>1, <2>2 DEF Takes, Loops
    <2>3. CASE signal.kind # "break"
      BY <1>1, <1>7, <2>1, <2>3 DEF LeaveStream, Raise
    <2> QED BY <2>2, <2>3
  <1>8. CASE LeaveTryBody \/ LeaveCatch
    <2>1. Top.kind = "try" /\ Top \in Frame /\ Depth \in DOMAIN frames /\ signal \in Signal
      BY <1>2, <1>8, AtTop DEF LeaveTryBody, LeaveCatch, TopIs
    <2>2. Top.at \in {"body", "catch"}
      BY <1>8 DEF LeaveTryBody, LeaveCatch
    <2>3. CASE Top.at = "body" /\ signal.kind \in {"throw", "error"} /\ Top.catches
      BY <1>3, <2>1, <2>3 DEF Takes, ControlFlow
    <2>4. CASE ToFinally(signal)
      <3> DEFINE f == [Top EXCEPT !.at = "finally", !.saved = signal]
      <3>1. f.saved = signal
        BY <2>1 DEF Frame
      <3>2. frames' = [frames EXCEPT ![Depth] = f]
        BY <2>4 DEF ToFinally, SetTop
      <3> HIDE DEF f
      <3>3. frames'[Depth] = f
        BY <2>1, <3>2
      <3> QED BY <2>1, <2>2, <3>1, <3>3
    <2> QED BY <1>8, <2>3, <2>4 DEF LeaveTryBody, LeaveCatch
  <1>9. CASE LeaveFinally
    BY <1>3, <1>9 DEF LeaveFinally, TopIs, Takes
  <1>10. CASE HandleCall
    BY <1>1, <1>10 DEF HandleCall, Call
  <1>11. CASE GuestEnds \/ StreamCancel \/ Panic \/ Fail \/ Exec \/ OpYield \/ OpLoop
              \/ OpForeachStream \/ OpTry \/ SpawnFuncDef \/ PullRuns
    BY <1>1, <1>11 DEF GuestEnds, StreamCancel, Panic, Fail, Exec, OpYield, OpLoop,
       OpForeachStream, OpTry, SpawnFuncDef, PullRuns, Enters, Executes
  <1>12. CASE OpTable
    BY <1>1, <1>12 DEF OpTable
  <1> QED BY <1>4, <1>5, <1>6, <1>7, <1>8, <1>9, <1>10, <1>11, <1>12 DEF Next

(* Which step leaves a try, and when.                                      *)
LEMMA StepsRunFinally ==
  ASSUME TypeOK, Sound, Next
  PROVE  FinallyRuns
  <1>1. SUFFICES ASSUME NEW i \in DOMAIN frames, i > Len(frames'), frames[i].kind = "try"
                 PROVE  frames[i].at = "finally" \/ (signal = Quiet /\ Len(frames') < Depth - 1)
    BY DEF FinallyRuns
  <1>2. /\ i \in 1..Depth /\ Depth \in Nat /\ frames # << >> /\ Top = frames[Depth]
        /\ frames \in Seq(Frame) /\ Depth = Len(frames) /\ Depth \in DOMAIN frames
    BY <1>1, AtTop DEF Depth
  <1>3. ASSUME Pop, Top.kind # "try" \/ Top.at = "finally"
        PROVE  frames[i].at = "finally"
    <2>1. Len(frames') = Depth - 1
      BY <1>2, <1>3, Fronted DEF Pop
    <2>2. i = Depth
      BY <1>1, <1>2, <2>1
    <2> QED BY <1>1, <1>2, <1>3, <2>2
  <1>4. ASSUME NEW f, SetTop(f)
        PROVE  FALSE
    <2>1. Len(frames') = Depth
      BY <1>2, <1>4 DEF SetTop
    <2> QED BY <1>1, <1>2, <2>1
  <1>5. ASSUME NEW f, Push(f)
        PROVE  FALSE
    <2>1. Len(frames') = Depth + 1
      BY <1>2, <1>5 DEF Push
    <2> QED BY <1>1, <1>2, <2>1
  <1>6. CASE Fail \/ OpTable \/ StreamCancel
    BY <1>1, <1>2, <1>6 DEF Fail, OpTable, StreamCancel
  <1>7. CASE Exec \/ OpLoop \/ OpForeachStream \/ OpTry \/ PullRuns \/ HandleCall \/ SpawnFuncDef
    BY <1>5, <1>7 DEF Exec, OpLoop, OpForeachStream, OpTry, PullRuns, HandleCall, SpawnFuncDef, Call
  <1>8. CASE LeaveFunc \/ LeaveRun \/ GuestEnds \/ LeaveLoop \/ LeaveStream \/ LeaveFinally
    BY <1>3, <1>8 DEF LeaveFunc, LeaveRun, GuestEnds, LeaveLoop, LeaveStream, LeaveFinally, TopIs,
       Functions
  <1>9. CASE Iterate \/ PullEnds \/ PullNext
    BY <1>3, <1>4, <1>9 DEF Iterate, PullEnds, PullNext, TopIs
  <1>10. CASE LeaveTryBody \/ LeaveCatch
    BY <1>4, <1>10 DEF LeaveTryBody, LeaveCatch, ToFinally
  <1>11. CASE OpYield
    <2>1. DOMAIN frames' = DOMAIN frames /\ frames' \in Seq(Frame)
      BY <1>11, YieldCounts
    <2>2. Len(frames') = Depth
      BY <1>2, <2>1
    <2> QED BY <1>1, <1>2, <2>2
  <1>12. CASE Panic
    <2>1. /\ signal = Quiet /\ Here # None /\ frames' = SubSeq(frames, 1, Here - 1)
      BY <1>12 DEF Panic, Executes
    <2>2. /\ Here \in 1..Depth /\ frames[Here].kind \in Functions
      BY <1>2, <2>1, HereIs DEF None
    <2>3. Len(frames') = Here - 1
      BY <1>2, <2>1, <2>2, CutShort
    <2>4. i # Here /\ i > Here - 1
      BY <1>1, <2>2, <2>3 DEF Functions
    <2> QED BY <1>2, <2>1, <2>2, <2>3, <2>4
  <1> QED BY <1>6, <1>7, <1>8, <1>9, <1>10, <1>11, <1>12 DEF Next

(* A return, break, continue, throw or error reaches the frame that it is  *)
(* for, past every finally body on its way and no further, except that a   *)
(* loop over a stream may turn it into an error (IsReturnSignal and its    *)
(* like, opTry, runFinally, opLoop, opLoopForeachStreamHandle).            *)
THEOREM SignalsReachTheirFrames == Spec => SignalsArrive
  <1>1. ASSUME Inv, [Next]_vars
        PROVE  [Arrives /\ FinallyRuns]_vars
    BY <1>1, StepsArrive, StepsRunFinally DEF Inv
  <1> QED BY <1>1, Invariance, PTL DEF Spec, SignalsArrive

----------------------------------------------------------------------------
(* Induction over the numbers up to n                                      *)

(* A set of natural numbers that is not empty has a least.                 *)
LEMMA LeastIn ==
  ASSUME NEW T, T \subseteq Nat, T # {}
  PROVE  \E k \in T : \A l \in T : k <= l
  <1>1. PICK k \in T : \A l \in T : ~(<<l, k>> \in OpToRel(<, Nat))
    BY WFMin, NatLessThanWellFounded, Zenon
  <1>2. \A l \in T : ~(l < k)
    BY <1>1 DEF OpToRel
  <1> QED BY <1>2

(* Induction from 0 up to n, over a set in place of a predicate.           *)
LEMMA Climb ==
  ASSUME NEW n \in Nat, NEW S, 0 \in S, \A i \in 1..n : i - 1 \in S => i \in S
  PROVE  \A i \in 0..n : i \in S
  <1> DEFINE T == {i \in 0..n : i \notin S}
  <1> SUFFICES ASSUME T # {} PROVE FALSE
    OBVIOUS
  <1>1. T \subseteq Nat
    OBVIOUS
  <1> HIDE DEF T
  <1>2. PICK k \in T : \A l \in T : k <= l
    BY <1>1, LeastIn
  <1>3. k \in 1..n /\ k - 1 \in 0..n /\ k \notin S
    BY <1>2 DEF T
  <1>4. k - 1 \in S
    BY <1>2, <1>3 DEF T
  <1> QED BY <1>3, <1>4

(* Induction from n down to 0.                                             *)
LEMMA Descend ==
  ASSUME NEW n \in Nat, NEW S, n \in S, \A i \in 0..(n - 1) : i + 1 \in S => i \in S
  PROVE  \A i \in 0..n : i \in S
  <1> DEFINE T == {k \in 0..n : n - k \in S}
  <1>1. 0 \in T
    OBVIOUS
  <1>2. \A k \in 1..n : k - 1 \in T => k \in T
    <2> SUFFICES ASSUME NEW k \in 1..n, k - 1 \in T PROVE k \in T
      OBVIOUS
    <2>1. n - (k - 1) \in S /\ n - k \in 0..(n - 1) /\ (n - k) + 1 = n - (k - 1) /\ k \in 0..n
      OBVIOUS
    <2> QED BY <2>1
  <1> HIDE DEF T
  <1>3. \A k \in 0..n : k \in T
    BY <1>1, <1>2, Climb
  <1> SUFFICES ASSUME NEW i \in 0..n PROVE i \in S
    OBVIOUS
  <1>4. n - i \in 0..n /\ n - (n - i) = i
    OBVIOUS
  <1> QED BY <1>3, <1>4 DEF T

(* The length of a function on 1..n.                                       *)
LEMMA LenIs ==
  ASSUME NEW n \in Nat, NEW s, s = [i \in 1..n |-> s[i]]
  PROVE  Len(s) = n /\ DOMAIN s = 1..n
  OBVIOUS

(* The sums of a sequence are what their definition says.                  *)
LEMMA SumsAre ==
  ASSUME NEW n \in Nat, NEW terms \in [1..n -> Int]
  PROVE  /\ Sums(terms) = [i \in 0..n |-> IF i = 0 THEN 0 ELSE Sums(terms)[i - 1] + terms[i]]
         /\ Sums(terms)[0] = 0
         /\ \A i \in 1..n : Sums(terms)[i] = Sums(terms)[i - 1] + terms[i]
         /\ Sums(terms) \in [0..n -> Int]
  <1> DEFINE Is(g, m) == g = [i \in 0..m |-> IF i = 0 THEN 0 ELSE g[i - 1] + terms[i]]
             S == {m \in 0..n : \E g : Is(g, m)}
  <1>1. 0 \in S
    <2> DEFINE g == [i \in 0..0 |-> 0]
    <2>1. Is(g, 0)
      OBVIOUS
    <2> HIDE DEF g, Is
    <2>2. \E f : Is(f, 0)
      BY <2>1
    <2> QED BY <2>2
  <1>2. \A m \in 1..n : m - 1 \in S => m \in S
    <2> SUFFICES ASSUME NEW m \in 1..n, NEW g, Is(g, m - 1) PROVE m \in S
      OBVIOUS
    <2> DEFINE h == [i \in 0..m |-> IF i < m THEN g[i] ELSE g[m - 1] + terms[m]]
    <2>1. \A i \in 0..m : h[i] = IF i = 0 THEN 0 ELSE h[i - 1] + terms[i]
      <3> SUFFICES ASSUME NEW i \in 0..m PROVE h[i] = IF i = 0 THEN 0 ELSE h[i - 1] + terms[i]
        OBVIOUS
      <3>1. CASE i < m
        BY <3>1
      <3>2. CASE i = m
        BY <3>2
      <3> QED BY <3>1, <3>2
    <2>2. Is(h, m)
      BY <2>1
    <2> HIDE DEF h, Is
    <2>3. \E f : Is(f, m)
      BY <2>2
    <2> QED BY <2>3
  <1> HIDE DEF S
  <1>3. \A m \in 0..n : m \in S
    BY <1>1, <1>2, Climb
  <1>4. \E g : Is(g, n)
    <2>1. n \in 0..n
      OBVIOUS
    <2> QED BY <1>3, <2>1 DEF S
  <1>5. Len(terms) = n
    BY LenIs
  <1>6. Is(Sums(terms), n)
    BY <1>4, <1>5 DEF Sums
  <1>7. /\ Sums(terms)[0] = 0
        /\ \A i \in 1..n : Sums(terms)[i] = Sums(terms)[i - 1] + terms[i]
    BY <1>6
  <1> DEFINE R == {i \in 0..n : Sums(terms)[i] \in Int}
  <1>8. 0 \in R
    BY <1>7
  <1>9. \A i \in 1..n : i - 1 \in R => i \in R
    BY <1>7
  <1> HIDE DEF R
  <1>10. \A i \in 0..n : i \in R
    BY <1>8, <1>9, Climb
  <1>11. \A i \in 0..n : Sums(terms)[i] \in Int
    BY <1>10 DEF R
  <1>12. Sums(terms) \in [0..n -> Int]
    BY <1>6, <1>11
  <1> QED BY <1>6, <1>7, <1>12

(* Sums of terms, each at most the other, are at most the other.           *)
LEMMA SumsGrow ==
  ASSUME NEW n \in Nat, NEW a \in [1..n -> Int], NEW b \in [1..n -> Int],
         \A i \in 1..n : a[i] <= b[i]
  PROVE  \A i \in 0..n : Sums(a)[i] <= Sums(b)[i]
  <1> DEFINE S == {i \in 0..n : Sums(a)[i] <= Sums(b)[i]}
  <1>1. /\ Sums(a)[0] = 0 /\ Sums(a) \in [0..n -> Int]
        /\ \A i \in 1..n : Sums(a)[i] = Sums(a)[i - 1] + a[i]
    BY SumsAre
  <1>2. /\ Sums(b)[0] = 0 /\ Sums(b) \in [0..n -> Int]
        /\ \A i \in 1..n : Sums(b)[i] = Sums(b)[i - 1] + b[i]
    BY SumsAre
  <1>3. 0 \in S
    BY <1>1, <1>2
  <1>4. \A i \in 1..n : i - 1 \in S => i \in S
    <2> SUFFICES ASSUME NEW i \in 1..n, i - 1 \in S PROVE i \in S
      OBVIOUS
    <2>1. i - 1 \in 0..n /\ i \in 0..n /\ Sums(a)[i - 1] <= Sums(b)[i - 1]
      OBVIOUS
    <2>2. /\ Sums(a)[i - 1] \in Int /\ Sums(b)[i - 1] \in Int
          /\ a[i] \in Int /\ b[i] \in Int /\ a[i] <= b[i]
      BY <1>1, <1>2, <2>1
    <2>3. Sums(a)[i] = Sums(a)[i - 1] + a[i] /\ Sums(b)[i] = Sums(b)[i - 1] + b[i]
      BY <1>1, <1>2
    <2> QED BY <2>1, <2>2, <2>3
  <1> HIDE DEF S
  <1>5. \A i \in 0..n : i \in S
    BY <1>3, <1>4, Climb
  <1> QED BY <1>5 DEF S

(* Sums of terms that are not negative grow from 0.                        *)
LEMMA SumsRise ==
  ASSUME NEW n \in Nat, NEW a \in [1..n -> Int], \A i \in 1..n : a[i] >= 0
  PROVE  \A i \in 0..n : 0 <= Sums(a)[i] /\ Sums(a)[i] <= Sums(a)[n]
  <1>1. /\ Sums(a)[0] = 0 /\ Sums(a) \in [0..n -> Int]
        /\ \A i \in 1..n : Sums(a)[i] = Sums(a)[i - 1] + a[i]
    BY SumsAre
  <1> DEFINE S == {i \in 0..n : 0 <= Sums(a)[i]}
             T == {i \in 0..n : Sums(a)[i] <= Sums(a)[n]}
  <1>2. 0 \in S /\ n \in T
    BY <1>1
  <1>3. \A i \in 1..n : i - 1 \in S => i \in S
    BY <1>1
  <1>4. \A i \in 0..(n - 1) : i + 1 \in T => i \in T
    <2> SUFFICES ASSUME NEW i \in 0..(n - 1), i + 1 \in T PROVE i \in T
      OBVIOUS
    <2>1. i + 1 \in 1..n /\ i \in 0..n /\ (i + 1) - 1 = i /\ n \in 0..n
      OBVIOUS
    <2>2. Sums(a)[i + 1] = Sums(a)[i] + a[i + 1]
      BY <1>1, <2>1
    <2>3. /\ Sums(a)[i] \in Int /\ Sums(a)[i + 1] \in Int /\ Sums(a)[n] \in Int
          /\ a[i + 1] \in Int /\ a[i + 1] >= 0
      BY <1>1, <2>1
    <2> QED BY <2>1, <2>2, <2>3
  <1> HIDE DEF S, T
  <1>5. (\A i \in 0..n : i \in S) /\ \A i \in 0..n : i \in T
    BY <1>2, <1>3, <1>4, Climb, Descend
  <1> QED BY <1>5 DEF S, T

(* Sums of terms that are not positive fall from 0.                        *)
LEMMA SumsFall ==
  ASSUME NEW n \in Nat, NEW a \in [1..n -> Int], \A i \in 1..n : a[i] <= 0
  PROVE  \A i \in 0..n : Sums(a)[i] <= 0 /\ Sums(a)[n] <= Sums(a)[i]
  <1>1. /\ Sums(a)[0] = 0 /\ Sums(a) \in [0..n -> Int]
        /\ \A i \in 1..n : Sums(a)[i] = Sums(a)[i - 1] + a[i]
    BY SumsAre
  <1> DEFINE S == {i \in 0..n : Sums(a)[i] <= 0}
             T == {i \in 0..n : Sums(a)[n] <= Sums(a)[i]}
  <1>2. 0 \in S /\ n \in T
    BY <1>1
  <1>3. \A i \in 1..n : i - 1 \in S => i \in S
    BY <1>1
  <1>4. \A i \in 0..(n - 1) : i + 1 \in T => i \in T
    <2> SUFFICES ASSUME NEW i \in 0..(n - 1), i + 1 \in T PROVE i \in T
      OBVIOUS
    <2>1. i + 1 \in 1..n /\ i \in 0..n /\ (i + 1) - 1 = i /\ n \in 0..n
      OBVIOUS
    <2>2. Sums(a)[i + 1] = Sums(a)[i] + a[i + 1]
      BY <1>1, <2>1
    <2>3. /\ Sums(a)[i] \in Int /\ Sums(a)[i + 1] \in Int /\ Sums(a)[n] \in Int
          /\ a[i + 1] \in Int /\ a[i + 1] <= 0
      BY <1>1, <2>1
    <2> QED BY <2>1, <2>2, <2>3
  <1> HIDE DEF S, T
  <1>5. (\A i \in 0..n : i \in S) /\ \A i \in 0..n : i \in T
    BY <1>2, <1>3, <1>4, Climb, Descend
  <1> QED BY <1>5 DEF S, T

----------------------------------------------------------------------------
(* Arithmetic                                                              *)

LEMMA DivRest ==
  ASSUME NEW a \in Int, NEW b \in Int, b > 0
  PROVE  a = b * (a \div b) + (a % b)
  BY SMTT(60)

LEMMA DivMod ==
  ASSUME NEW a \in Int, NEW b \in Nat \ {0}
  PROVE  /\ a \div b \in Int /\ a % b \in 0..(b - 1) /\ a = b * (a \div b) + (a % b)
  <1>1. b \in Int /\ b > 0
    OBVIOUS
  <1>2. a \div b \in Int
    OBVIOUS
  <1>3. a % b \in 0..(b - 1)
    OBVIOUS
  <1>4. a = b * (a \div b) + (a % b)
    BY <1>1, DivRest
  <1> QED BY <1>2, <1>3, <1>4

LEMMA TimesInt == ASSUME NEW a \in Int, NEW b \in Int PROVE a * b \in Int
  OBVIOUS

LEMMA TimesMono ==
  ASSUME NEW a \in Int, NEW b \in Int, NEW c \in Nat, a <= b
  PROVE  a * c <= b * c /\ c * a <= c * b
  OBVIOUS

(* A quotient and a remainder are unique.                                  *)
LEMMA DivUnique ==
  ASSUME NEW a \in Int, NEW b \in Nat \ {0}, NEW q \in Int, NEW r \in 0..(b - 1), a = b * q + r
  PROVE  a \div b = q /\ a % b = r
  <1> DEFINE p == a \div b
             s == a % b
  <1>1. p \in Int /\ s \in 0..(b - 1) /\ a = b * p + s
    BY DivMod
  <1> HIDE DEF p, s
  <1>2. b * (p - q) = r - s
    BY <1>1
  <1>3. p - q \in Int
    BY <1>1
  <1>4. ~(p - q >= 1)
    <2> SUFFICES ASSUME p - q >= 1 PROVE FALSE
      OBVIOUS
    <2>1. b * 1 <= b * (p - q)
      BY <1>3, TimesMono
    <2> QED BY <1>1, <1>2, <2>1
  <1>5. ~(p - q <= -1)
    <2> SUFFICES ASSUME p - q <= -1 PROVE FALSE
      OBVIOUS
    <2>1. b * (p - q) <= b * (-1)
      BY <1>3, TimesMono
    <2> QED BY <1>1, <1>2, <2>1
  <1>6. p = q
    BY <1>1, <1>4, <1>5
  <1>7. s = r
    BY <1>1, <1>6
  <1> QED BY <1>6, <1>7 DEF p, s

LEMMA DivAtMost ==
  ASSUME NEW a \in Int, NEW b \in Nat \ {0}, NEW c \in Int
  PROVE  c <= a \div b <=> c * b <= a
  <1>1. a \div b \in Int /\ a % b \in 0..(b - 1) /\ a = b * (a \div b) + (a % b)
    BY DivMod
  <1> DEFINE q == a \div b
  <1> HIDE DEF q
  <1>2. ASSUME c <= q PROVE c * b <= a
    <2>1. c * b <= q * b
      BY <1>1, <1>2, TimesMono DEF q
    <2>2. q * b = b * q
      BY <1>1 DEF q
    <2>3. c * b \in Int /\ b * q \in Int
      BY <1>1 DEF q
    <2> QED BY <1>1, <2>1, <2>2, <2>3 DEF q
  <1>3. ASSUME ~(c <= q) PROVE ~(c * b <= a)
    <2>1. (q + 1) * b <= c * b
      BY <1>1, <1>3, TimesMono DEF q
    <2>2. (q + 1) * b = b * q + b
      BY <1>1 DEF q
    <2>3. c * b \in Int /\ b * q \in Int
      BY <1>1 DEF q
    <2> QED BY <1>1, <2>1, <2>2, <2>3 DEF q
  <1> QED BY <1>2, <1>3 DEF q

LEMMA WrapIs ==
  ASSUME NEW a \in Int
  PROVE  Wrap(a) \in Int /\ (a \in Int64 => Wrap(a) = a)
  <1> DEFINE b == 2 * (MaxInt + 1)
             m == a + MaxInt + 1
  <1>1. b \in Nat \ {0} /\ m \in Int
    BY WidthAssumption
  <1>2. Wrap(a) = (m % b) - (MaxInt + 1)
    BY DEF Wrap
  <1>3. a \in Int64 => m \in 0..(b - 1) /\ m = b * 0 + m
    BY WidthAssumption DEF Int64
  <1> HIDE DEF b, m
  <1>4. m % b \in Int
    BY <1>1, DivMod
  <1>5. a \in Int64 => m % b = m
    <2> SUFFICES ASSUME a \in Int64 PROVE m % b = m
      OBVIOUS
    <2> QED BY <1>1, <1>3, DivUnique
  <1> QED BY <1>2, <1>4, <1>5, WidthAssumption DEF m

----------------------------------------------------------------------------
(* Products and strides                                                    *)

LEMMA ProductsAre ==
  ASSUME NEW n \in Nat, NEW shape \in [1..n -> Int]
  PROVE  /\ Len(shape) = n
         /\ Products(shape)[0] = 1
         /\ \A i \in 1..n : Products(shape)[i] = Times(Products(shape)[i - 1], shape[i])
  <1> DEFINE Is(g, m) == g = [i \in 0..m |-> IF i = 0 THEN 1 ELSE Times(g[i - 1], shape[i])]
             S == {m \in 0..n : \E g : Is(g, m)}
  <1>1. 0 \in S
    <2> DEFINE g == [i \in 0..0 |-> 1]
    <2>1. Is(g, 0)
      OBVIOUS
    <2> HIDE DEF g, Is
    <2>2. \E f : Is(f, 0)
      BY <2>1
    <2> QED BY <2>2
  <1>2. \A m \in 1..n : m - 1 \in S => m \in S
    <2> SUFFICES ASSUME NEW m \in 1..n, NEW g, Is(g, m - 1) PROVE m \in S
      OBVIOUS
    <2> DEFINE h == [i \in 0..m |-> IF i < m THEN g[i] ELSE Times(g[m - 1], shape[m])]
    <2>1. \A i \in 0..m : h[i] = IF i = 0 THEN 1 ELSE Times(h[i - 1], shape[i])
      <3> SUFFICES ASSUME NEW i \in 0..m PROVE h[i] = IF i = 0 THEN 1 ELSE Times(h[i - 1], shape[i])
        OBVIOUS
      <3>1. CASE i < m
        BY <3>1
      <3>2. CASE i = m
        BY <3>2
      <3> QED BY <3>1, <3>2
    <2>2. Is(h, m)
      BY <2>1
    <2> HIDE DEF h, Is
    <2>3. \E f : Is(f, m)
      BY <2>2
    <2> QED BY <2>3
  <1> HIDE DEF S
  <1>3. \A m \in 0..n : m \in S
    BY <1>1, <1>2, Climb
  <1>4. \E g : Is(g, n)
    <2>1. n \in 0..n
      OBVIOUS
    <2> QED BY <1>3, <2>1 DEF S
  <1>5. Len(shape) = n
    BY LenIs
  <1>6. Is(Products(shape), n)
    BY <1>4, <1>5 DEF Products
  <1> QED BY <1>5, <1>6

(* A step of the product.                                                  *)
LEMMA TimesIs ==
  ASSUME NEW product \in Nat \union {Failed}, NEW dim \in Int
  PROVE  /\ Times(product, dim) \in Nat \union {Failed}
         /\ product = Failed => Times(product, dim) = Failed
         /\ product = 0 => Times(product, dim) = 0
         /\ product # Failed /\ dim = 0 => Times(product, dim) = 0
         /\ product \in Nat \ {0} /\ dim # 0 /\ Times(product, dim) # Failed =>
              dim >= 1 /\ Times(product, dim) = product * dim /\ product * dim \in Nat \ {0}
  <1>1. Failed \notin Int
    BY LayoutAssumption
  <1>2. CASE product = Failed
    BY <1>1, <1>2 DEF Times
  <1>3. CASE product = 0
    BY <1>1, <1>3 DEF Times
  <1>4. CASE product \in Nat \ {0}
    <2>1. product # Failed /\ product # 0 /\ product \notin {Failed, 0}
      BY <1>1, <1>4
    <2>2. CASE dim < 0
      BY <1>1, <2>1, <2>2 DEF Times
    <2>3. CASE dim = 0
      BY <1>1, <2>1, <2>3 DEF Times
    <2>4. CASE dim > 0
      <3>1. product * dim \in Nat \ {0}
        BY <1>4, <2>4
      <3>2. Times(product, dim) = IF product > MaxInt \div dim THEN Failed ELSE product * dim
        BY <2>1, <2>4 DEF Times
      <3> QED BY <1>1, <2>1, <2>4, <3>1, <3>2
    <2> QED BY <2>2, <2>3, <2>4
  <1> QED BY <1>2, <1>3, <1>4

(* What is said of a shape with a product: if no dimension is 0, all are   *)
(* positive and the products are true; otherwise the product is 0.         *)
LEMMA Counted ==
  ASSUME NEW n \in Nat \ {0}, NEW shape \in [1..n -> Int], ShapeProduct(shape) # Failed
  PROVE  /\ (\A i \in 1..n : shape[i] # 0) =>
              /\ \A i \in 1..n : shape[i] \in Nat \ {0}
              /\ \A i \in 0..n : Products(shape)[i] \in Nat \ {0}
              /\ \A i \in 1..n : Products(shape)[i] = Products(shape)[i - 1] * shape[i]
         /\ (\E i \in 1..n : shape[i] = 0) => ShapeProduct(shape) = 0
  <1> DEFINE P == Products(shape)
  <1>1. /\ Len(shape) = n /\ P[0] = 1
        /\ \A i \in 1..n : P[i] = Times(P[i - 1], shape[i])
    BY ProductsAre
  <1>2. ShapeProduct(shape) = P[n]
    BY <1>1 DEF ShapeProduct
  <1> HIDE DEF P
  <1> DEFINE T == {i \in 0..n : P[i] \in Nat \union {Failed}}
  <1>3. 0 \in T
    BY <1>1
  <1>4. \A i \in 1..n : i - 1 \in T => i \in T
    <2> SUFFICES ASSUME NEW i \in 1..n, i - 1 \in T PROVE i \in T
      OBVIOUS
    <2>1. P[i - 1] \in Nat \union {Failed} /\ shape[i] \in Int
      OBVIOUS
    <2>2. Times(P[i - 1], shape[i]) \in Nat \union {Failed}
      BY <2>1, TimesIs
    <2> QED BY <1>1, <2>2
  <1> HIDE DEF T
  <1>5. \A i \in 0..n : i \in T
    BY <1>3, <1>4, Climb
  <1>6. \A i \in 0..n : P[i] \in Nat \union {Failed}
    BY <1>5 DEF T
  <1> DEFINE S == {i \in 0..n : P[i] # Failed}
  <1>7. n \in S
    BY <1>2
  <1>8. \A i \in 0..(n - 1) : i + 1 \in S => i \in S
    <2> SUFFICES ASSUME NEW i \in 0..(n - 1), i + 1 \in S PROVE P[i] # Failed
      OBVIOUS
    <2>1. i + 1 \in 1..n /\ (i + 1) - 1 = i /\ i \in 0..n
      OBVIOUS
    <2>2. P[i + 1] = Times(P[i], shape[i + 1]) /\ shape[i + 1] \in Int
      BY <1>1, <2>1
    <2>3. P[i] \in Nat \union {Failed}
      BY <1>6, <2>1
    <2>4. P[i] = Failed => Times(P[i], shape[i + 1]) = Failed
      BY <2>2, <2>3, TimesIs
    <2> QED BY <2>2, <2>4
  <1> HIDE DEF S
  <1>9. \A i \in 0..n : i \in S
    BY <1>7, <1>8, Descend
  <1>10. \A i \in 0..n : P[i] # Failed
    BY <1>9 DEF S
  <1>11. ASSUME \A i \in 1..n : shape[i] # 0
         PROVE  /\ \A i \in 1..n : shape[i] \in Nat \ {0}
                /\ \A i \in 0..n : P[i] \in Nat \ {0}
                /\ \A i \in 1..n : P[i] = P[i - 1] * shape[i]
    <2> DEFINE R == {i \in 0..n : P[i] \in Nat \ {0}}
    <2>1. 0 \in R
      BY <1>1
    <2>2. ASSUME NEW i \in 1..n, P[i - 1] \in Nat \ {0}
          PROVE  P[i] \in Nat \ {0} /\ shape[i] \in Nat \ {0} /\ P[i] = P[i - 1] * shape[i]
      <3>1. P[i] # Failed /\ P[i] = Times(P[i - 1], shape[i]) /\ shape[i] # 0 /\ shape[i] \in Int
        BY <1>1, <1>10, <1>11
      <3>2. P[i - 1] \in Nat \union {Failed}
        BY <2>2
      <3>3. /\ shape[i] >= 1 /\ Times(P[i - 1], shape[i]) = P[i - 1] * shape[i]
            /\ P[i - 1] * shape[i] \in Nat \ {0}
        BY <2>2, <3>1, <3>2, TimesIs
      <3> QED BY <3>1, <3>3
    <2>3. \A i \in 1..n : i - 1 \in R => i \in R
      BY <2>2
    <2> HIDE DEF R
    <2>4. \A i \in 0..n : i \in R
      BY <2>1, <2>3, Climb
    <2>5. \A i \in 0..n : P[i] \in Nat \ {0}
      BY <2>4 DEF R
    <2>6. ASSUME NEW i \in 1..n PROVE shape[i] \in Nat \ {0} /\ P[i] = P[i - 1] * shape[i]
      <3>1. i - 1 \in 0..n
        OBVIOUS
      <3>2. P[i - 1] \in Nat \ {0}
        BY <2>5, <3>1
      <3> QED BY <2>2, <3>2
    <2> QED BY <2>5, <2>6
  <1>12. ASSUME NEW z \in 1..n, shape[z] = 0 PROVE P[n] = 0
    <2> DEFINE R == {i \in 0..n : i >= z => P[i] = 0}
    <2>1. 0 \in R
      OBVIOUS
    <2>2. \A i \in 1..n : i - 1 \in R => i \in R
      <3> SUFFICES ASSUME NEW i \in 1..n, i - 1 \in R, i >= z PROVE P[i] = 0
        OBVIOUS
      <3>1. P[i] = Times(P[i - 1], shape[i]) /\ shape[i] \in Int /\ i - 1 \in 0..n
        BY <1>1
      <3>2. P[i - 1] \in Nat \union {Failed} /\ P[i - 1] # Failed
        BY <1>6, <1>10, <3>1
      <3>3. CASE i = z
        BY <1>12, <3>1, <3>2, <3>3, TimesIs
      <3>4. CASE i > z
        <4>1. P[i - 1] = 0
          BY <3>4
        <4> QED BY <3>1, <3>2, <4>1, TimesIs
      <3> QED BY <3>3, <3>4
    <2> HIDE DEF R
    <2>3. \A i \in 0..n : i \in R
      BY <2>1, <2>2, Climb
    <2>4. n \in 0..n /\ n >= z
      OBVIOUS
    <2> QED BY <2>3, <2>4 DEF R
  <1> QED BY <1>2, <1>11, <1>12 DEF P

LEMMA DefaultStridesAre ==
  ASSUME NEW n \in Nat \ {0}, NEW shape \in [1..n -> Int], NEW elem \in Int
  PROVE  /\ DefaultStrides(shape, elem) \in [1..n -> Int]
         /\ DefaultStrides(shape, elem)[n] = elem
         /\ \A i \in 1..(n - 1) :
              DefaultStrides(shape, elem)[i] = Wrap(DefaultStrides(shape, elem)[i + 1] * shape[i + 1])
  <1> DEFINE Is(g, m) == g = [i \in m..n |-> IF i = n THEN elem ELSE Wrap(g[i + 1] * shape[i + 1])]
             S == {k \in 0..(n - 1) : \E g : Is(g, n - k)}
  <1>1. 0 \in S
    <2> DEFINE g == [i \in n..n |-> elem]
    <2>1. Is(g, n - 0)
      OBVIOUS
    <2> HIDE DEF g, Is
    <2>2. \E f : Is(f, n - 0)
      BY <2>1
    <2> QED BY <2>2
  <1>2. \A k \in 1..(n - 1) : k - 1 \in S => k \in S
    <2> SUFFICES ASSUME NEW k \in 1..(n - 1), NEW g, Is(g, n - (k - 1)) PROVE k \in S
      OBVIOUS
    <2> DEFINE m == n - k
               h == [i \in m..n |-> IF i > m THEN g[i] ELSE Wrap(g[m + 1] * shape[m + 1])]
    <2>1. m \in 1..(n - 1) /\ m + 1 = n - (k - 1)
      OBVIOUS
    <2> HIDE DEF m
    <2>2. g = [i \in (m + 1)..n |-> IF i = n THEN elem ELSE Wrap(g[i + 1] * shape[i + 1])]
      BY <2>1
    <2>3. \A i \in m..n : h[i] = IF i = n THEN elem ELSE Wrap(h[i + 1] * shape[i + 1])
      <3> SUFFICES ASSUME NEW i \in m..n
                   PROVE  h[i] = IF i = n THEN elem ELSE Wrap(h[i + 1] * shape[i + 1])
        OBVIOUS
      <3>1. CASE i > m
        <4>1. h[i] = g[i] /\ i \in (m + 1)..n
          BY <2>1, <3>1
        <4>2. i # n => i + 1 \in m..n /\ i + 1 > m
          BY <2>1, <3>1
        <4>3. i # n => h[i + 1] = g[i + 1]
          BY <4>2
        <4> QED BY <2>2, <4>1, <4>3
      <3>2. CASE i = m
        <4>1. m # n /\ m + 1 \in m..n /\ m + 1 > m /\ m \in m..n /\ ~(m > m)
          BY <2>1
        <4>2. h[m + 1] = g[m + 1]
          BY <4>1
        <4> QED BY <3>2, <4>1, <4>2
      <3>3. i > m \/ i = m
        BY <2>1
      <3> QED BY <3>1, <3>2, <3>3
    <2>4. Is(h, m)
      BY <2>3
    <2> HIDE DEF h, Is
    <2>5. \E f : Is(f, m)
      BY <2>4
    <2> QED BY <2>5 DEF m
  <1> HIDE DEF S
  <1>3. \A k \in 0..(n - 1) : k \in S
    <2>1. n - 1 \in Nat
      OBVIOUS
    <2> QED BY <1>1, <1>2, <2>1, Climb
  <1>4. \E g : Is(g, 1)
    <2>1. n - 1 \in 0..(n - 1) /\ n - (n - 1) = 1
      OBVIOUS
    <2>2. n - 1 \in S
      BY <1>3, <2>1
    <2> QED BY <2>1, <2>2 DEF S
  <1>5. Len(shape) = n /\ DOMAIN shape = 1..n
    BY LenIs
  <1> DEFINE D == DefaultStrides(shape, elem)
  <1>6. Is(D, 1)
    <2>1. D = CHOOSE g : Is(g, 1)
      BY <1>5, Zenon DEF DefaultStrides
    <2> HIDE DEF D, Is
    <2> QED BY <1>4, <2>1, Zenon
  <1> HIDE DEF D
  <1>7. /\ D[n] = elem
        /\ \A i \in 1..(n - 1) : D[i] = Wrap(D[i + 1] * shape[i + 1])
    BY <1>6
  <1> DEFINE R == {i \in 0..n : i > 0 => D[i] \in Int}
  <1>8. n \in R
    BY <1>7
  <1>9. \A i \in 0..(n - 1) : i + 1 \in R => i \in R
    <2> SUFFICES ASSUME NEW i \in 0..(n - 1), i + 1 \in R, i > 0 PROVE D[i] \in Int
      OBVIOUS
    <2>1. i \in 1..(n - 1) /\ i + 1 \in 1..n /\ D[i + 1] \in Int
      OBVIOUS
    <2>2. D[i + 1] * shape[i + 1] \in Int
      BY <2>1, TimesInt
    <2> QED BY <1>7, <2>1, <2>2, WrapIs
  <1> HIDE DEF R
  <1>10. \A i \in 0..n : i \in R
    BY <1>8, <1>9, Descend
  <1>11. \A i \in 1..n : D[i] \in Int
    BY <1>10 DEF R
  <1>12. D \in [1..n -> Int]
    BY <1>6, <1>11
  <1> QED BY <1>7, <1>12 DEF D

(* The strides of a dense table: with the products before them they make   *)
(* all the bytes, and the places of the last element add up to what lies   *)
(* before it.                                                              *)
LEMMA DenseStrides ==
  ASSUME NEW n \in Nat \ {0}, NEW shape \in [1..n -> Nat \ {0}], NEW elem \in Nat \ {0},
         ShapeProduct(shape) # Failed,
         ShapeProduct(shape) * elem <= MaxInt
  PROVE  /\ ShapeProduct(shape) \in Nat \ {0}
         /\ DefaultStrides(shape, elem) \in [1..n -> Nat \ {0}]
         /\ DefaultStrides(shape, elem)[n] = elem
         /\ \A i \in 1..(n - 1) :
              DefaultStrides(shape, elem)[i] = DefaultStrides(shape, elem)[i + 1] * shape[i + 1]
         /\ DefaultStrides(shape, elem)[1] * shape[1] = ShapeProduct(shape) * elem
  <1> DEFINE P == Products(shape)
             D == DefaultStrides(shape, elem)
             all == ShapeProduct(shape) * elem
  <1>1. shape \in [1..n -> Int] /\ \A i \in 1..n : shape[i] # 0
    OBVIOUS
  <1>2. /\ Len(shape) = n /\ P[0] = 1
        /\ \A i \in 0..n : P[i] \in Nat \ {0}
        /\ \A i \in 1..n : P[i] = P[i - 1] * shape[i]
    BY <1>1, ProductsAre, Counted
  <1>3. ShapeProduct(shape) = P[n] /\ P[n] \in Nat \ {0}
    BY <1>2 DEF ShapeProduct
  <1>4. /\ D \in [1..n -> Int] /\ D[n] = elem
        /\ \A i \in 1..(n - 1) : D[i] = Wrap(D[i + 1] * shape[i + 1])
    <2>1. shape \in [1..n -> Int]
      BY <1>1
    <2>2. elem \in Int
      OBVIOUS
    <2>3. DefaultStrides(shape, elem) \in [1..n -> Int]
      BY <2>1, <2>2, DefaultStridesAre
    <2>4. DefaultStrides(shape, elem)[n] = elem
      BY <2>1, <2>2, DefaultStridesAre
    <2>5. ASSUME NEW i \in 1..(n - 1)
          PROVE  D[i] = Wrap(D[i + 1] * shape[i + 1])
      BY <2>1, <2>2, DefaultStridesAre
    <2> QED BY <2>3, <2>4, <2>5
  <1>5. all = P[n] * elem /\ all <= MaxInt /\ all \in Nat \ {0}
    BY <1>3
  <1> HIDE DEF P, D, all
  <1> DEFINE S == {i \in 0..n : i > 0 => D[i] \in Nat \ {0} /\ D[i] * P[i] = all}
  <1>6. n \in S
    BY <1>3, <1>4, <1>5
  <1>7. ASSUME NEW i \in 1..(n - 1), D[i + 1] \in Nat \ {0}, D[i + 1] * P[i + 1] = all
        PROVE  /\ D[i] \in Nat \ {0} /\ D[i] * P[i] = all /\ D[i] = D[i + 1] * shape[i + 1]
    <2>1. i \in 0..n /\ i + 1 \in 1..n /\ (i + 1) - 1 = i /\ i + 1 \in 0..n
      OBVIOUS
    <2>2. P[i + 1] = P[i] * shape[i + 1] /\ P[i] \in Nat \ {0} /\ shape[i + 1] \in Nat \ {0}
      BY <1>2, <2>1
    <2> DEFINE d == D[i + 1]  p == P[i]  s == shape[i + 1]
    <2>3. d \in Nat \ {0} /\ p \in Nat \ {0} /\ s \in Nat \ {0} /\ d * (p * s) = all
      BY <1>7, <2>2
    <2>4. D[i] = Wrap(d * s)
      BY <1>4
    <2> HIDE DEF d, p, s
    <2>5. d * s \in Nat \ {0} /\ (d * s) * p = all
      BY <2>3
    <2>6. (d * s) * 1 <= (d * s) * p
      BY <2>3, <2>5, TimesMono
    <2>7. d * s <= MaxInt
      <3> DEFINE e == d * s
      <3>1. e \in Nat \ {0} /\ e * 1 <= all
        BY <2>5, <2>6
      <3> HIDE DEF e
      <3>2. e <= all
        BY <1>5, <3>1
      <3> QED BY <1>5, <3>1, <3>2, WidthAssumption DEF e
    <2>8. d * s \in Int64
      BY <2>5, <2>7, WidthAssumption DEF Int64
    <2>9. Wrap(d * s) = d * s
      BY <2>5, <2>8, WrapIs
    <2>10. D[i] = d * s
      BY <2>4, <2>9
    <2> QED BY <2>5, <2>10 DEF d, p, s
  <1>8. \A i \in 0..(n - 1) : i + 1 \in S => i \in S
    BY <1>7
  <1> HIDE DEF S
  <1>9. \A i \in 0..n : i \in S
    BY <1>6, <1>8, Descend
  <1>10. \A i \in 1..n : D[i] \in Nat \ {0} /\ D[i] * P[i] = all
    BY <1>9 DEF S
  <1>11. \A i \in 1..(n - 1) : D[i] = D[i + 1] * shape[i + 1]
    <2> SUFFICES ASSUME NEW i \in 1..(n - 1) PROVE D[i] = D[i + 1] * shape[i + 1]
      OBVIOUS
    <2>1. i + 1 \in 1..n
      OBVIOUS
    <2> QED BY <1>7, <1>10, <2>1
  <1>12. D[1] * shape[1] = all
    <2>1. P[1] = 1 * shape[1]
      BY <1>2
    <2>2. shape[1] \in Nat \ {0} /\ 1 \in 1..n
      OBVIOUS
    <2>3. P[1] = shape[1]
      BY <2>1, <2>2
    <2> QED BY <1>10, <2>2, <2>3
  <1>13. D \in [1..n -> Nat \ {0}]
    BY <1>4, <1>10
  <1> QED BY <1>3, <1>4, <1>11, <1>12, <1>13 DEF D, all

(* What the first dimensions of a dense table reach forward.               *)
LEMMA DenseReach ==
  ASSUME NEW n \in Nat \ {0}, NEW shape \in [1..n -> Nat \ {0}], NEW elem \in Nat \ {0},
         ShapeProduct(shape) # Failed,
         ShapeProduct(shape) * elem <= MaxInt
  PROVE  Up(shape, DefaultStrides(shape, elem))[n] = ShapeProduct(shape) * elem - elem
  <1> DEFINE D == DefaultStrides(shape, elem)
             all == ShapeProduct(shape) * elem
             terms == [i \in 1..n |-> IF D[i] > 0 THEN (shape[i] - 1) * D[i] ELSE 0]
             U == Sums(terms)
  <1>1. /\ ShapeProduct(shape) \in Nat \ {0} /\ D \in [1..n -> Nat \ {0}] /\ D[n] = elem
        /\ \A i \in 1..(n - 1) : D[i] = D[i + 1] * shape[i + 1]
        /\ D[1] * shape[1] = all
    BY DenseStrides, SMTT(30)
  <1>2. DOMAIN shape = 1..n
    OBVIOUS
  <1>3. Up(shape, D) = U
    BY <1>2 DEF Up
  <1>4. all \in Int
    BY <1>1
  <1> HIDE DEF D, all
  <1>5. \A i \in 1..n : (shape[i] - 1) * D[i] \in Int /\ D[i] > 0
    <2> SUFFICES ASSUME NEW i \in 1..n PROVE (shape[i] - 1) * D[i] \in Int /\ D[i] > 0
      OBVIOUS
    <2>1. shape[i] - 1 \in Int /\ D[i] \in Nat \ {0}
      BY <1>1
    <2> QED BY <2>1, TimesInt
  <1>6. terms \in [1..n -> Int] /\ \A i \in 1..n : terms[i] = (shape[i] - 1) * D[i]
    BY <1>5
  <1> HIDE DEF terms
  <1>7. /\ U[0] = 0 /\ U \in [0..n -> Int]
        /\ \A i \in 1..n : U[i] = U[i - 1] + terms[i]
    BY <1>6, SumsAre
  <1> HIDE DEF U
  <1> DEFINE S == {i \in 0..n : i > 0 => U[i] = all - D[i]}
  <1>8. 0 \in S
    OBVIOUS
  <1>9. \A i \in 1..n : i - 1 \in S => i \in S
    <2> SUFFICES ASSUME NEW i \in 1..n, i - 1 \in S PROVE U[i] = all - D[i]
      OBVIOUS
    <2> DEFINE s == shape[i]  d == D[i]
    <2>1. s \in Nat \ {0} /\ d \in Nat \ {0}
      BY <1>1
    <2>2. U[i] = U[i - 1] + (s - 1) * d
      BY <1>6, <1>7
    <2>3. i = 1 => U[i - 1] = 0 /\ d * s = all
      BY <1>1, <1>7
    <2>4. i > 1 => U[i - 1] = all - d * s
      <3> SUFFICES ASSUME i > 1 PROVE U[i - 1] = all - d * s
        OBVIOUS
      <3>1. i - 1 \in 1..(n - 1) /\ (i - 1) + 1 = i /\ i - 1 > 0
        OBVIOUS
      <3>2. D[i - 1] = d * s
        BY <1>1, <3>1
      <3>3. U[i - 1] = all - D[i - 1]
        BY <3>1
      <3> QED BY <3>2, <3>3
    <2> HIDE DEF s, d
    <2>5. (s - 1) * d = d * s - d /\ d * s \in Int
      BY <2>1
    <2>6. U[i] = all - d
      <3>1. CASE i = 1
        BY <1>4, <2>1, <2>2, <2>3, <2>5, <3>1
      <3>2. CASE i > 1
        BY <1>4, <2>1, <2>2, <2>4, <2>5, <3>2
      <3> QED BY <3>1, <3>2
    <2> QED BY <2>6 DEF d
  <1> HIDE DEF S
  <1>10. \A i \in 0..n : i \in S
    BY <1>8, <1>9, Climb
  <1>11. U[n] = all - D[n]
    BY <1>10 DEF S
  <1> QED BY <1>1, <1>3, <1>11 DEF D, all

----------------------------------------------------------------------------
(* The bounds of a layout                                                  *)

(* How far a layout reaches to both sides, dimension by dimension.         *)
LEMMA Reached ==
  ASSUME NEW n \in Nat \ {0}, NEW shape \in [1..n -> Nat \ {0}], NEW strides \in [1..n -> Int]
  PROVE  /\ Up(shape, strides) \in [0..n -> Int] /\ Down(shape, strides) \in [0..n -> Int]
         /\ Up(shape, strides)[0] = 0 /\ Down(shape, strides)[0] = 0
         /\ \A i \in 1..n :
              /\ (shape[i] - 1) * strides[i] \in Int
              /\ Up(shape, strides)[i] = Up(shape, strides)[i - 1]
                   + (IF strides[i] > 0 THEN (shape[i] - 1) * strides[i] ELSE 0)
              /\ Down(shape, strides)[i] = Down(shape, strides)[i - 1]
                   + (IF strides[i] < 0 THEN (shape[i] - 1) * strides[i] ELSE 0)
         /\ \A i \in 0..n :
              /\ 0 <= Up(shape, strides)[i] /\ Up(shape, strides)[i] <= Up(shape, strides)[n]
              /\ Down(shape, strides)[i] <= 0 /\ Down(shape, strides)[n] <= Down(shape, strides)[i]
  <1> DEFINE ups == [i \in 1..n |-> IF strides[i] > 0 THEN (shape[i] - 1) * strides[i] ELSE 0]
             downs == [i \in 1..n |-> IF strides[i] < 0 THEN (shape[i] - 1) * strides[i] ELSE 0]
  <1>1. DOMAIN shape = 1..n
    OBVIOUS
  <1>2. Up(shape, strides) = Sums(ups) /\ Down(shape, strides) = Sums(downs)
    BY <1>1 DEF Up, Down
  <1>3. ASSUME NEW i \in 1..n
        PROVE  /\ (shape[i] - 1) * strides[i] \in Int
               /\ strides[i] > 0 => (shape[i] - 1) * strides[i] >= 0
               /\ strides[i] < 0 => (shape[i] - 1) * strides[i] <= 0
    <2> DEFINE s == shape[i] - 1  d == strides[i]
    <2>1. s \in Nat /\ d \in Int
      OBVIOUS
    <2> HIDE DEF s, d
    <2>2. s * d \in Int /\ (d > 0 => s * d >= 0) /\ (d < 0 => s * d <= 0)
      BY <2>1
    <2> QED BY <2>2 DEF s, d
  <1>4. /\ ups \in [1..n -> Int] /\ downs \in [1..n -> Int]
        /\ \A i \in 1..n : ups[i] >= 0 /\ downs[i] <= 0
    BY <1>3
  <1>5. \A i \in 1..n : /\ ups[i] = IF strides[i] > 0 THEN (shape[i] - 1) * strides[i] ELSE 0
                        /\ downs[i] = IF strides[i] < 0 THEN (shape[i] - 1) * strides[i] ELSE 0
    OBVIOUS
  <1> HIDE DEF ups, downs
  <1>6. /\ Sums(ups)[0] = 0 /\ Sums(ups) \in [0..n -> Int]
        /\ \A i \in 1..n : Sums(ups)[i] = Sums(ups)[i - 1] + ups[i]
    BY <1>4, SumsAre
  <1>7. /\ Sums(downs)[0] = 0 /\ Sums(downs) \in [0..n -> Int]
        /\ \A i \in 1..n : Sums(downs)[i] = Sums(downs)[i - 1] + downs[i]
    BY <1>4, SumsAre
  <1>8. \A i \in 0..n : 0 <= Sums(ups)[i] /\ Sums(ups)[i] <= Sums(ups)[n]
    BY <1>4, SumsRise
  <1>9. \A i \in 0..n : Sums(downs)[i] <= 0 /\ Sums(downs)[n] <= Sums(downs)[i]
    BY <1>4, SumsFall
  <1> QED BY <1>2, <1>3, <1>5, <1>6, <1>7, <1>8, <1>9

(* The tests before each addition refuse exactly what leaves the int64,    *)
(* and a stride of 0.                                                      *)
LEMMA BoundsAre ==
  ASSUME NEW n \in Nat \ {0}, NEW shape \in [1..n -> Nat \ {0}], NEW strides \in [1..n -> Int],
         NEW elem \in 1..MaxInt
  PROVE  LET b == StridedBounds(shape, strides, elem)
         IN  /\ b.min = Down(shape, strides)[n] /\ b.max = elem + Up(shape, strides)[n]
             /\ b.ok <=> /\ \A i \in 1..n : strides[i] # 0
                         /\ elem + Up(shape, strides)[n] <= MaxInt
                         /\ Down(shape, strides)[n] >= -MaxInt - 1
  <1> DEFINE U == Up(shape, strides)
             L == Down(shape, strides)
             steps(i) == shape[i] - 1
             fits(i) == /\ strides[i] # 0
                        /\ steps(i) > 0 /\ strides[i] > 0 =>
                             strides[i] <= (MaxInt - (elem + U[i - 1])) \div steps(i)
                        /\ steps(i) > 0 /\ strides[i] < 0 =>
                             /\ strides[i] >= -((MaxInt + 1) \div steps(i))
                             /\ L[i - 1] >= -MaxInt - 1 - steps(i) * strides[i]
             b == StridedBounds(shape, strides, elem)
  <1>1. DOMAIN shape = 1..n /\ Len(shape) = n /\ ~\E i \in 1..n : shape[i] = 0
    BY LenIs
  <1>2. /\ b.min = L[n] /\ b.max = elem + U[n]
        /\ b.ok <=> (\A i \in 1..n : fits(i)) /\ L[n] <= elem + U[n]
    BY <1>1 DEF StridedBounds
  <1>3. /\ U \in [0..n -> Int] /\ L \in [0..n -> Int] /\ U[0] = 0 /\ L[0] = 0
        /\ \A i \in 1..n :
             /\ steps(i) * strides[i] \in Int
             /\ U[i] = U[i - 1] + (IF strides[i] > 0 THEN steps(i) * strides[i] ELSE 0)
             /\ L[i] = L[i - 1] + (IF strides[i] < 0 THEN steps(i) * strides[i] ELSE 0)
        /\ \A i \in 0..n : 0 <= U[i] /\ U[i] <= U[n] /\ L[i] <= 0 /\ L[n] <= L[i]
    BY Reached
  <1>4. MaxInt \in Nat \ {0}
    BY WidthAssumption
  <1> HIDE DEF U, L, b
  <1>5. ASSUME NEW i \in 1..n, strides[i] # 0
        PROVE  /\ i \in 0..n /\ i - 1 \in 0..n /\ U[i] \in Int /\ U[i - 1] \in Int /\ L[i] \in Int
               /\ L[i - 1] \in Int /\ shape[i] \in Nat \ {0} /\ strides[i] \in Int
               /\ steps(i) \in Nat
               /\ steps(i) = 0 => steps(i) * strides[i] = 0
    <2>1. i \in 0..n /\ i - 1 \in 0..n /\ shape[i] \in Nat \ {0} /\ strides[i] \in Int
      OBVIOUS
    <2>2. U[i] \in Int /\ U[i - 1] \in Int /\ L[i] \in Int /\ L[i - 1] \in Int
      BY <1>3, <2>1
    <2> DEFINE s == steps(i)  d == strides[i]
    <2>3. s \in Nat /\ d \in Int
      BY <2>1
    <2> HIDE DEF s, d
    <2>4. s = 0 => s * d = 0
      BY <2>3
    <2> QED BY <2>1, <2>2, <2>3, <2>4 DEF s, d
  <1>6. ASSUME NEW i \in 1..n, steps(i) > 0, strides[i] > 0
        PROVE  strides[i] <= (MaxInt - (elem + U[i - 1])) \div steps(i) <=> elem + U[i] <= MaxInt
    <2>0. strides[i] # 0
      BY <1>6
    <2>1. /\ U[i - 1] \in Int /\ U[i] \in Int /\ steps(i) \in Nat \ {0} /\ strides[i] \in Int
      BY <1>5, <1>6, <2>0
    <2> DEFINE r == MaxInt - (elem + U[i - 1])  s == steps(i)  d == strides[i]
    <2>2. r \in Int /\ s \in Nat \ {0} /\ d \in Int
      BY <1>4, <2>1, SMTT(30)
    <2>3. U[i] = U[i - 1] + s * d
      BY <1>3, <1>6
    <2>4. s * d \in Int
      BY <1>3
    <2> HIDE DEF r, s, d
    <2>5. d <= r \div s <=> d * s <= r
      BY <2>2, DivAtMost
    <2>6. d * s = s * d
      BY <2>2
    <2>7. s * d <= r <=> elem + U[i] <= MaxInt
      <3> DEFINE p == s * d  u == U[i - 1]  v == U[i]
      <3>1. p \in Int /\ u \in Int /\ v \in Int /\ v = u + p /\ elem \in Int /\ r = MaxInt - (elem + u)
        BY <2>1, <2>3, <2>4 DEF r
      <3> HIDE DEF p, u, v
      <3>2. p <= r <=> elem + v <= MaxInt
        BY <1>4, <3>1
      <3> QED BY <3>2 DEF p, v
    <2> QED BY <2>5, <2>6, <2>7 DEF r, s, d
  <1>7. ASSUME NEW i \in 1..n, steps(i) > 0, strides[i] < 0
        PROVE  /\ L[i - 1] >= -MaxInt - 1 - steps(i) * strides[i] <=> L[i] >= -MaxInt - 1
               /\ L[i] >= -MaxInt - 1 => strides[i] >= -((MaxInt + 1) \div steps(i))
    <2>0. strides[i] # 0
      BY <1>7
    <2>1. /\ L[i - 1] \in Int /\ L[i] \in Int /\ steps(i) \in Nat \ {0} /\ strides[i] \in Int
          /\ i - 1 \in 0..n
      BY <1>5, <1>7, <2>0
    <2>11. L[i - 1] <= 0
      BY <1>3, <2>1
    <2> DEFINE m == MaxInt + 1  s == steps(i)  d == strides[i]
    <2>2. m \in Int /\ s \in Nat \ {0} /\ d \in Int /\ -d \in Int
      BY <1>4, <2>1
    <2>3. L[i] = L[i - 1] + s * d /\ s * d \in Int
      BY <1>3, <1>7
    <2> HIDE DEF m, s, d
    <2>4. -d <= m \div s <=> (-d) * s <= m
      BY <2>2, DivAtMost
    <2>5. (-d) * s = -(s * d) /\ m \div s \in Int
      BY <2>2, DivMod
    <2>6. L[i] >= -m => (-d) * s <= m
      <3> DEFINE p == s * d  u == L[i - 1]  v == L[i]
      <3>1. p \in Int /\ u \in Int /\ v \in Int /\ v = u + p /\ u <= 0
        BY <2>1, <2>3, <2>11
      <3> HIDE DEF p, u, v
      <3>2. v >= -m => -p <= m
        BY <2>2, <3>1
      <3> QED BY <2>5, <3>2 DEF p, v
    <2>7. L[i] >= -m => d >= -(m \div s)
      BY <2>2, <2>4, <2>5, <2>6
    <2>8. -m = -MaxInt - 1
      BY <1>4 DEF m
    <2>9. L[i - 1] >= -MaxInt - 1 - s * d <=> L[i] >= -MaxInt - 1
      BY <1>4, <2>1, <2>3, SMTT(30)
    <2> QED BY <2>7, <2>8, <2>9 DEF m, s, d
  <1>8. ASSUME \A i \in 1..n : fits(i)
        PROVE  elem + U[n] <= MaxInt /\ L[n] >= -MaxInt - 1
    <2> DEFINE S == {i \in 0..n : elem + U[i] <= MaxInt /\ L[i] >= -MaxInt - 1}
    <2>0. elem + 0 <= MaxInt /\ 0 >= -MaxInt - 1 /\ 0 \in 0..n
      BY <1>4
    <2>1. 0 \in S
      BY <1>3, <2>0
    <2>2. \A i \in 1..n : i - 1 \in S => i \in S
      <3> SUFFICES ASSUME NEW i \in 1..n, i - 1 \in S
                   PROVE  elem + U[i] <= MaxInt /\ L[i] >= -MaxInt - 1
        OBVIOUS
      <3>1. fits(i) /\ strides[i] # 0 /\ elem + U[i - 1] <= MaxInt /\ L[i - 1] >= -MaxInt - 1
        BY <1>8
      <3>2. /\ U[i] \in Int /\ U[i - 1] \in Int /\ L[i] \in Int /\ L[i - 1] \in Int
            /\ strides[i] \in Int /\ steps(i) \in Nat /\ (steps(i) = 0 => steps(i) * strides[i] = 0)
        BY <1>5, <3>1
      <3>3. /\ U[i] = U[i - 1] + (IF strides[i] > 0 THEN steps(i) * strides[i] ELSE 0)
            /\ L[i] = L[i - 1] + (IF strides[i] < 0 THEN steps(i) * strides[i] ELSE 0)
        BY <1>3
      <3>4. CASE steps(i) = 0
        BY <3>1, <3>2, <3>3, <3>4
      <3>5. CASE steps(i) > 0 /\ strides[i] > 0
        <4>1. elem + U[i] <= MaxInt
          BY <1>6, <3>1, <3>5
        <4>2. L[i] = L[i - 1]
          <5>1. ~(strides[i] < 0)
            BY <3>2, <3>5
          <5>2. L[i] = L[i - 1] + 0
            BY <3>3, <5>1
          <5> QED BY <3>2, <5>2
        <4> QED BY <3>1, <4>1, <4>2
      <3>6. CASE steps(i) > 0 /\ strides[i] < 0
        <4>1. L[i] >= -MaxInt - 1
          BY <1>7, <3>1, <3>6
        <4>2. U[i] = U[i - 1]
          <5>1. ~(strides[i] > 0)
            BY <3>2, <3>6
          <5>2. U[i] = U[i - 1] + 0
            BY <3>3, <5>1
          <5> QED BY <3>2, <5>2
        <4> QED BY <3>1, <4>1, <4>2
      <3>7. steps(i) = 0 \/ (steps(i) > 0 /\ strides[i] > 0) \/ (steps(i) > 0 /\ strides[i] < 0)
        <4> HIDE DEF steps
        <4> QED BY <3>1, <3>2
      <3> QED BY <3>4, <3>5, <3>6, <3>7
    <2> HIDE DEF S
    <2>3. \A i \in 0..n : i \in S
      BY <2>1, <2>2, Climb
    <2> QED BY <2>3 DEF S
  <1>9. ASSUME elem + U[n] <= MaxInt, L[n] >= -MaxInt - 1, NEW i \in 1..n, strides[i] # 0
        PROVE  fits(i)
    <2>1. /\ i \in 0..n /\ U[i] \in Int /\ L[i] \in Int /\ U[n] \in Int /\ L[n] \in Int
      BY <1>3, <1>5, <1>9
    <2>2. U[i] <= U[n] /\ L[n] <= L[i]
      BY <1>3, <2>1
    <2>3. elem + U[i] <= MaxInt /\ L[i] >= -MaxInt - 1
      <3> DEFINE u == U[i]  v == U[n]  k == L[i]  l == L[n]
      <3>1. /\ u \in Int /\ v \in Int /\ k \in Int /\ l \in Int /\ u <= v /\ l <= k
            /\ elem + v <= MaxInt /\ l >= -MaxInt - 1 /\ elem \in Int
        BY <1>9, <2>1, <2>2
      <3> HIDE DEF u, v, k, l
      <3>2. elem + u <= MaxInt /\ k >= -MaxInt - 1
        BY <1>4, <3>1
      <3> QED BY <3>2 DEF u, k
    <2> QED BY <1>6, <1>7, <1>9, <2>3
  <1>10. L[n] <= elem + U[n]
    <2>1. n \in 0..n /\ L[n] \in Int /\ U[n] \in Int /\ 0 <= U[n] /\ L[n] <= 0
      BY <1>3
    <2> QED BY <2>1
  <1>11. (\A i \in 1..n : fits(i)) <=>
           (\A i \in 1..n : strides[i] # 0) /\ elem + U[n] <= MaxInt /\ L[n] >= -MaxInt - 1
    BY <1>8, <1>9
  <1> QED BY <1>2, <1>10, <1>11 DEF U, L, b

(* The places of a table.                                                  *)
LEMMA IndexesAre ==
  ASSUME NEW n \in Nat \ {0}, NEW shape \in [1..n -> Int]
  PROVE  /\ \A index : index \in Indexes(shape)
               <=> index \in [1..n -> Nat \ {0}] /\ \A i \in 1..n : index[i] <= shape[i]
         /\ (\E i \in 1..n : shape[i] = 0) => Indexes(shape) = {}
         /\ shape \in [1..n -> Nat \ {0}] => Indexes(shape) # {}
  <1>1. DOMAIN shape = 1..n
    OBVIOUS
  <1> DEFINE U == UNION {1..shape[i] : i \in 1..n}
  <1>2. Indexes(shape) = {index \in [1..n -> U] : \A i \in 1..n : index[i] <= shape[i]}
    BY <1>1 DEF Indexes
  <1>3. \A i \in 1..n : \A x \in Nat \ {0} : x <= shape[i] => x \in U
    <2> SUFFICES ASSUME NEW i \in 1..n, NEW x \in Nat \ {0}, x <= shape[i] PROVE x \in U
      OBVIOUS
    <2>1. x \in 1..shape[i]
      OBVIOUS
    <2> QED BY <2>1
  <1>4. \A x \in U : x \in Nat \ {0}
    <2> SUFFICES ASSUME NEW x \in U PROVE x \in Nat \ {0}
      OBVIOUS
    <2>1. PICK i \in 1..n : x \in 1..shape[i]
      OBVIOUS
    <2> QED BY <2>1
  <1> HIDE DEF U
  <1>5. \A index : index \in Indexes(shape)
          <=> index \in [1..n -> Nat \ {0}] /\ \A i \in 1..n : index[i] <= shape[i]
    <2> SUFFICES ASSUME NEW index
                 PROVE  index \in Indexes(shape)
                          <=> index \in [1..n -> Nat \ {0}] /\ \A i \in 1..n : index[i] <= shape[i]
      OBVIOUS
    <2>1. ASSUME index \in Indexes(shape)
          PROVE  index \in [1..n -> Nat \ {0}] /\ \A i \in 1..n : index[i] <= shape[i]
      BY <1>2, <1>4, <2>1
    <2>2. ASSUME index \in [1..n -> Nat \ {0}], \A i \in 1..n : index[i] <= shape[i]
          PROVE  index \in Indexes(shape)
      <3>1. \A i \in 1..n : index[i] \in U
        BY <1>3, <2>2
      <3>2. index \in [1..n -> U]
        BY <2>2, <3>1
      <3> QED BY <1>2, <2>2, <3>2
    <2> QED BY <2>1, <2>2
  <1>6. ASSUME NEW z \in 1..n, shape[z] = 0 PROVE Indexes(shape) = {}
    <2> SUFFICES ASSUME NEW index, index \in Indexes(shape) PROVE FALSE
      OBVIOUS
    <2>1. index[z] \in Nat \ {0} /\ index[z] <= shape[z]
      BY <1>5
    <2> QED BY <1>6, <2>1
  <1>7. ASSUME shape \in [1..n -> Nat \ {0}] PROVE Indexes(shape) # {}
    <2> DEFINE one == [i \in 1..n |-> 1]
    <2>1. one \in [1..n -> Nat \ {0}] /\ \A i \in 1..n : one[i] <= shape[i]
      BY <1>7
    <2> HIDE DEF one
    <2>2. one \in Indexes(shape)
      BY <1>5, <2>1
    <2> QED BY <2>2
  <1> QED BY <1>5, <1>6, <1>7

MovesLaw(n, layout, index) ==
  /\ Moves(layout, index) = Sums([i \in 1..n |-> (index[i] - 1) * layout.strides[i]])
  /\ [i \in 1..n |-> (index[i] - 1) * layout.strides[i]] \in [1..n -> Int]
  /\ Moves(layout, index) \in [0..n -> Int]
  /\ Moves(layout, index)[0] = 0
  /\ \A i \in 1..n : Moves(layout, index)[i]
                       = Moves(layout, index)[i - 1] + (index[i] - 1) * layout.strides[i]
  /\ At(layout, index) = layout.offset + Moves(layout, index)[n]

LEMMA MovesAre ==
  ASSUME NEW n \in Nat \ {0}, NEW layout, layout.shape \in [1..n -> Int],
         layout.strides \in [1..n -> Int], NEW index \in [1..n -> Nat \ {0}]
  PROVE  MovesLaw(n, layout, index)
  <1> DEFINE terms == [i \in 1..n |-> (index[i] - 1) * layout.strides[i]]
  <1>1. DOMAIN layout.shape = 1..n /\ Len(layout.shape) = n
    <2> DEFINE shape == layout.shape
    <2>1. shape \in [1..n -> Int]
      OBVIOUS
    <2> HIDE DEF shape
    <2>2. shape = [i \in 1..n |-> shape[i]]
      BY <2>1
    <2>3. DOMAIN shape = 1..n /\ Len(shape) = n
      BY <2>2, LenIs
    <2> QED BY <2>3 DEF shape
  <1>2. Moves(layout, index) = Sums(terms)
    BY <1>1 DEF Moves
  <1>3. \A i \in 1..n : (index[i] - 1) * layout.strides[i] \in Int
    <2> SUFFICES ASSUME NEW i \in 1..n PROVE (index[i] - 1) * layout.strides[i] \in Int
      OBVIOUS
    <2>1. index[i] - 1 \in Int /\ layout.strides[i] \in Int
      OBVIOUS
    <2> QED BY <2>1, TimesInt
  <1>4. terms \in [1..n -> Int] /\ \A i \in 1..n : terms[i] = (index[i] - 1) * layout.strides[i]
    BY <1>3
  <1> HIDE DEF terms
  <1>5. /\ Sums(terms)[0] = 0 /\ Sums(terms) \in [0..n -> Int]
        /\ \A i \in 1..n : Sums(terms)[i] = Sums(terms)[i - 1] + terms[i]
    BY <1>4, SumsAre
  <1>6. At(layout, index) = layout.offset + Moves(layout, index)[n]
    BY <1>1 DEF At
  <1> QED BY <1>2, <1>4, <1>5, <1>6 DEF terms, MovesLaw

(* The bounds are reached and not passed.                                  *)
Extent(layout, up, down, n) ==
  /\ \A index \in Indexes(layout.shape) :
       Moves(layout, index)[n] <= up /\ down <= Moves(layout, index)[n]
  /\ \E index \in Indexes(layout.shape) : Moves(layout, index)[n] = up
  /\ \E index \in Indexes(layout.shape) : Moves(layout, index)[n] = down

LEMMA Hull ==
  ASSUME NEW n \in Nat \ {0}, NEW layout, layout.shape \in [1..n -> Nat \ {0}],
         layout.strides \in [1..n -> Int]
  PROVE  Extent(layout, Up(layout.shape, layout.strides)[n],
                Down(layout.shape, layout.strides)[n], n)
  <1> DEFINE shape == layout.shape  by == layout.strides
             ups == [i \in 1..n |-> IF by[i] > 0 THEN (shape[i] - 1) * by[i] ELSE 0]
             downs == [i \in 1..n |-> IF by[i] < 0 THEN (shape[i] - 1) * by[i] ELSE 0]
             terms(index) == [i \in 1..n |-> (index[i] - 1) * by[i]]
  <1>1. shape \in [1..n -> Nat \ {0}] /\ shape \in [1..n -> Int] /\ by \in [1..n -> Int]
    OBVIOUS
  <1>2. ASSUME NEW index \in Indexes(shape)
        PROVE  /\ index \in [1..n -> Nat \ {0}] /\ (\A i \in 1..n : index[i] <= shape[i])
               /\ Moves(layout, index) = Sums(terms(index)) /\ terms(index) \in [1..n -> Int]
    <2>1. index \in [1..n -> Nat \ {0}] /\ \A i \in 1..n : index[i] <= shape[i]
      BY <1>1, IndexesAre
    <2>2. layout.shape \in [1..n -> Int]
      OBVIOUS
    <2>3. index \in [1..n -> Nat \ {0}]
      BY <2>1
    <2>4. Moves(layout, index) = Sums([i \in 1..n |-> (index[i] - 1) * layout.strides[i]])
      <3>1. DOMAIN layout.shape = 1..n
        OBVIOUS
      <3> QED BY <3>1 DEF Moves
    <2>5. [i \in 1..n |-> (index[i] - 1) * layout.strides[i]] \in [1..n -> Int]
      BY <2>2, <2>3, MovesAre DEF MovesLaw
    <2> QED BY <2>1, <2>4, <2>5
  <1>3. DOMAIN shape = 1..n
    BY <1>1
  <1>4. Up(shape, by) = Sums(ups) /\ Down(shape, by) = Sums(downs)
    BY <1>3 DEF Up, Down
  <1> HIDE DEF shape, by
  <1>5. ASSUME NEW i \in 1..n, NEW x \in Nat \ {0}, x <= shape[i]
        PROVE  /\ (x - 1) * by[i] \in Int
               /\ (x - 1) * by[i] <= ups[i]
               /\ downs[i] <= (x - 1) * by[i]
               /\ ups[i] \in Int /\ downs[i] \in Int
               /\ x = 1 => (x - 1) * by[i] = 0
    <2> DEFINE s == shape[i] - 1  d == by[i]  y == x - 1
    <2>0. shape[i] \in Nat \ {0} /\ by[i] \in Int
      BY <1>1
    <2>1. s \in Nat /\ d \in Int /\ y \in Nat /\ y <= s
      BY <1>5, <2>0
    <2>2. /\ ups[i] = IF d > 0 THEN s * d ELSE 0
          /\ downs[i] = IF d < 0 THEN s * d ELSE 0
      OBVIOUS
    <2> HIDE DEF s, d, y, ups, downs
    <2>3. y * d \in Int /\ s * d \in Int /\ (y = 0 => y * d = 0)
      BY <2>1
    <2>4. CASE d > 0
      <3>1. y * d <= s * d /\ 0 * d <= y * d
        BY <2>1, <2>4, TimesMono
      <3>2. 0 * d = 0
        BY <2>1
      <3>3. 0 <= y * d
        BY <2>3, <3>1, <3>2
      <3> QED BY <2>1, <2>2, <2>3, <2>4, <3>1, <3>3 DEF y, d
    <2>5. CASE d < 0
      <3>1. y * (-d) <= s * (-d) /\ 0 * (-d) <= y * (-d)
        BY <2>1, <2>5, TimesMono
      <3>2. y * (-d) = -(y * d) /\ s * (-d) = -(s * d) /\ 0 * (-d) = 0
        BY <2>1
      <3>3. s * d <= y * d /\ y * d <= 0
        BY <2>3, <3>1, <3>2
      <3> QED BY <2>1, <2>2, <2>3, <2>5, <3>3 DEF y, d
    <2>6. CASE d = 0
      <3>1. y * d = 0
        BY <2>1, <2>6
      <3> QED BY <2>2, <2>6, <3>1 DEF y, d
    <2> QED BY <2>1, <2>4, <2>5, <2>6
  <1>6. ups \in [1..n -> Int] /\ downs \in [1..n -> Int]
    <2>1. ASSUME NEW i \in 1..n PROVE ups[i] \in Int /\ downs[i] \in Int
      <3>1. 1 \in Nat \ {0} /\ 1 <= shape[i]
        BY <1>1
      <3> QED BY <1>5, <3>1
    <2>2. ups = [i \in 1..n |-> ups[i]] /\ downs = [i \in 1..n |-> downs[i]]
      OBVIOUS
    <2> HIDE DEF ups, downs
    <2> QED BY <2>1, <2>2
  <1>7. ASSUME NEW index \in Indexes(shape)
        PROVE  Moves(layout, index)[n] <= Up(shape, by)[n] /\ Down(shape, by)[n] <= Moves(layout, index)[n]
    <2> DEFINE t == terms(index)
    <2>1. t \in [1..n -> Int] /\ Moves(layout, index) = Sums(t)
      BY <1>2
    <2>2. \A i \in 1..n : t[i] <= ups[i] /\ downs[i] <= t[i]
      <3> SUFFICES ASSUME NEW i \in 1..n PROVE t[i] <= ups[i] /\ downs[i] <= t[i]
        OBVIOUS
      <3>1. index[i] \in Nat \ {0} /\ index[i] <= shape[i]
        BY <1>2
      <3>2. t[i] = (index[i] - 1) * by[i]
        OBVIOUS
      <3> QED BY <1>5, <3>1, <3>2
    <2> HIDE DEF t, ups, downs
    <2>3. \A i \in 0..n : Sums(t)[i] <= Sums(ups)[i]
      BY <1>6, <2>1, <2>2, SumsGrow
    <2>4. \A i \in 0..n : Sums(downs)[i] <= Sums(t)[i]
      BY <1>6, <2>1, <2>2, SumsGrow
    <2>5. n \in 0..n
      OBVIOUS
    <2> QED BY <1>4, <2>1, <2>3, <2>4, <2>5
  <1>8. \E index \in Indexes(shape) : Moves(layout, index)[n] = Up(shape, by)[n]
    <2> DEFINE far == [i \in 1..n |-> IF by[i] > 0 THEN shape[i] ELSE 1]
    <2>1. far \in [1..n -> Nat \ {0}] /\ \A i \in 1..n : far[i] <= shape[i]
      BY <1>1
    <2>2. far \in Indexes(shape)
      <3> HIDE DEF far
      <3> QED BY <1>1, <2>1, IndexesAre
    <2>3. terms(far) = ups
      <3>1. ASSUME NEW i \in 1..n
            PROVE  (far[i] - 1) * by[i] = IF by[i] > 0 THEN (shape[i] - 1) * by[i] ELSE 0
        <4>1. CASE by[i] > 0
          BY <4>1
        <4>2. CASE ~(by[i] > 0)
          <5>1. far[i] = 1 /\ 1 \in Nat \ {0} /\ 1 <= shape[i]
            BY <1>1, <4>2
          <5>2. (1 - 1) * by[i] = 0
            BY <1>5, <5>1
          <5> QED BY <4>2, <5>1, <5>2
        <4> QED BY <4>1, <4>2
      <3> HIDE DEF far
      <3> QED BY <3>1
    <2> HIDE DEF far, ups
    <2>4. Moves(layout, far) = Sums(terms(far))
      BY <1>2, <2>2
    <2>5. Moves(layout, far)[n] = Up(shape, by)[n]
      BY <1>4, <2>3, <2>4
    <2> QED BY <2>2, <2>5
  <1>9. \E index \in Indexes(shape) : Moves(layout, index)[n] = Down(shape, by)[n]
    <2> DEFINE far == [i \in 1..n |-> IF by[i] < 0 THEN shape[i] ELSE 1]
    <2>1. far \in [1..n -> Nat \ {0}] /\ \A i \in 1..n : far[i] <= shape[i]
      BY <1>1
    <2>2. far \in Indexes(shape)
      <3> HIDE DEF far
      <3> QED BY <1>1, <2>1, IndexesAre
    <2>3. terms(far) = downs
      <3>1. ASSUME NEW i \in 1..n
            PROVE  (far[i] - 1) * by[i] = IF by[i] < 0 THEN (shape[i] - 1) * by[i] ELSE 0
        <4>1. CASE by[i] < 0
          BY <4>1
        <4>2. CASE ~(by[i] < 0)
          <5>1. far[i] = 1 /\ 1 \in Nat \ {0} /\ 1 <= shape[i]
            BY <1>1, <4>2
          <5>2. (1 - 1) * by[i] = 0
            BY <1>5, <5>1
          <5> QED BY <4>2, <5>1, <5>2
        <4> QED BY <4>1, <4>2
      <3> HIDE DEF far
      <3> QED BY <3>1
    <2> HIDE DEF far, downs
    <2>4. Moves(layout, far) = Sums(terms(far))
      BY <1>2, <2>2
    <2>5. Moves(layout, far)[n] = Down(shape, by)[n]
      BY <1>4, <2>3, <2>4
    <2> QED BY <2>2, <2>5
  <1> QED BY <1>7, <1>8, <1>9 DEF shape, by, Extent

----------------------------------------------------------------------------
(* Which layouts are accepted                                              *)

TableRef(shape, strides, offset) == [shape |-> shape, strides |-> strides, offset |-> offset]

(* The strides that a table has, its own or those of a dense one.          *)
StridesOf(shape, strides, elem) ==
  IF Len(strides) > 0 THEN strides ELSE DefaultStrides(shape, elem)

(* What is asked of a table with a shape.                                  *)
Asked(buf, shape, strides, elem, offset) ==
  /\ ShapeProduct(shape) # Failed
  /\ IF Len(strides) > 0
     THEN LET b == StridedBounds(shape, strides, elem)
          IN  b.ok /\ Within(buf, Wrap(offset + b.min), Wrap(offset + b.max))
     ELSE Within(buf, offset, Wrap(offset + Wrap(ShapeProduct(shape) * elem)))

(* The layout of a table with a shape, and whether it is accepted.         *)
LayoutFacts(n, shape, strides, elem, count, offset, buf, ref, layout) ==
  /\ Len(shape) = n /\ (strides = <<>> => Len(strides) = 0)
  /\ (strides \in [1..n -> Int] => Len(strides) = n)
  /\ ref.shape = shape /\ ref.strides = strides /\ ref.offset = offset
  /\ buf.elem = elem /\ buf.meta.nulls = 0 /\ ByteLen(buf) = count * elem
  /\ layout.shape = shape /\ layout.offset = offset /\ layout.length = shape[1]
  /\ layout.strides = StridesOf(shape, strides, elem)
  /\ layout.strides \in [1..n -> Int]
  /\ Accepted(buf, ref) <=> Asked(buf, shape, strides, elem, offset)

(* The layout of a table in a buffer that says nothing else of strides.    *)
LEMMA TableLayoutIs ==
  ASSUME NEW n \in Nat \ {0}, NEW shape \in [1..n -> Int],
         NEW strides \in {<<>>} \cup [1..n -> Int],
         NEW elem \in 1..MaxInt, NEW count \in Nat, NEW offset \in Int,
         NEW buf, buf.elem = elem, buf.meta.nulls = 0, ByteLen(buf) = count * elem,
         buf.meta.strides = <<>> \/ buf.meta.strides = strides,
         NEW ref, ref = TableRef(shape, strides, offset),
         NEW layout, layout = LogicalLayout(buf, ref)
  PROVE  LayoutFacts(n, shape, strides, elem, count, offset, buf, ref, layout)
  <1>1. Len(shape) = n /\ DOMAIN shape = 1..n
    BY LenIs
  <1>2. strides = <<>> => Len(strides) = 0
    OBVIOUS
  <1>3. strides \in [1..n -> Int] => Len(strides) = n
    <2> SUFFICES ASSUME strides \in [1..n -> Int] PROVE Len(strides) = n
      OBVIOUS
    <2>1. strides = [i \in 1..n |-> strides[i]]
      OBVIOUS
    <2> QED BY <2>1, LenIs
  <1>4. ref.shape = shape /\ ref.strides = strides /\ ref.offset = offset
    BY DEF TableRef
  <1>7. TableShape(buf, ref) = shape
    BY <1>1, <1>4 DEF TableShape
  <1>8. TableStrides(buf, ref) = strides
    BY <1>2, <1>3, <1>4 DEF TableStrides
  <1>9. /\ layout.shape = shape /\ layout.offset = offset /\ layout.length = shape[1]
        /\ layout.strides = StridesOf(shape, strides, elem)
    BY <1>1, <1>4, <1>7, <1>8 DEF LogicalLayout, StridesOf
  <1>10. layout.strides \in [1..n -> Int]
    <2>1. CASE strides = <<>>
      <3>1. elem \in Int
        OBVIOUS
      <3>2. DefaultStrides(shape, elem) \in [1..n -> Int]
        BY <3>1, DefaultStridesAre
      <3>3. layout.strides = DefaultStrides(shape, elem)
        BY <1>2, <1>9, <2>1 DEF StridesOf
      <3> QED BY <3>2, <3>3
    <2>2. CASE strides \in [1..n -> Int]
      BY <1>3, <1>9, <2>2 DEF StridesOf
    <2> QED BY <2>1, <2>2
  <1>11. Len(strides) > 0 => Len(strides) = Len(shape)
    BY <1>1, <1>2, <1>3
  <1>12. Accepted(buf, ref) <=> Asked(buf, shape, strides, elem, offset)
    BY <1>1, <1>4, <1>7, <1>8, <1>11 DEF Accepted, Asked
  <1> QED BY <1>1, <1>2, <1>3, <1>4, <1>9, <1>10, <1>12 DEF LayoutFacts

(* The same, of a buffer that says nothing of its shape.                   *)
LEMMA LayoutIs ==
  ASSUME NEW n \in Nat \ {0}, NEW shape \in [1..n -> Int],
         NEW strides \in {<<>>} \cup [1..n -> Int],
         NEW elem \in 1..MaxInt, NEW count \in Nat, NEW offset \in Int,
         NEW buf, buf = Plain(count, elem), NEW ref, ref = TableRef(shape, strides, offset),
         NEW layout, layout = LogicalLayout(buf, ref)
  PROVE  LayoutFacts(n, shape, strides, elem, count, offset, buf, ref, layout)
  <1>1. /\ buf.elem = elem /\ buf.meta.nulls = 0 /\ buf.meta.strides = <<>>
        /\ buf.items = [i \in 1..count |-> i]
    BY DEF Plain
  <1>2. ByteLen(buf) = count * elem
    <2> DEFINE items == [i \in 1..count |-> i]
    <2>1. items = [i \in 1..count |-> items[i]]
      OBVIOUS
    <2> HIDE DEF items
    <2>2. Len(items) = count
      BY <2>1, LenIs
    <2>3. buf.items = items
      BY <1>1 DEF items
    <2> QED BY <1>1, <2>2, <2>3 DEF ByteLen
  <1> QED BY <1>1, <1>2, TableLayoutIs

(* A table whose dimensions are positive lies in its buffer if its bounds  *)
(* do.                                                                     *)
LEMMA PositiveExact ==
  ASSUME NEW n \in Nat \ {0}, NEW shape \in [1..n -> Nat \ {0}],
         NEW strides \in {<<>>} \cup [1..n -> Int],
         NEW elem \in 1..MaxInt, NEW count \in Nat, count * elem <= MaxInt, NEW offset \in Int64,
         NEW buf, buf = Plain(count, elem), NEW ref, ref = TableRef(shape, strides, offset),
         ShapeProduct(shape) # Failed, SumsStay(buf, ref)
  PROVE  Accepted(buf, ref) <=> Fits(buf, ref)
  <1> DEFINE layout == LogicalLayout(buf, ref)
             by == layout.strides
             bytes == count * elem
             U == Up(shape, by)[n]
             L == Down(shape, by)[n]
  <1>1. MaxInt \in Nat \ {0} /\ offset \in Int /\ shape \in [1..n -> Int]
    BY WidthAssumption DEF Int64
  <1> HIDE DEF layout
  <1>0. LayoutFacts(n, shape, strides, elem, count, offset, buf, ref, layout)
    BY <1>1, LayoutIs DEF layout
  <1>2. /\ Len(shape) = n /\ (strides = <<>> => Len(strides) = 0)
        /\ (strides \in [1..n -> Int] => Len(strides) = n)
        /\ ref.shape = shape /\ ref.strides = strides /\ ref.offset = offset
        /\ buf.elem = elem /\ ByteLen(buf) = bytes
        /\ layout.shape = shape /\ layout.offset = offset
        /\ by = StridesOf(shape, strides, elem) /\ by \in [1..n -> Int]
    BY <1>0 DEF LayoutFacts
  <1>20. Accepted(buf, ref) <=> Asked(buf, shape, strides, elem, offset)
    BY <1>0 DEF LayoutFacts
  <1>3. bytes \in Nat /\ bytes <= MaxInt /\ elem \in Nat \ {0} /\ elem \in Int
    <2>1. count \in Nat /\ elem \in Nat
      BY <1>1
    <2> QED BY <2>1
  <1> HIDE DEF layout, bytes
  <1>4. /\ Up(shape, by) \in [0..n -> Int] /\ Down(shape, by) \in [0..n -> Int]
        /\ \A i \in 0..n : 0 <= Up(shape, by)[i] /\ Down(shape, by)[i] <= 0
    BY <1>2, Reached, SMTT(30)
  <1>5. U \in Int /\ L \in Int /\ 0 <= U /\ L <= 0
    <2>1. n \in 0..n
      OBVIOUS
    <2> QED BY <1>4, <2>1
  <1>6. /\ \A index \in Indexes(shape) :
             Moves(layout, index)[n] <= U /\ L <= Moves(layout, index)[n]
        /\ \E index \in Indexes(shape) : Moves(layout, index)[n] = U
        /\ \E index \in Indexes(shape) : Moves(layout, index)[n] = L
    <2>1. layout.shape \in [1..n -> Nat \ {0}] /\ layout.strides \in [1..n -> Int]
      BY <1>2
    <2>2. Extent(layout, Up(layout.shape, layout.strides)[n], Down(layout.shape, layout.strides)[n], n)
      BY <2>1, Hull
    <2> QED BY <1>2, <2>2 DEF Extent
  <1>7. \A index \in Indexes(shape) :
          At(layout, index) = offset + Moves(layout, index)[n] /\ Moves(layout, index)[n] \in Int
    <2> SUFFICES ASSUME NEW index \in Indexes(shape)
                 PROVE  /\ At(layout, index) = offset + Moves(layout, index)[n]
                        /\ Moves(layout, index)[n] \in Int
      OBVIOUS
    <2>1. index \in [1..n -> Nat \ {0}]
      BY <1>1, IndexesAre
    <2>2. layout.shape \in [1..n -> Int] /\ layout.strides \in [1..n -> Int]
      BY <1>1, <1>2
    <2>3. /\ At(layout, index) = layout.offset + Moves(layout, index)[n]
          /\ Moves(layout, index) \in [0..n -> Int]
      BY <2>1, <2>2, MovesAre DEF MovesLaw
    <2>4. n \in 0..n
      OBVIOUS
    <2> QED BY <1>2, <2>3, <2>4
  <1> HIDE DEF U, L, by
  <1>8. /\ offset + U >= -MaxInt - 1 /\ offset + U + elem <= MaxInt
        /\ offset + L >= -MaxInt - 1 /\ offset + L + elem <= MaxInt
    <2>1. \A index \in Indexes(shape) : At(layout, index) \in (-MaxInt - 1)..(MaxInt - elem)
      BY <1>2 DEF SumsStay, layout
    <2>2. offset + U \in (-MaxInt - 1)..(MaxInt - elem)
      BY <1>6, <1>7, <2>1
    <2>3. offset + L \in (-MaxInt - 1)..(MaxInt - elem)
      BY <1>6, <1>7, <2>1
    <2> QED BY <1>1, <1>3, <1>5, <2>2, <2>3
  <1>9. Fits(buf, ref) <=> /\ \A i \in 1..n : by[i] # 0
                           /\ offset + L >= 0 /\ offset + U + elem <= bytes
    <2>1. DOMAIN shape = 1..n /\ Indexes(shape) # {}
      BY <1>1, IndexesAre
    <2>2. Fits(buf, ref) <=>
            /\ \A i \in 1..n : by[i] # 0
            /\ \A index \in Indexes(shape) : At(layout, index) \in 0..(bytes - elem)
      BY <1>2, <2>1 DEF Fits, layout, by
    <2>3. ASSUME \A index \in Indexes(shape) : At(layout, index) \in 0..(bytes - elem)
          PROVE  offset + L >= 0 /\ offset + U + elem <= bytes
      <3>1. offset + U \in 0..(bytes - elem)
        BY <1>6, <1>7, <2>3
      <3>2. offset + L \in 0..(bytes - elem)
        BY <1>6, <1>7, <2>3
      <3> QED BY <1>1, <1>3, <1>5, <3>1, <3>2
    <2>4. ASSUME offset + L >= 0, offset + U + elem <= bytes, NEW index \in Indexes(shape)
          PROVE  At(layout, index) \in 0..(bytes - elem)
      <3> DEFINE m == Moves(layout, index)[n]
      <3>1. m \in Int /\ m <= U /\ L <= m /\ At(layout, index) = offset + m
        BY <1>6, <1>7
      <3> HIDE DEF m
      <3>2. offset + m >= 0 /\ offset + m <= bytes - elem
        BY <1>1, <1>3, <1>5, <2>4, <3>1
      <3> QED BY <1>1, <1>3, <3>1, <3>2
    <2> QED BY <2>2, <2>3, <2>4
  <1>10. CASE Len(strides) > 0
    <2> DEFINE b == StridedBounds(shape, by, elem)
    <2>1. by = strides
      BY <1>2, <1>10 DEF StridesOf
    <2>2. /\ b.min = L /\ b.max = elem + U
          /\ b.ok <=> (\A i \in 1..n : by[i] # 0) /\ elem + U <= MaxInt /\ L >= -MaxInt - 1
      <3>1. by \in [1..n -> Int]
        BY <1>2 DEF by
      <3>2. /\ b.min = Down(shape, by)[n] /\ b.max = elem + Up(shape, by)[n]
            /\ b.ok <=> /\ \A i \in 1..n : by[i] # 0
                        /\ elem + Up(shape, by)[n] <= MaxInt
                        /\ Down(shape, by)[n] >= -MaxInt - 1
        BY <3>1, BoundsAre
      <3> QED BY <3>2 DEF U, L
    <2>3. offset + b.min = offset + L /\ offset + b.max = offset + U + elem
      BY <1>1, <1>3, <1>5, <2>2
    <2>4. offset + L \in Int64 /\ offset + U + elem \in Int64
      BY <1>1, <1>3, <1>5, <1>8 DEF Int64
    <2>5. Wrap(offset + b.min) = offset + L /\ Wrap(offset + b.max) = offset + U + elem
      <3>1. offset + L \in Int /\ offset + U + elem \in Int
        BY <1>1, <1>3, <1>5
      <3> QED BY <2>3, <2>4, <3>1, WrapIs
    <2>6. Accepted(buf, ref) <=> /\ (\A i \in 1..n : by[i] # 0) /\ elem + U <= MaxInt /\ L >= -MaxInt - 1
                                 /\ offset + L >= 0 /\ offset + U + elem <= bytes
      BY <1>2, <1>20, <1>10, <2>1, <2>2, <2>5 DEF Within, Asked
    <2>7. offset + L >= 0 /\ offset + U + elem <= bytes => elem + U <= MaxInt /\ L >= -MaxInt - 1
      BY <1>1, <1>3, <1>5
    <2> QED BY <1>9, <2>6, <2>7
  <1>11. CASE Len(strides) = 0
    <2> DEFINE total == ShapeProduct(shape)
               all == total * elem
    <2>1. by = DefaultStrides(shape, elem)
      BY <1>2, <1>11 DEF StridesOf
    <2>2. all <= MaxInt
      BY <1>2, <1>11 DEF SumsStay
    <2>3. total \in Nat \ {0} /\ DefaultStrides(shape, elem) \in [1..n -> Nat \ {0}]
      BY <1>3, <2>2, DenseStrides
    <2>4. U = all - elem
      BY <1>3, <2>1, <2>2, DenseReach DEF U
    <2>5. all \in Nat
      BY <1>3, <2>3
    <2> HIDE DEF all, total
    <2>6. L >= 0
      <3> DEFINE downs == [i \in 1..n |-> IF by[i] < 0 THEN (shape[i] - 1) * by[i] ELSE 0]
      <3>1. \A i \in 1..n : ~(by[i] < 0)
        BY <2>1, <2>3
      <3>2. downs \in [1..n -> Int] /\ \A i \in 1..n : downs[i] >= 0
        BY <3>1
      <3>3. Down(shape, by) = Sums(downs)
        <4>1. DOMAIN shape = 1..n
          OBVIOUS
        <4> QED BY <4>1 DEF Down
      <3> HIDE DEF downs
      <3>4. \A i \in 0..n : 0 <= Sums(downs)[i]
        BY <3>2, SumsRise
      <3>5. n \in 0..n
        OBVIOUS
      <3>6. 0 <= L
        BY <3>3, <3>4, <3>5 DEF L
      <3> QED BY <1>5, <3>6
    <2>7. L = 0
      BY <1>5, <2>6
    <2>8. Wrap(all) = all
      <3>1. all \in Int64
        BY <1>1, <2>2, <2>5 DEF Int64, all, total
      <3> QED BY <2>5, <3>1, WrapIs
    <2>9. Wrap(offset + all) = offset + all
      <3>1. offset + all \in Int
        BY <1>1, <2>5
      <3>2. offset + all = offset + U + elem
        BY <1>1, <1>3, <1>5, <2>4, <2>5
      <3>3. offset + all \in Int64
        BY <1>1, <1>3, <1>5, <1>8, <3>1, <3>2 DEF Int64
      <3> QED BY <3>1, <3>3, WrapIs
    <2>10. Accepted(buf, ref) <=> offset >= 0 /\ offset + all <= bytes
      <3>1. ~(Len(strides) > 0)
        BY <1>11
      <3>2. Accepted(buf, ref) <=> Within(buf, offset, Wrap(offset + Wrap(all)))
        BY <1>20, <2>3, <3>1 DEF all, total, Asked
      <3> QED BY <1>2, <2>8, <2>9, <3>2 DEF Within
    <2>11. offset + L = offset /\ offset + U + elem = offset + all
      BY <1>1, <1>3, <1>5, <2>4, <2>5, <2>7
    <2>12. \A i \in 1..n : by[i] # 0
      BY <2>1, <2>3
    <2> QED BY <1>9, <2>10, <2>11, <2>12
  <1> QED BY <1>2, <1>10, <1>11

(* A table with a dimension of 0 has no elements.                          *)
LEMMA EmptyExact ==
  ASSUME NEW n \in Nat \ {0}, NEW shape \in [1..n -> Int], \E i \in 1..n : shape[i] = 0,
         NEW strides \in {<<>>} \cup [1..n -> Int],
         NEW elem \in 1..MaxInt, NEW count \in Nat, count * elem <= MaxInt, NEW offset \in Int64,
         NEW buf, buf = Plain(count, elem), NEW ref, ref = TableRef(shape, strides, offset),
         ShapeProduct(shape) # Failed
  PROVE  Accepted(buf, ref) <=> Fits(buf, ref)
  <1> DEFINE layout == LogicalLayout(buf, ref)
             bytes == count * elem
  <1>1. MaxInt \in Nat \ {0} /\ offset \in Int /\ DOMAIN shape = 1..n
    BY WidthAssumption DEF Int64
  <1>0. LayoutFacts(n, shape, strides, elem, count, offset, buf, ref, LogicalLayout(buf, ref))
    BY <1>1, LayoutIs
  <1>2. /\ ref.shape = shape /\ ref.strides = strides /\ ref.offset = offset
        /\ ByteLen(buf) = bytes
    BY <1>0 DEF LayoutFacts
  <1>20. Accepted(buf, ref) <=> Asked(buf, shape, strides, elem, offset)
    BY <1>0 DEF LayoutFacts
  <1>3. bytes \in Nat
    BY <1>1
  <1>4. ShapeProduct(shape) = 0 /\ Indexes(shape) = {}
    BY Counted, IndexesAre
  <1>5. Fits(buf, ref) <=> offset \in 0..bytes
    BY <1>2, <1>4 DEF Fits
  <1>6. Wrap(offset + 0) = offset /\ Wrap(0) = 0
    <2>1. 0 \in Int64 /\ offset + 0 = offset
      BY <1>1 DEF Int64
    <2> QED BY <1>1, <2>1, WrapIs
  <1>7. StridedBounds(shape, strides, elem) = [ok |-> TRUE, min |-> 0, max |-> 0]
    BY <1>1 DEF StridedBounds
  <1>8. 0 * elem = 0
    BY <1>1
  <1>9. Accepted(buf, ref) <=> Within(buf, offset, offset)
    <2>1. CASE Len(strides) > 0
      BY <1>20, <1>6, <1>7, <2>1 DEF Asked
    <2>2. CASE ~(Len(strides) > 0)
      BY <1>20, <1>4, <1>6, <1>8, <2>2 DEF Asked
    <2> QED BY <2>1, <2>2
  <1> QED BY <1>1, <1>2, <1>3, <1>5, <1>9 DEF Within

----------------------------------------------------------------------------
(* The reads                                                               *)

(* The slices of a table: values behind the last dimension, rows of the    *)
(* next slice behind every other.                                          *)
LEMMA SliceAtIs ==
  ASSUME NEW n \in Nat, NEW buf, NEW layout, Len(layout.shape) = n
  PROVE  /\ SliceAt(buf, layout)[n] = [base \in Int |-> ValueAtByteOffset(buf, base)]
         /\ \A d \in 0..(n - 1) :
              SliceAt(buf, layout)[d] = Rows(layout, d + 1, SliceAt(buf, layout)[d + 1])
  <1> DEFINE values == [base \in Int |-> ValueAtByteOffset(buf, base)]
             Is(g, m) == g = [d \in m..n |-> IF d = n THEN values ELSE Rows(layout, d + 1, g[d + 1])]
             S == {k \in 0..n : \E g : Is(g, n - k)}
  <1> HIDE DEF values
  <1>1. 0 \in S
    <2> DEFINE g == [d \in n..n |-> values]
    <2>1. Is(g, n - 0)
      OBVIOUS
    <2> HIDE DEF g, Is
    <2>2. \E f : Is(f, n - 0)
      BY <2>1
    <2> QED BY <2>2
  <1>2. \A k \in 1..n : k - 1 \in S => k \in S
    <2> SUFFICES ASSUME NEW k \in 1..n, NEW g, Is(g, n - (k - 1)) PROVE k \in S
      OBVIOUS
    <2> DEFINE m == n - k
               h == [d \in m..n |-> IF d > m THEN g[d] ELSE Rows(layout, m + 1, g[m + 1])]
    <2>1. m \in 0..(n - 1) /\ m + 1 = n - (k - 1)
      OBVIOUS
    <2> HIDE DEF m
    <2>2. g = [d \in (m + 1)..n |-> IF d = n THEN values ELSE Rows(layout, d + 1, g[d + 1])]
      BY <2>1
    <2>3. \A d \in m..n : h[d] = IF d = n THEN values ELSE Rows(layout, d + 1, h[d + 1])
      <3> SUFFICES ASSUME NEW d \in m..n
                   PROVE  h[d] = IF d = n THEN values ELSE Rows(layout, d + 1, h[d + 1])
        OBVIOUS
      <3>1. CASE d > m
        <4>1. h[d] = g[d] /\ d \in (m + 1)..n
          BY <2>1, <3>1
        <4>2. d # n => d + 1 \in m..n /\ d + 1 > m
          BY <2>1, <3>1
        <4>3. d # n => h[d + 1] = g[d + 1]
          BY <4>2
        <4> QED BY <2>2, <4>1, <4>3
      <3>2. CASE d = m
        <4>1. m # n /\ m + 1 \in m..n /\ m + 1 > m /\ m \in m..n /\ ~(m > m)
          BY <2>1
        <4>2. h[m + 1] = g[m + 1]
          BY <4>1
        <4> QED BY <3>2, <4>1, <4>2
      <3>3. d > m \/ d = m
        BY <2>1
      <3> QED BY <3>1, <3>2, <3>3
    <2>4. Is(h, m)
      BY <2>3
    <2> HIDE DEF h, Is
    <2>5. \E f : Is(f, m)
      BY <2>4
    <2> QED BY <2>5 DEF m
  <1> HIDE DEF S
  <1>3. \A k \in 0..n : k \in S
    BY <1>1, <1>2, Climb
  <1>4. \E g : Is(g, 0)
    <2>1. n \in 0..n /\ n - n = 0
      OBVIOUS
    <2>2. n \in S
      BY <1>3, <2>1
    <2> QED BY <2>1, <2>2 DEF S
  <1> DEFINE D == SliceAt(buf, layout)
  <1>5. Is(D, 0)
    BY <1>4 DEF SliceAt, values
  <1> HIDE DEF D
  <1>6. D[n] = values /\ \A d \in 0..(n - 1) : D[d] = Rows(layout, d + 1, D[d + 1])
    BY <1>5
  <1> QED BY <1>6 DEF D, values

(* Rows are a value if all they are made of are, and then they are made of *)
(* the values of those.                                                    *)
Readable(layout, d, inner, base) ==
  \A i \in 1..layout.shape[d] : inner[Wrap(base + (i - 1) * layout.strides[d])].kind = "value"
ReadOf(layout, d, inner, base) ==
  [i \in 1..layout.shape[d] |-> inner[Wrap(base + (i - 1) * layout.strides[d])].value]

LEMMA RowsAre ==
  ASSUME NEW layout, NEW d, NEW inner, NEW base \in Int
  PROVE  /\ Readable(layout, d, inner, base)
              => Rows(layout, d, inner)[base] = Value(ReadOf(layout, d, inner, base))
         /\ Rows(layout, d, inner)[base].kind = "value" => Readable(layout, d, inner, base)
  <1>1. Rows(layout, d, inner)[base]
          = IF Readable(layout, d, inner, base) THEN Value(ReadOf(layout, d, inner, base))
            ELSE Missing
    <2> DEFINE row(i) == inner[Wrap(base + (i - 1) * layout.strides[d])]
    <2>1. Rows(layout, d, inner)[base]
            = IF \E i \in 1..layout.shape[d] : row(i).kind # "value" THEN Missing
              ELSE Value([i \in 1..layout.shape[d] |-> row(i).value])
      BY DEF Rows
    <2>2. Readable(layout, d, inner, base) <=> ~\E i \in 1..layout.shape[d] : row(i).kind # "value"
      BY DEF Readable
    <2>3. ReadOf(layout, d, inner, base) = [i \in 1..layout.shape[d] |-> row(i).value]
      BY DEF ReadOf
    <2> HIDE DEF row
    <2> QED BY <2>1, <2>2, <2>3
  <1>2. Missing.kind # "value"
    BY DEF Missing
  <1> QED BY <1>1, <1>2

(* What an index picks from rows, from the first dimension to the last.    *)
PicksLast(n, index, P) == Pick(P[0], index) = P[n]

LEMMA PickIs ==
  ASSUME NEW n \in Nat, NEW index, Len(index) = n, NEW P,
         \A d \in 1..n : P[d] = P[d - 1][index[d]]
  PROVE  PicksLast(n, index, P)
  <1> DEFINE Is(g, m) == g = [d \in 0..m |-> IF d = 0 THEN P[0] ELSE g[d - 1][index[d]]]
             pick == CHOOSE g : Is(g, n)
  <1>1. \A m \in 0..n : Is([d \in 0..m |-> P[d]], m)
    <2> SUFFICES ASSUME NEW m \in 0..n PROVE Is([d \in 0..m |-> P[d]], m)
      OBVIOUS
    <2> DEFINE g == [d \in 0..m |-> P[d]]
    <2>1. \A d \in 0..m : g[d] = IF d = 0 THEN P[0] ELSE g[d - 1][index[d]]
      OBVIOUS
    <2> QED BY <2>1
  <1>2. \E g : Is(g, n)
    <2>1. Is([d \in 0..n |-> P[d]], n)
      BY <1>1
    <2> HIDE DEF Is
    <2> QED BY <2>1
  <1>3. Is(pick, n)
    <2> HIDE DEF Is
    <2> QED BY <1>2
  <1>4. Pick(P[0], index) = pick[n]
    BY DEF Pick
  <1> HIDE DEF pick
  <1> DEFINE R == {d \in 0..n : pick[d] = P[d]}
  <1>5. 0 \in R
    BY <1>3
  <1>6. \A d \in 1..n : d - 1 \in R => d \in R
    <2> SUFFICES ASSUME NEW d \in 1..n, pick[d - 1] = P[d - 1] PROVE pick[d] = P[d]
      OBVIOUS
    <2>1. pick[d] = pick[d - 1][index[d]]
      BY <1>3
    <2> QED BY <2>1
  <1> HIDE DEF R
  <1>7. \A d \in 0..n : d \in R
    BY <1>5, <1>6, Climb
  <1>8. n \in 0..n
    OBVIOUS
  <1> QED BY <1>4, <1>7, <1>8 DEF R, PicksLast
(* Indexes that agree in the first dimensions move as far in them.         *)
Together(layout, a, b, d) == \A i \in 0..d : Moves(layout, a)[i] = Moves(layout, b)[i]

LEMMA MovesAgree ==
  ASSUME NEW n \in Nat \ {0}, NEW layout, layout.shape \in [1..n -> Int],
         layout.strides \in [1..n -> Int],
         NEW a \in [1..n -> Nat \ {0}], NEW b \in [1..n -> Nat \ {0}],
         NEW d \in 0..n, \A i \in 1..d : a[i] = b[i]
  PROVE  Together(layout, a, b, d)
  <1> DEFINE R == {i \in 0..d : Moves(layout, a)[i] = Moves(layout, b)[i]}
  <1>1. /\ Moves(layout, a)[0] = 0
        /\ \A i \in 1..n : Moves(layout, a)[i]
                             = Moves(layout, a)[i - 1] + (a[i] - 1) * layout.strides[i]
    <2>1. MovesLaw(n, layout, a)
      BY MovesAre
    <2> QED BY <2>1 DEF MovesLaw
  <1>2. /\ Moves(layout, b)[0] = 0
        /\ \A i \in 1..n : Moves(layout, b)[i]
                             = Moves(layout, b)[i - 1] + (b[i] - 1) * layout.strides[i]
    <2>1. MovesLaw(n, layout, b)
      BY MovesAre
    <2> QED BY <2>1 DEF MovesLaw
  <1>3. 0 \in R
    BY <1>1, <1>2
  <1>4. \A i \in 1..d : i - 1 \in R => i \in R
    <2> SUFFICES ASSUME NEW i \in 1..d, Moves(layout, a)[i - 1] = Moves(layout, b)[i - 1]
                 PROVE  Moves(layout, a)[i] = Moves(layout, b)[i]
      OBVIOUS
    <2>1. i \in 1..n /\ a[i] = b[i]
      OBVIOUS
    <2> QED BY <1>1, <1>2, <2>1
  <1> HIDE DEF R
  <1>5. d \in Nat
    OBVIOUS
  <1>6. \A i \in 0..d : i \in R
    BY <1>3, <1>4, <1>5, Climb
  <1> QED BY <1>6 DEF R, Together

(* Where every element lies between two places, every slice begins there.  *)
LEMMA SlicesWithin ==
  ASSUME NEW n \in Nat \ {0}, NEW layout, layout.shape \in [1..n -> Nat \ {0}],
         layout.strides \in [1..n -> Int], NEW places,
         \A index \in Indexes(layout.shape) : At(layout, index) \in places
  PROVE  \A index \in Indexes(layout.shape), d \in 0..n :
           layout.offset + Moves(layout, index)[d] \in places
  <1> DEFINE shape == layout.shape
  <1> SUFFICES ASSUME NEW index \in Indexes(shape), NEW d \in 0..n
               PROVE  layout.offset + Moves(layout, index)[d] \in places
    OBVIOUS
  <1> DEFINE cut == [i \in 1..n |-> IF i <= d THEN index[i] ELSE 1]
  <1>1. shape \in [1..n -> Int] /\ shape \in [1..n -> Nat \ {0}]
    OBVIOUS
  <1> HIDE DEF shape
  <1>2. index \in [1..n -> Nat \ {0}] /\ \A i \in 1..n : index[i] <= shape[i]
    BY <1>1, IndexesAre
  <1>3. /\ cut \in [1..n -> Nat \ {0}] /\ \A i \in 1..n : cut[i] <= shape[i]
        /\ \A i \in 1..d : cut[i] = index[i]
        /\ \A i \in (d + 1)..n : cut[i] = 1
    BY <1>1, <1>2
  <1> HIDE DEF cut
  <1>4. cut \in Indexes(shape)
    BY <1>1, <1>3, IndexesAre
  <1>5. layout.shape \in [1..n -> Int]
    BY <1>1 DEF shape
  <1>6. \A i \in 0..d : Moves(layout, cut)[i] = Moves(layout, index)[i]
    <2>1. cut \in [1..n -> Nat \ {0}] /\ index \in [1..n -> Nat \ {0}]
      BY <1>2, <1>3
    <2>2. \A i \in 1..d : cut[i] = index[i]
      BY <1>3
    <2>3. Together(layout, cut, index, d)
      BY <1>5, <2>1, <2>2, MovesAgree
    <2> QED BY <2>3 DEF Together
  <1>7. /\ Moves(layout, cut) \in [0..n -> Int]
        /\ \A i \in 1..n : Moves(layout, cut)[i]
                             = Moves(layout, cut)[i - 1] + (cut[i] - 1) * layout.strides[i]
        /\ At(layout, cut) = layout.offset + Moves(layout, cut)[n]
    <2>1. cut \in [1..n -> Nat \ {0}]
      BY <1>3
    <2>2. MovesLaw(n, layout, cut)
      BY <1>5, <2>1, MovesAre
    <2> QED BY <2>2 DEF MovesLaw
  <1> DEFINE M == Moves(layout, cut)
             R == {k \in 0..(n - d) : M[d + k] = M[d]}
  <1>8. 0 \in R
    <2>1. d + 0 = d /\ 0 \in 0..(n - d)
      OBVIOUS
    <2> QED BY <2>1
  <1>9. \A k \in 1..(n - d) : k - 1 \in R => k \in R
    <2> SUFFICES ASSUME NEW k \in 1..(n - d), k - 1 \in R PROVE k \in R
      OBVIOUS
    <2>5. M[d + (k - 1)] = M[d] /\ k \in 0..(n - d)
      OBVIOUS
    <2> SUFFICES M[d + k] = M[d]
      BY <2>5
    <2>1. d + k \in 1..n /\ d + k \in (d + 1)..n /\ (d + k) - 1 = d + (k - 1) /\ d + (k - 1) \in 0..n
      OBVIOUS
    <2>2. cut[d + k] - 1 = 0 /\ layout.strides[d + k] \in Int
      BY <1>3, <2>1
    <2>3. (cut[d + k] - 1) * layout.strides[d + k] = 0
      BY <2>2
    <2>4. M[d + (k - 1)] \in Int
      BY <1>7, <2>1
    <2> QED BY <1>7, <2>1, <2>3, <2>4, <2>5
  <1> HIDE DEF R
  <1>10. n - d \in Nat /\ n - d \in 0..(n - d) /\ d + (n - d) = n /\ d \in 0..d
    OBVIOUS
  <1>11. \A k \in 0..(n - d) : k \in R
    BY <1>8, <1>9, <1>10, Climb
  <1>12. M[n] = M[d]
    <2>1. n - d \in R
      BY <1>10, <1>11
    <2>2. M[d + (n - d)] = M[d]
      BY <2>1 DEF R
    <2> HIDE DEF M
    <2> QED BY <1>10, <2>2
  <1>13. At(layout, cut) = layout.offset + Moves(layout, index)[d]
    BY <1>6, <1>7, <1>10, <1>12
  <1> QED BY <1>4, <1>13 DEF shape
(* Where a slice begins, and what is there.                                *)
Begin(layout, index, d) == layout.offset + Moves(layout, index)[d]
There(buf, layout, index, d) == SliceAt(buf, layout)[d][Begin(layout, index, d)]

(* The rows behind an index are the slices of the indexes next to it.      *)
NextRow(layout, index, d, i) ==
  /\ [index EXCEPT ![d] = i] \in Indexes(layout.shape)
  /\ Wrap(Begin(layout, index, d - 1) + (i - 1) * layout.strides[d])
       = Begin(layout, [index EXCEPT ![d] = i], d)

LEMMA RowsBegin ==
  ASSUME NEW n \in Nat \ {0}, NEW layout, layout.shape \in [1..n -> Nat \ {0}],
         layout.strides \in [1..n -> Int], layout.offset \in Int,
         NEW places, places \subseteq Int64,
         \A index \in Indexes(layout.shape) : At(layout, index) \in places,
         NEW index \in Indexes(layout.shape), NEW d \in 1..n, NEW i \in 1..layout.shape[d]
  PROVE  NextRow(layout, index, d, i)
  <1> DEFINE shape == layout.shape
             next == [index EXCEPT ![d] = i]
  <1>1. shape \in [1..n -> Int] /\ shape \in [1..n -> Nat \ {0}] /\ i \in Nat \ {0} /\ i <= shape[d]
    OBVIOUS
  <1>2. layout.shape \in [1..n -> Int]
    OBVIOUS
  <1> HIDE DEF shape
  <1>3. index \in [1..n -> Nat \ {0}] /\ \A k \in 1..n : index[k] <= shape[k]
    BY <1>1, IndexesAre DEF shape
  <1>4. /\ next \in [1..n -> Nat \ {0}] /\ (\A k \in 1..n : next[k] <= shape[k])
        /\ next[d] = i /\ \A k \in 1..(d - 1) : next[k] = index[k]
    <2>1. next[d] = i /\ \A k \in 1..n : k # d => next[k] = index[k]
      BY <1>3
    <2>2. next \in [1..n -> Nat \ {0}]
      BY <1>1, <1>3
    <2> HIDE DEF next
    <2>3. \A k \in 1..n : next[k] <= shape[k]
      BY <1>1, <1>3, <2>1
    <2>4. \A k \in 1..(d - 1) : next[k] = index[k]
      <3>1. \A k \in 1..(d - 1) : k \in 1..n /\ k # d
        OBVIOUS
      <3> QED BY <2>1, <3>1
    <2> QED BY <2>1, <2>2, <2>3, <2>4
  <1> HIDE DEF next
  <1>5. next \in Indexes(shape)
    BY <1>1, <1>4, IndexesAre
  <1>6. MovesLaw(n, layout, next)
    <2>1. next \in [1..n -> Nat \ {0}]
      BY <1>4
    <2> QED BY <1>2, <2>1, MovesAre
  <1>7. Moves(layout, next)[d] = Moves(layout, next)[d - 1] + (i - 1) * layout.strides[d]
    BY <1>4, <1>6 DEF MovesLaw
  <1>8. Moves(layout, next)[d - 1] = Moves(layout, index)[d - 1]
    <2>1. next \in [1..n -> Nat \ {0}] /\ index \in [1..n -> Nat \ {0}] /\ d - 1 \in 0..n
      BY <1>3, <1>4, SMTT(30)
    <2>2. \A k \in 1..(d - 1) : next[k] = index[k]
      BY <1>4
    <2>3. Together(layout, next, index, d - 1)
      BY <1>2, <2>1, <2>2, MovesAgree
    <2>4. d - 1 \in 0..(d - 1)
      OBVIOUS
    <2> QED BY <2>3, <2>4 DEF Together
  <1> DEFINE far == (i - 1) * layout.strides[d]
             before == Moves(layout, index)[d - 1]
  <1>9. far \in Int /\ before \in Int
    <2>1. i - 1 \in Int /\ layout.strides[d] \in Int
      BY <1>1
    <2>2. d - 1 \in 0..n /\ Moves(layout, next) \in [0..n -> Int]
      BY <1>6 DEF MovesLaw
    <2>3. Moves(layout, next)[d - 1] \in Int
      BY <2>2
    <2> QED BY <1>8, <2>1, <2>3, TimesInt
  <1>10. Begin(layout, index, d - 1) + far = Begin(layout, next, d)
    <2>1. Moves(layout, next)[d] = before + far
      BY <1>7, <1>8
    <2> HIDE DEF far, before
    <2>2. layout.offset + before + far = layout.offset + (before + far)
      BY <1>9
    <2> QED BY <2>1, <2>2 DEF Begin, before
  <1>11. Begin(layout, next, d) \in places
    <2>1. d \in 0..n
      OBVIOUS
    <2>2. next \in Indexes(layout.shape)
      BY <1>5 DEF shape
    <2>3. layout.offset + Moves(layout, next)[d] \in places
      BY <2>1, <2>2, SlicesWithin
    <2> QED BY <2>3 DEF Begin
  <1>12. Begin(layout, next, d) \in Int64 /\ Begin(layout, next, d) \in Int
    <2> DEFINE at == Begin(layout, next, d)
    <2> HIDE DEF at
    <2>1. at \in Int64
      BY <1>11 DEF at
    <2>2. at \in Int
      BY <2>1, WidthAssumption DEF Int64
    <2> QED BY <2>1, <2>2 DEF at
  <1>13. Wrap(Begin(layout, next, d)) = Begin(layout, next, d)
    BY <1>12, WrapIs
  <1> QED BY <1>5, <1>10, <1>13 DEF shape, next, far, NextRow

(* What is read behind an index is a value, and the value is in the row    *)
(* before it.                                                              *)
Followed(n, buf, layout, index) ==
  /\ \A d \in 0..n : There(buf, layout, index, d).kind = "value"
  /\ \A d \in 1..n : There(buf, layout, index, d - 1).value[index[d]]
                       = There(buf, layout, index, d).value
  /\ There(buf, layout, index, n) = ValueAtByteOffset(buf, At(layout, index))

LEMMA SlicesAre ==
  ASSUME NEW n \in Nat \ {0}, NEW layout, layout.shape \in [1..n -> Nat \ {0}],
         layout.strides \in [1..n -> Int], layout.offset \in Int, NEW buf,
         ByteLen(buf) - buf.elem \in Int, 0..(ByteLen(buf) - buf.elem) \subseteq Int64,
         \A index \in Indexes(layout.shape) : At(layout, index) \in 0..(ByteLen(buf) - buf.elem)
  PROVE  \A index \in Indexes(layout.shape) : Followed(n, buf, layout, index)
  <1> DEFINE shape == layout.shape
             places == 0..(ByteLen(buf) - buf.elem)
             S == SliceAt(buf, layout)
             K == {d \in 0..n : \A index \in Indexes(shape) : There(buf, layout, index, d).kind = "value"}
  <1>1. Len(shape) = n
    <2>1. shape = [i \in 1..n |-> shape[i]]
      OBVIOUS
    <2> HIDE DEF shape
    <2> QED BY <2>1, LenIs
  <1>2. /\ S[n] = [base \in Int |-> ValueAtByteOffset(buf, base)]
        /\ \A d \in 0..(n - 1) : S[d] = Rows(layout, d + 1, S[d + 1])
    <2>1. n \in Nat /\ Len(layout.shape) = n
      BY <1>1
    <2> QED BY <2>1, SliceAtIs
  <1>3. \A index \in Indexes(shape), d \in 0..n : Begin(layout, index, d) \in places
    <2> HIDE DEF places
    <2>1. \A index \in Indexes(layout.shape) : At(layout, index) \in places
      BY DEF places
    <2>2. \A index \in Indexes(layout.shape), d \in 0..n :
            layout.offset + Moves(layout, index)[d] \in places
      BY <2>1, SlicesWithin
    <2> QED BY <2>2 DEF Begin
  <1>4. ASSUME NEW index \in Indexes(shape), NEW d \in 1..n, NEW i \in 1..shape[d]
        PROVE  /\ [index EXCEPT ![d] = i] \in Indexes(shape)
               /\ Wrap(Begin(layout, index, d - 1) + (i - 1) * layout.strides[d])
                    = Begin(layout, [index EXCEPT ![d] = i], d)
    <2> HIDE DEF places
    <2>1. \A x \in Indexes(layout.shape) : At(layout, x) \in places
      BY DEF places
    <2>2. places \subseteq Int64 /\ index \in Indexes(layout.shape) /\ i \in 1..layout.shape[d]
      BY DEF places
    <2>3. NextRow(layout, index, d, i)
      BY <2>1, <2>2, RowsBegin
    <2> QED BY <2>3 DEF NextRow
  <1>5. \A index \in Indexes(shape) :
          There(buf, layout, index, n) = ValueAtByteOffset(buf, At(layout, index))
    <2> SUFFICES ASSUME NEW index \in Indexes(shape)
                 PROVE  There(buf, layout, index, n) = ValueAtByteOffset(buf, At(layout, index))
      OBVIOUS
    <2>1. n \in 0..n
      OBVIOUS
    <2>2. Begin(layout, index, n) \in Int
      BY <1>3, <2>1
    <2>3. Begin(layout, index, n) = At(layout, index)
      BY <1>1 DEF Begin, At
    <2> QED BY <1>2, <2>2, <2>3 DEF There
  <1>6. n \in K
    <2> SUFFICES ASSUME NEW index \in Indexes(shape) PROVE There(buf, layout, index, n).kind = "value"
      OBVIOUS
    <2> DEFINE at == At(layout, index)
    <2>1. at \in Int /\ ~(at < 0) /\ ~(at > ByteLen(buf) - buf.elem)
      OBVIOUS
    <2> HIDE DEF at
    <2>2. ValueAtByteOffset(buf, at).kind = "value"
      BY <2>1 DEF ValueAtByteOffset, Value
    <2> QED BY <1>5, <2>2 DEF at
  <1> HIDE DEF shape, places, S
  <1>7. ASSUME NEW d \in 1..n, d \in K, NEW index \in Indexes(shape)
        PROVE  There(buf, layout, index, d - 1)
                 = Value([i \in 1..shape[d] |-> There(buf, layout, [index EXCEPT ![d] = i], d).value])
    <2> DEFINE base == Begin(layout, index, d - 1)
               row(i) == S[d][Wrap(base + (i - 1) * layout.strides[d])]
               there(i) == There(buf, layout, [index EXCEPT ![d] = i], d)
    <2>1. base \in Int /\ d - 1 \in 0..(n - 1) /\ (d - 1) + 1 = d
      <3>1. d - 1 \in 0..n /\ d - 1 \in 0..(n - 1) /\ (d - 1) + 1 = d
        OBVIOUS
      <3> QED BY <1>3, <3>1 DEF places
    <2>2. \A i \in 1..shape[d] : row(i) = there(i) /\ there(i).kind = "value"
      <3> SUFFICES ASSUME NEW i \in 1..shape[d] PROVE row(i) = there(i) /\ there(i).kind = "value"
        OBVIOUS
      <3>1. /\ [index EXCEPT ![d] = i] \in Indexes(shape)
            /\ Wrap(base + (i - 1) * layout.strides[d]) = Begin(layout, [index EXCEPT ![d] = i], d)
        BY <1>4
      <3> HIDE DEF base
      <3>2. row(i) = there(i)
        BY <3>1 DEF There, S
      <3>3. there(i).kind = "value"
        BY <1>7, <3>1
      <3> QED BY <3>2, <3>3
    <2>3. There(buf, layout, index, d - 1) = Rows(layout, d, S[d])[base]
      BY <1>2, <2>1 DEF There, S
    <2> HIDE DEF base
    <2>4. Rows(layout, d, S[d])[base] = Value([i \in 1..shape[d] |-> row(i).value])
      <3>1. Readable(layout, d, S[d], base)
        BY <2>2 DEF shape, Readable
      <3>2. Rows(layout, d, S[d])[base] = Value(ReadOf(layout, d, S[d], base))
        BY <2>1, <3>1, RowsAre
      <3> QED BY <3>2 DEF shape, ReadOf
    <2> HIDE DEF row, there
    <2>5. [i \in 1..shape[d] |-> row(i).value] = [i \in 1..shape[d] |-> there(i).value]
      BY <2>2
    <2> QED BY <2>3, <2>4, <2>5 DEF there
  <1>8. \A d \in 0..(n - 1) : d + 1 \in K => d \in K
    <2> SUFFICES ASSUME NEW d \in 0..(n - 1), d + 1 \in K PROVE d \in K
      OBVIOUS
    <2>4. d \in 0..n
      OBVIOUS
    <2> SUFFICES ASSUME NEW index \in Indexes(shape)
                 PROVE  There(buf, layout, index, d).kind = "value"
      BY <2>4
    <2>1. d + 1 \in 1..n /\ (d + 1) - 1 = d
      OBVIOUS
    <2> DEFINE e == d + 1
    <2>2. e \in 1..n /\ e - 1 = d /\ e \in K
      BY <2>1
    <2> HIDE DEF e
    <2>3. There(buf, layout, index, e - 1)
            = Value([i \in 1..shape[e] |-> There(buf, layout, [index EXCEPT ![e] = i], e).value])
      BY <1>7, <2>2
    <2> QED BY <2>2, <2>3 DEF Value
  <1> HIDE DEF K
  <1>9. \A d \in 0..n : d \in K
    BY <1>6, <1>8, Descend
  <1>10. ASSUME NEW index \in Indexes(shape), NEW d \in 1..n
         PROVE  There(buf, layout, index, d - 1).value[index[d]] = There(buf, layout, index, d).value
    <2>1. d \in K /\ shape \in [1..n -> Int]
      BY <1>9 DEF shape
    <2>2. index \in [1..n -> Nat \ {0}] /\ \A k \in 1..n : index[k] <= shape[k]
      BY <2>1, IndexesAre
    <2>3. index[d] \in 1..shape[d] /\ [index EXCEPT ![d] = index[d]] = index
      BY <2>1, <2>2
    <2> DEFINE rows == [i \in 1..shape[d] |-> There(buf, layout, [index EXCEPT ![d] = i], d).value]
    <2>4. There(buf, layout, index, d - 1) = Value(rows)
      BY <1>7, <2>1
    <2>5. rows[index[d]] = There(buf, layout, index, d).value
      BY <2>3
    <2> HIDE DEF rows
    <2> QED BY <2>4, <2>5 DEF Value
  <1> QED BY <1>5, <1>9, <1>10 DEF shape, K, Followed
(* An element is what lies behind the first dimension, at its place.       *)
Reaches(buf, layout, k) ==
  Element(buf, layout, k) = SliceAt(buf, layout)[1][Wrap(layout.offset + k * layout.strides[1])]

LEMMA ElementIs ==
  ASSUME NEW n \in Nat \ {0}, NEW buf, NEW layout,
         layout.shape \in [1..n -> Int], layout.strides \in [1..n -> Int], layout.offset \in Int,
         buf.meta.nulls = 0, NEW k \in Int
  PROVE  Reaches(buf, layout, k)
  <1> SUFFICES Element(buf, layout, k)
                 = SliceAt(buf, layout)[1][Wrap(layout.offset + k * layout.strides[1])]
    BY DEF Reaches
  <1> DEFINE shape == layout.shape
             S == SliceAt(buf, layout)
             offset == layout.offset
             step == layout.strides[1]
             at == Wrap(offset + k * step)
  <1>1. Len(shape) = n
    <2>1. shape = [i \in 1..n |-> shape[i]]
      OBVIOUS
    <2> HIDE DEF shape
    <2> QED BY <2>1, LenIs
  <1>2. S[n] = [base \in Int |-> ValueAtByteOffset(buf, base)]
    <2>1. n \in Nat /\ Len(layout.shape) = n
      BY <1>1
    <2> QED BY <2>1, SliceAtIs
  <1>3. at \in Int
    <2>1. step \in Int /\ offset \in Int
      OBVIOUS
    <2> HIDE DEF step, offset
    <2>2. k * step \in Int
      BY <2>1, TimesInt
    <2>3. offset + k * step \in Int
      BY <2>1, <2>2
    <2> QED BY <2>3, WrapIs
  <1>4. CASE n > 1
    BY <1>1, <1>4 DEF Element
  <1>5. CASE n = 1
    <2>1. NullIsKnown(buf, k) /\ ~ValueIsNull(buf, k)
      BY DEF NullIsKnown, ValueIsNull
    <2>2. Element(buf, layout, k) = ValueAtByteOffset(buf, at)
      BY <1>1, <1>5, <2>1 DEF Element
    <2> HIDE DEF at, S
    <2>3. S[1][at] = ValueAtByteOffset(buf, at)
      BY <1>2, <1>3, <1>5
    <2> QED BY <2>2, <2>3 DEF at, S
  <1> QED BY <1>4, <1>5

(* What is iterated over is the slice that is all of the table.            *)
IteratesAll(buf, ref, layout) == Iter(buf, ref) = SliceAt(buf, layout)[0][layout.offset]
LEMMA IterIs ==
  ASSUME NEW n \in Nat \ {0}, NEW buf, NEW ref, NEW layout, layout = LogicalLayout(buf, ref),
         layout.shape \in [1..n -> Int], layout.strides \in [1..n -> Int], layout.offset \in Int,
         layout.length = layout.shape[1], buf.meta.nulls = 0, Accepted(buf, ref),
         SliceAt(buf, layout)[0][layout.offset].kind = "value"
  PROVE  IteratesAll(buf, ref, layout)
  <1> DEFINE shape == layout.shape
             S == SliceAt(buf, layout)
             offset == layout.offset
             step == layout.strides[1]
             read == [i \in 1..shape[1] |-> Element(buf, layout, i - 1)]
             bad == {i \in DOMAIN read : read[i].kind # "value"}
  <1>1. Len(shape) = n
    <2>1. shape = [i \in 1..n |-> shape[i]]
      OBVIOUS
    <2> HIDE DEF shape
    <2> QED BY <2>1, LenIs
  <1>2. /\ S[n] = [base \in Int |-> ValueAtByteOffset(buf, base)]
        /\ \A d \in 0..(n - 1) : S[d] = Rows(layout, d + 1, S[d + 1])
    <2>1. n \in Nat /\ Len(layout.shape) = n
      BY <1>1
    <2> QED BY <2>1, SliceAtIs
  <1>3. S[0] = Rows(layout, 1, S[1])
    <2>1. 0 \in 0..(n - 1) /\ 0 + 1 = 1
      OBVIOUS
    <2> QED BY <1>2, <2>1
  <1>4. ASSUME NEW k \in Int PROVE Element(buf, layout, k) = S[1][Wrap(offset + k * step)]
    <2>1. Reaches(buf, layout, k)
      BY ElementIs
    <2> QED BY <2>1 DEF Reaches
  <1>5. /\ Readable(layout, 1, S[1], offset)
        /\ S[0][offset] = Value(ReadOf(layout, 1, S[1], offset))
    <2>1. Rows(layout, 1, S[1])[offset].kind = "value"
      BY <1>3
    <2> HIDE DEF S
    <2>2. Readable(layout, 1, S[1], offset)
      BY <2>1, RowsAre
    <2>3. Rows(layout, 1, S[1])[offset] = Value(ReadOf(layout, 1, S[1], offset))
      BY <2>2, RowsAre
    <2> QED BY <1>3, <2>2, <2>3
  <1>6. Iter(buf, ref) = IF bad # {} THEN read[CHOOSE i \in bad : \A j \in bad : i <= j]
                         ELSE Value([i \in DOMAIN read |-> read[i].value])
    BY DEF Iter
  <1> HIDE DEF S
  <1> DEFINE row(i) == S[1][Wrap(offset + (i - 1) * step)]
  <1>7. \A i \in 1..shape[1] : Element(buf, layout, i - 1) = row(i)
    <2> SUFFICES ASSUME NEW i \in 1..shape[1] PROVE Element(buf, layout, i - 1) = row(i)
      OBVIOUS
    <2>1. i - 1 \in Int
      OBVIOUS
    <2> QED BY <1>4, <2>1
  <1>8. \A i \in 1..shape[1] : read[i].kind = "value"
    <2>1. \A i \in 1..shape[1] : row(i).kind = "value"
      BY <1>5 DEF Readable
    <2> HIDE DEF shape, row
    <2>2. \A i \in 1..shape[1] : read[i] = Element(buf, layout, i - 1)
      OBVIOUS
    <2> HIDE DEF read, offset, step
    <2> QED BY <1>7, <2>1, <2>2
  <1>9. [i \in DOMAIN read |-> read[i].value] = ReadOf(layout, 1, S[1], offset)
    BY <1>7 DEF ReadOf
  <1>10. DOMAIN read = 1..shape[1]
    OBVIOUS
  <1> HIDE DEF read
  <1>11. bad = {}
    BY <1>8, <1>10
  <1> QED BY <1>5, <1>6, <1>9, <1>11 DEF S, IteratesAll

(* A table whose elements all lie in its buffer is read in full, each      *)
(* element from its own place.                                             *)
ReadInFull(buf, ref, layout, shape) ==
  /\ Iter(buf, ref).kind = "value"
  /\ \A index \in Indexes(shape) :
       Value(Pick(Iter(buf, ref).value, index)) = ValueAtByteOffset(buf, At(layout, index))

LEMMA FullRead ==
  ASSUME NEW n \in Nat \ {0}, NEW buf, NEW ref, NEW layout, layout = LogicalLayout(buf, ref),
         layout.shape \in [1..n -> Nat \ {0}], layout.strides \in [1..n -> Int],
         layout.offset \in Int, layout.length = layout.shape[1], buf.meta.nulls = 0,
         Accepted(buf, ref),
         ByteLen(buf) - buf.elem \in Int, 0..(ByteLen(buf) - buf.elem) \subseteq Int64,
         \A index \in Indexes(layout.shape) : At(layout, index) \in 0..(ByteLen(buf) - buf.elem)
  PROVE  ReadInFull(buf, ref, layout, layout.shape)
  <1> DEFINE shape == layout.shape
             all == SliceAt(buf, layout)[0][layout.offset]
  <1>1. layout.shape \in [1..n -> Int] /\ Indexes(layout.shape) # {}
    <2>1. shape \in [1..n -> Nat \ {0}] /\ shape \in [1..n -> Int]
      OBVIOUS
    <2> HIDE DEF shape
    <2>2. Indexes(shape) # {}
      BY <2>1, IndexesAre
    <2> QED BY <2>1, <2>2 DEF shape
  <1>2. \A index \in Indexes(layout.shape) : Followed(n, buf, layout, index)
    BY SlicesAre
  <1>3. ASSUME NEW index \in Indexes(layout.shape)
        PROVE  /\ index \in [1..n -> Nat \ {0}] /\ There(buf, layout, index, 0) = all
    <2>1. index \in [1..n -> Nat \ {0}]
      BY <1>1, IndexesAre
    <2>2. MovesLaw(n, layout, index)
      BY <1>1, <2>1, MovesAre
    <2>3. layout.offset + 0 = layout.offset /\ Moves(layout, index)[0] = 0
      BY <2>2 DEF MovesLaw
    <2> QED BY <2>1, <2>3 DEF There, Begin
  <1>4. all.kind = "value"
    <2>1. PICK index : index \in Indexes(layout.shape)
      BY <1>1
    <2>2. 0 \in 0..n
      OBVIOUS
    <2> QED BY <1>2, <1>3, <2>1, <2>2 DEF Followed
  <1>5. Iter(buf, ref) = all
    <2>1. SliceAt(buf, layout)[0][layout.offset].kind = "value"
      BY <1>4
    <2>2. layout.shape \in [1..n -> Int]
      BY <1>1
    <2>3. IteratesAll(buf, ref, layout)
      BY <2>1, <2>2, IterIs
    <2> QED BY <2>3 DEF IteratesAll
  <1> HIDE DEF all
  <1>6. ASSUME NEW index \in Indexes(layout.shape)
        PROVE  Value(Pick(Iter(buf, ref).value, index)) = ValueAtByteOffset(buf, At(layout, index))
    <2> DEFINE P == [d \in 0..n |-> There(buf, layout, index, d).value]
               found == ValueAtByteOffset(buf, At(layout, index))
    <2>1. Len(index) = n
      <3>1. index = [i \in 1..n |-> index[i]]
        BY <1>3
      <3> QED BY <3>1, LenIs
    <2>2. \A d \in 1..n : P[d] = P[d - 1][index[d]]
      BY <1>2 DEF Followed
    <2>3. P[0] = Iter(buf, ref).value /\ P[n] = found.value /\ found.kind = "value"
      BY <1>2, <1>3, <1>5, SMTT(30) DEF Followed
    <2> HIDE DEF P
    <2>4. Pick(P[0], index) = P[n]
      <3>1. n \in Nat
        OBVIOUS
      <3>2. PicksLast(n, index, P)
        BY <2>1, <2>2, <3>1, PickIs
      <3> QED BY <3>2 DEF PicksLast
    <2>5. Value(found.value) = found
      BY <2>3 DEF ValueAtByteOffset, Value, Missing
    <2> HIDE DEF found
    <2> QED BY <2>3, <2>4, <2>5 DEF found
  <1> QED BY <1>4, <1>5, <1>6 DEF ReadInFull

(* A table with a dimension of 0 has nothing to read.                      *)
LEMMA EmptyRead ==
  ASSUME NEW n \in Nat \ {0}, NEW buf, NEW ref, NEW layout, layout = LogicalLayout(buf, ref),
         layout.shape \in [1..n -> Int], layout.strides \in [1..n -> Int],
         layout.offset \in Int, layout.length = layout.shape[1], buf.meta.nulls = 0,
         Accepted(buf, ref), NEW z \in 1..n, layout.shape[z] = 0
  PROVE  Iter(buf, ref).kind = "value"
  <1> DEFINE shape == layout.shape
             S == SliceAt(buf, layout)
             K == {d \in 0..(z - 1) : \A base \in Int : S[d][base].kind = "value"}
  <1>1. /\ S[n] = [base \in Int |-> ValueAtByteOffset(buf, base)]
        /\ \A d \in 0..(n - 1) : S[d] = Rows(layout, d + 1, S[d + 1])
    <2>1. shape = [i \in 1..n |-> shape[i]]
      OBVIOUS
    <2> HIDE DEF shape
    <2>2. Len(shape) = n
      BY <2>1, LenIs
    <2>3. n \in Nat /\ Len(layout.shape) = n
      BY <2>2 DEF shape
    <2> QED BY <2>3, SliceAtIs
  <1> HIDE DEF S
  <1>2. ASSUME NEW d \in 0..(n - 1), NEW base \in Int, Readable(layout, d + 1, S[d + 1], base)
        PROVE  S[d][base].kind = "value"
    <2>1. Rows(layout, d + 1, S[d + 1])[base] = Value(ReadOf(layout, d + 1, S[d + 1], base))
      BY <1>2, RowsAre
    <2> QED BY <1>1, <2>1 DEF Value
  <1>3. z - 1 \in K
    <2> SUFFICES ASSUME NEW base \in Int PROVE S[z - 1][base].kind = "value"
      OBVIOUS
    <2>1. z - 1 \in 0..(n - 1) /\ (z - 1) + 1 = z
      OBVIOUS
    <2>2. Readable(layout, (z - 1) + 1, S[(z - 1) + 1], base)
      BY <2>1 DEF Readable
    <2> QED BY <1>2, <2>1, <2>2
  <1>4. \A d \in 0..((z - 1) - 1) : d + 1 \in K => d \in K
    <2> SUFFICES ASSUME NEW d \in 0..((z - 1) - 1), d + 1 \in K PROVE d \in K
      OBVIOUS
    <2>4. d \in 0..(z - 1)
      OBVIOUS
    <2> SUFFICES ASSUME NEW base \in Int PROVE S[d][base].kind = "value"
      BY <2>4
    <2>1. d \in 0..(n - 1) /\ d + 1 \in 1..n
      <3> HIDE DEF K, shape
      <3> QED OBVIOUS
    <2>2. ASSUME NEW i \in 1..shape[d + 1]
          PROVE  Wrap(base + (i - 1) * layout.strides[d + 1]) \in Int
      <3> DEFINE step == layout.strides[d + 1]
      <3>1. step \in Int
        BY <2>1
      <3>2. i - 1 \in Int
        BY <2>1
      <3> HIDE DEF step
      <3>3. (i - 1) * step \in Int
        BY <3>1, <3>2, TimesInt
      <3>4. base + (i - 1) * step \in Int
        BY <3>3
      <3> QED BY <3>4, WrapIs DEF step
    <2>3. Readable(layout, d + 1, S[d + 1], base)
      BY <2>2 DEF Readable
    <2> QED BY <1>2, <2>1, <2>3
  <1> HIDE DEF K
  <1>5. z - 1 \in Nat
    OBVIOUS
  <1>6. \A d \in 0..(z - 1) : d \in K
    BY <1>3, <1>4, <1>5, Descend
  <1>7. S[0][layout.offset].kind = "value"
    <2>1. 0 \in 0..(z - 1)
      OBVIOUS
    <2> QED BY <1>6, <2>1 DEF K
  <1>8. SliceAt(buf, layout)[0][layout.offset].kind = "value"
    BY <1>7 DEF S
  <1>9. IteratesAll(buf, ref, layout)
    BY <1>8, IterIs
  <1> QED BY <1>8, <1>9 DEF IteratesAll
(* What LayoutsAreExact says of one table.                                 *)
Exact(buf, ref, layout, shape) ==
  /\ Accepted(buf, ref) <=> ShapeProduct(shape) # Failed /\ Fits(buf, ref)
  /\ Accepted(buf, ref) => ReadInFull(buf, ref, layout, shape)

LEMMA TableExact ==
  ASSUME NEW n \in Nat \ {0}, NEW shape \in [1..n -> Int],
         NEW strides \in {<<>>} \cup [1..n -> Int],
         NEW elem \in 1..MaxInt, NEW count \in Nat, count * elem <= MaxInt, NEW offset \in Int64,
         NEW buf, buf = Plain(count, elem), NEW ref, ref = TableRef(shape, strides, offset),
         NEW layout, layout = LogicalLayout(buf, ref), SumsStay(buf, ref)
  PROVE  Exact(buf, ref, layout, shape)
  <1> DEFINE bytes == count * elem
  <1>1. MaxInt \in Nat \ {0} /\ offset \in Int
    BY WidthAssumption DEF Int64
  <1>2. LayoutFacts(n, shape, strides, elem, count, offset, buf, ref, layout)
    BY <1>1, LayoutIs
  <1>3. /\ ref.shape = shape /\ buf.elem = elem /\ buf.meta.nulls = 0 /\ ByteLen(buf) = bytes
        /\ layout.shape = shape /\ layout.offset = offset /\ layout.length = shape[1]
        /\ layout.strides \in [1..n -> Int]
        /\ Accepted(buf, ref) <=> Asked(buf, shape, strides, elem, offset)
    BY <1>2 DEF LayoutFacts
  <1>4. bytes \in Nat /\ bytes <= MaxInt /\ elem \in Nat /\ bytes - elem \in Int
    <2>1. count \in Nat /\ elem \in Nat
      BY <1>1
    <2> QED BY <2>1
  <1>5. Accepted(buf, ref) => ShapeProduct(shape) # Failed
    BY <1>3 DEF Asked
  <1> HIDE DEF bytes
  <1>6. CASE ShapeProduct(shape) = Failed
    BY <1>5, <1>6 DEF Exact
  <1>7. CASE ShapeProduct(shape) # Failed /\ \E z \in 1..n : shape[z] = 0
    <2>1. Accepted(buf, ref) <=> Fits(buf, ref)
      BY <1>7, EmptyExact
    <2>2. Indexes(shape) = {}
      BY <1>7, IndexesAre
    <2>3. Accepted(buf, ref) => Iter(buf, ref).kind = "value"
      <3> SUFFICES ASSUME Accepted(buf, ref) PROVE Iter(buf, ref).kind = "value"
        OBVIOUS
      <3>1. PICK z \in 1..n : shape[z] = 0
        BY <1>7
      <3>2. /\ layout.shape \in [1..n -> Int] /\ layout.offset \in Int
            /\ layout.length = layout.shape[1] /\ layout.shape[z] = 0
        BY <1>1, <1>3, <3>1
      <3>3. layout.strides \in [1..n -> Int] /\ buf.meta.nulls = 0
        BY <1>3
      <3> QED BY <3>2, <3>3, EmptyRead
    <2> QED BY <1>7, <2>1, <2>2, <2>3 DEF Exact, ReadInFull
  <1>8. CASE ShapeProduct(shape) # Failed /\ \A z \in 1..n : shape[z] # 0
    <2>1. shape \in [1..n -> Nat \ {0}]
      <3>1. \A i \in 1..n : shape[i] \in Nat \ {0}
        BY <1>8, Counted
      <3> QED BY <3>1
    <2>2. Accepted(buf, ref) <=> Fits(buf, ref)
      BY <1>8, <2>1, PositiveExact
    <2>3. Indexes(shape) # {}
      BY <2>1, IndexesAre
    <2>4. ASSUME Accepted(buf, ref)
          PROVE  ReadInFull(buf, ref, layout, layout.shape)
      <3>1. /\ layout.shape \in [1..n -> Nat \ {0}] /\ layout.offset \in Int
            /\ layout.length = layout.shape[1]
        BY <1>1, <1>3, <2>1
      <3>2. ByteLen(buf) - buf.elem \in Int /\ 0..(ByteLen(buf) - buf.elem) \subseteq Int64
        <4>1. 0..(bytes - elem) \subseteq Int64
          BY <1>1, <1>4 DEF Int64
        <4> QED BY <1>3, <1>4, <4>1
      <3>3. \A index \in Indexes(layout.shape) : At(layout, index) \in 0..(ByteLen(buf) - buf.elem)
        BY <1>3, <2>2, <2>3, <2>4 DEF Fits
      <3>4. layout.strides \in [1..n -> Int] /\ buf.meta.nulls = 0
        BY <1>3
      <3> QED BY <2>4, <3>1, <3>2, <3>3, <3>4, FullRead
    <2> QED BY <1>3, <1>8, <2>2, <2>4 DEF Exact
  <1> QED BY <1>6, <1>7, <1>8

(* The property of the layouts, whatever the shapes, the strides, the      *)
(* offsets, the widths and the counts.                                     *)
THEOREM ExactLayouts == LayoutsAreExact
  <1> SUFFICES ASSUME NEW rank \in Ranks, NEW elem \in Widths, NEW count \in Counts,
                      NEW offset \in Offsets, NEW shape \in [1..rank -> Dims],
                      NEW strides \in {<<>>} \cup [1..rank -> StrideBytes],
                      SumsStay(Plain(count, elem), TableRef(shape, strides, offset))
               PROVE  Exact(Plain(count, elem), TableRef(shape, strides, offset),
                            LogicalLayout(Plain(count, elem), TableRef(shape, strides, offset)), shape)
    BY DEF LayoutsAreExact, Exact, ReadInFull, TableRef
  <1>1. MaxInt \in Nat \ {0} /\ Int64 \subseteq Int
    BY WidthAssumption DEF Int64
  <1>2. rank \in Nat \ {0} /\ elem \in 1..MaxInt /\ count \in Nat /\ count * elem <= MaxInt
    BY LayoutAssumption
  <1>3. offset \in Int64 /\ Dims \subseteq Int /\ StrideBytes \subseteq Int
    BY <1>1, LayoutAssumption
  <1>4. shape \in [1..rank -> Int]
    BY <1>3
  <1>5. strides \in {<<>>} \cup [1..rank -> Int]
    BY <1>3
  <1> QED BY <1>2, <1>3, <1>4, <1>5, TableExact

----------------------------------------------------------------------------
(* C arrays                                                                *)

(* A whole number of widths.                                               *)
LEMMA WidthsDivide ==
  ASSUME NEW k \in Nat, NEW elem \in Nat \ {0}
  PROVE  (k * elem) \div elem = k /\ (k * elem) % elem = 0 /\ k * elem \in Nat
  <1>1. k * elem \in Nat /\ k * elem = elem * k + 0
    OBVIOUS
  <1> DEFINE a == k * elem
  <1>2. a \in Int /\ a = elem * k + 0 /\ 0 \in 0..(elem - 1) /\ k \in Int
    BY <1>1
  <1> HIDE DEF a
  <1>3. a \div elem = k /\ a % elem = 0
    BY <1>2, DivUnique
  <1> QED BY <1>1, <1>3 DEF a

(* The bytes of a bitmap hold the bits they are counted for.               *)
LEMMA BitsFit ==
  ASSUME NEW bit \in Nat, NEW bits \in Nat, bit < bits
  PROVE  bit \div 8 < (bits + 7) \div 8
  OBVIOUS

(* The nulls of an array are counted, and an array that has some is not    *)
(* empty.                                                                  *)
LEMMA NullsAre ==
  ASSUME NEW clear \in SUBSET (0..(MaxItems - 1)), NEW length \in 0..MaxItems, NEW offset \in 0..MaxItems
  PROVE  LET nulls == Cardinality(clear \cap offset..(offset + length - 1))
         IN  /\ nulls \in Nat
             /\ nulls > 0 => length > 0
  <1> DEFINE window == clear \cap offset..(offset + length - 1)
             nulls == Cardinality(window)
  <1>1. MaxItems \in Nat /\ MaxItems - 1 \in Int
    BY LayoutAssumption
  <1>2. IsFiniteSet(0..(MaxItems - 1))
    BY <1>1, FS_Interval
  <1>3. IsFiniteSet(window)
    <2>1. window \subseteq 0..(MaxItems - 1)
      OBVIOUS
    <2> HIDE DEF window
    <2> QED BY <1>2, <2>1, FS_Subset
  <1> HIDE DEF window
  <1>4. nulls \in Nat /\ (nulls = 0 <=> window = {})
    BY <1>3, FS_CardinalityType, FS_EmptySet
  <1>5. nulls > 0 => length > 0
    <2>1. length = 0 => window = {}
      BY <1>1 DEF window
    <2> QED BY <1>1, <1>4, <2>1
  <1> QED BY <1>4, <1>5 DEF window
(* One array, its nulls known only by what was said of them above.         *)
LEMMA ArraySurvives ==
  ASSUME NEW elem \in Nat \ {0}, NEW length \in Nat, NEW offset \in Nat, NEW nulls \in Nat,
         NEW items, NEW valid, NEW array,
         array = [items |-> items, elem |-> elem, length |-> length, offset |-> offset,
                  bitmap |-> TRUE, valid |-> valid, nulls |-> nulls],
         length * elem <= MaxInt, offset * elem <= MaxInt, offset + length <= MaxInt,
         nulls > 0 => length > 0
  PROVE  /\ Importable(array)
         /\ Iter(ImportCArrowArray(array), NoTable) = Value(Elements(array))
         /\ Exportable(ImportCArrowArray(array))
         /\ nulls = 0 \/ offset = 0 =>
              Elements(BorrowCArrowArray(ImportCArrowArray(array))) = Elements(array)
  <1> DEFINE buf == ImportCArrowArray(array)
             bytes == ValidityByteLen(offset, length, nulls)
             held == [i \in 1..length |-> items[offset + i]]
             bits == {bit \in valid : bit \div 8 < bytes}
             null(i) == nulls > 0 /\ offset + i - 1 \notin valid
             element(i) == IF null(i) THEN Null ELSE items[offset + i]
  <1>1. MaxInt \in Nat \ {0} /\ elem \in Int /\ length \in Int /\ offset \in Int
    BY WidthAssumption
  <1>2. Importable(array)
    <2>1. length <= MaxInt \div elem /\ offset <= MaxInt \div elem
      BY <1>1, DivAtMost
    <2>2. offset <= MaxInt - length
      BY <1>1
    <2> QED BY <1>1, <2>1, <2>2 DEF Importable
  <1>3. /\ buf.items = held /\ buf.elem = elem /\ buf.valid.bytes = bytes /\ buf.valid.bits = bits
        /\ buf.meta.shape = <<>> /\ buf.meta.strides = <<>> /\ buf.meta.offset = 0
        /\ buf.meta.nulls = nulls /\ buf.meta.bit = offset
    BY DEF ImportCArrowArray
  <1>4. Elements(array) = [i \in 1..length |-> element(i)]
    BY DEF Elements
  <1> HIDE DEF buf
  <1>5. Len(held) = length /\ \A i \in 1..length : held[i] = items[offset + i]
    <2>1. \A i \in 1..length : held[i] = items[offset + i]
      OBVIOUS
    <2>2. held = [i \in 1..length |-> held[i]]
      OBVIOUS
    <2> HIDE DEF held
    <2> QED BY <2>1, <2>2, LenIs
  <1> HIDE DEF held
  <1>6. /\ ByteLen(buf) = length * elem /\ length * elem \in Nat
        /\ (length * elem) \div elem = length
    BY <1>3, <1>5, WidthsDivide DEF ByteLen
  <1>7. /\ nulls > 0 => bytes > 0
        /\ \A i \in 1..length : nulls > 0 => (offset + (i - 1)) \div 8 < bytes
    <2> SUFFICES ASSUME nulls > 0
                 PROVE  bytes > 0 /\ \A i \in 1..length : (offset + (i - 1)) \div 8 < bytes
      OBVIOUS
    <2>1. bytes = (offset + length + 7) \div 8
      BY <1>1 DEF ValidityByteLen
    <2> HIDE DEF bytes
    <2>2. \A i \in 1..length : (offset + (i - 1)) \div 8 < bytes
      <3> SUFFICES ASSUME NEW i \in 1..length PROVE (offset + (i - 1)) \div 8 < bytes
        OBVIOUS
      <3>1. offset + (i - 1) \in Nat /\ offset + length \in Nat /\ offset + (i - 1) < offset + length
        BY <1>1
      <3> QED BY <2>1, <3>1, BitsFit
    <2>3. bytes > 0
      BY <1>1, <2>1
    <2> QED BY <2>2, <2>3
  <1> HIDE DEF bytes
  <1>8. \A i \in 1..length : nulls > 0 => (offset + (i - 1) \in bits <=> offset + i - 1 \in valid)
    <2> SUFFICES ASSUME NEW i \in 1..length, nulls > 0
                 PROVE  offset + (i - 1) \in bits <=> offset + i - 1 \in valid
      OBVIOUS
    <2>1. offset + (i - 1) = offset + i - 1
      BY <1>1
    <2> QED BY <1>7, <2>1
  <1> HIDE DEF bits
  <1>9. Iter(buf, NoTable) = Value(Elements(array))
    <2> DEFINE layout == LogicalLayout(buf, NoTable)
    <2>1. Len(TableShape(buf, NoTable)) = 0
      BY <1>3 DEF TableShape, NoTable
    <2>2. Accepted(buf, NoTable)
      BY <2>1 DEF Accepted
    <2>3. layout.length = length /\ layout.shape = <<>> /\ layout.strides[1] = elem /\ layout.offset = 0
      BY <1>3, <1>5, <2>1 DEF LogicalLayout, NoTable
    <2> HIDE DEF layout
    <2>4. ASSUME NEW i \in 1..length PROVE Element(buf, layout, i - 1) = Value(element(i))
      <3> DEFINE at == (i - 1) * elem
      <3>1. i - 1 \in Nat /\ i - 1 <= length - 1 /\ (i - 1) + 1 = i
        OBVIOUS
      <3>2. at \in Nat /\ at % elem = 0 /\ at \div elem = i - 1
        BY <3>1, WidthsDivide
      <3>3. at <= length * elem - elem
        <4>1. (i - 1) * elem <= (length - 1) * elem
          BY <1>1, <3>1, TimesMono
        <4>2. (length - 1) * elem = length * elem - elem
          BY <1>1
        <4> QED BY <4>1, <4>2
      <3> HIDE DEF at
      <3>4. Wrap(0 + at) = at
        <4>1. 0 + at = at /\ at \in Int
          BY <3>2
        <4>2. at \in Int64
          BY <1>1, <1>6, <3>2, <3>3 DEF Int64
        <4> QED BY <4>1, <4>2, WrapIs
      <3>5. ValueAtByteOffset(buf, at) = Value(items[offset + i])
        <4>1. ~(at < 0) /\ ~(at > ByteLen(buf) - buf.elem) /\ at % buf.elem = 0
          BY <1>1, <1>3, <1>6, <3>2, <3>3
        <4>2. buf.items[at \div buf.elem + 1] = items[offset + i]
          BY <1>3, <1>5, <3>1, <3>2
        <4> QED BY <4>1, <4>2 DEF ValueAtByteOffset
      <3>6. NullIsKnown(buf, i - 1)
        BY <1>3, <1>7 DEF NullIsKnown
      <3>7. ValueIsNull(buf, i - 1) <=> null(i)
        BY <1>3, <1>8 DEF ValueIsNull
      <3>8. Len(layout.shape) = 0
        BY <2>3
      <3>9. Wrap(layout.offset + (i - 1) * layout.strides[1]) = at
        BY <2>3, <3>4 DEF at
      <3> HIDE DEF null
      <3>10. Element(buf, layout, i - 1)
               = IF ValueIsNull(buf, i - 1) THEN Value(Null) ELSE ValueAtByteOffset(buf, at)
        BY <3>6, <3>8, <3>9 DEF Element
      <3> QED BY <3>5, <3>7, <3>10
    <2> DEFINE read == [i \in 1..length |-> Element(buf, layout, i - 1)]
               bad == {i \in DOMAIN read : read[i].kind # "value"}
    <2>5. Iter(buf, NoTable) = IF bad # {} THEN read[CHOOSE i \in bad : \A j \in bad : i <= j]
                               ELSE Value([i \in DOMAIN read |-> read[i].value])
      BY <2>2, <2>3 DEF Iter, layout
    <2> HIDE DEF element
    <2>6. DOMAIN read = 1..length /\ \A i \in 1..length : read[i] = Value(element(i))
      BY <2>4
    <2> HIDE DEF read
    <2>7. \A i \in 1..length : read[i].kind = "value" /\ read[i].value = element(i)
      BY <2>6 DEF Value
    <2>8. bad = {}
      BY <2>6, <2>7
    <2>9. [i \in DOMAIN read |-> read[i].value] = [i \in 1..length |-> element(i)]
      BY <2>6, <2>7
    <2> QED BY <1>4, <2>5, <2>8, <2>9
  <1>10. 0 % elem = 0 /\ 0 \div elem = 0
    <2>1. 0 = elem * 0 + 0 /\ 0 \in 0..(elem - 1)
      OBVIOUS
    <2> QED BY <2>1, DivUnique
  <1>11. Exportable(buf)
    BY <1>3, <1>6, <1>7, <1>10 DEF Exportable, IsPrimitiveView
  <1>12. ASSUME nulls = 0 \/ offset = 0
         PROVE  Elements(BorrowCArrowArray(buf)) = Elements(array)
    <2> DEFINE again == BorrowCArrowArray(buf)
    <2>1. PrimitiveLength(buf) = length
      <3>1. Len(buf.meta.shape) = 0 /\ length * elem - 0 = length * elem
        BY <1>3, <1>6
      <3> QED BY <1>3, <1>6, <3>1 DEF PrimitiveLength
    <2>2. /\ again.items = held /\ again.length = length /\ again.offset = 0 /\ again.nulls = nulls
          /\ nulls > 0 => again.valid = bits
      BY <1>3, <1>10, <2>1 DEF BorrowCArrowArray
    <2> HIDE DEF again
    <2>3. Elements(again) = [i \in 1..length |-> IF nulls > 0 /\ 0 + i - 1 \notin again.valid
                                                 THEN Null ELSE held[0 + i]]
      BY <2>2 DEF Elements
    <2>4. ASSUME NEW i \in 1..length
          PROVE  (IF nulls > 0 /\ 0 + i - 1 \notin again.valid THEN Null ELSE held[0 + i]) = element(i)
      <3>1. 0 + i = i /\ held[0 + i] = items[offset + i]
        BY <1>5
      <3>2. CASE nulls = 0
        BY <3>1, <3>2
      <3>3. CASE nulls > 0
        <4>1. offset = 0 /\ offset + (i - 1) = 0 + i - 1 /\ offset + i - 1 = 0 + i - 1
          BY <1>12, <3>3
        <4>2. 0 + i - 1 \in again.valid <=> offset + i - 1 \in valid
          BY <1>8, <2>2, <3>3, <4>1
        <4> QED BY <3>1, <3>3, <4>2
      <3> QED BY <3>2, <3>3
    <2> QED BY <1>4, <2>3, <2>4 DEF again
  <1> QED BY <1>2, <1>9, <1>11, <1>12 DEF buf

(* The property of the C arrays, whatever their widths, lengths, offsets   *)
(* and nulls.                                                              *)
THEOREM SurvivingArrays == ArraysSurvive
  <1> SUFFICES ASSUME NEW array \in Arrays, array.offset + array.length <= MaxItems
               PROVE  LET buf == ImportCArrowArray(array)
                      IN  /\ Importable(array)
                          /\ Iter(buf, NoTable) = Value(Elements(array))
                          /\ Exportable(buf)
                          /\ array.nulls = 0 \/ array.offset = 0 =>
                               Elements(BorrowCArrowArray(buf)) = Elements(array)
    BY DEF ArraysSurvive
  <1> DEFINE one(elem, length, offset, clear) ==
               [items |-> [i \in 1..MaxItems |-> i], elem |-> elem, length |-> length, offset |-> offset,
                bitmap |-> TRUE, valid |-> (0..(MaxItems - 1)) \ clear,
                nulls |-> Cardinality(clear \cap offset..(offset + length - 1))]
             clears == {c \in SUBSET (0..(MaxItems - 1)) : Cardinality(c) <= MaxNulls}
  <1>0. Arrays = {one(elem, length, offset, clear) :
                    elem \in Widths, length \in 0..MaxItems, offset \in 0..MaxItems, clear \in clears}
    BY DEF Arrays
  <1> HIDE DEF one, clears
  <1>1. PICK elem \in Widths, length \in 0..MaxItems, offset \in 0..MaxItems, clear \in clears :
          array = one(elem, length, offset, clear)
    BY <1>0
  <1> DEFINE nulls == Cardinality(clear \cap offset..(offset + length - 1))
             items == [i \in 1..MaxItems |-> i]
             valid == (0..(MaxItems - 1)) \ clear
  <1>2. nulls \in Nat /\ (nulls > 0 => length > 0)
    BY NullsAre DEF clears
  <1>3. array = [items |-> items, elem |-> elem, length |-> length, offset |-> offset,
                 bitmap |-> TRUE, valid |-> valid, nulls |-> nulls]
    BY <1>1 DEF one
  <1> HIDE DEF nulls, items, valid
  <1>4. MaxItems \in Nat /\ elem \in 1..MaxInt /\ MaxItems * elem <= MaxInt /\ MaxInt \in Nat
    BY LayoutAssumption, WidthAssumption
  <1>5. array.offset = offset /\ array.length = length /\ array.nulls = nulls
    BY <1>3
  <1>6. elem \in Nat \ {0} /\ length \in Nat /\ offset \in Nat
    BY <1>4
  <1>7. length * elem <= MaxInt /\ offset * elem <= MaxInt /\ offset + length <= MaxInt
    <2> DEFINE most == MaxItems * elem
    <2>1. length * elem <= most /\ offset * elem <= most /\ MaxItems * 1 <= most
      BY <1>4, <1>6, TimesMono
    <2>2. length * elem \in Int /\ offset * elem \in Int /\ most \in Int
      BY <1>4, <1>6, TimesInt
    <2> HIDE DEF most
    <2>3. offset + length <= MaxItems
      BY <1>5
    <2> QED BY <1>4, <1>6, <2>1, <2>2, <2>3 DEF most
  <1> QED BY <1>2, <1>3, <1>5, <1>6, <1>7, ArraySurvives

----------------------------------------------------------------------------
(* The functions of a capture, level by level                              *)

(* What the values behind a level are made of.                             *)
NextShapes(kinds, d, inner) ==
  [value \in Nested(kinds)[d] |-> DimsOf(value, Behind(kinds, d + 1), inner)]
NextScalars(kinds, d, inner) ==
  [value \in Nested(kinds)[d] |-> FlattenSeq([i \in DOMAIN value |-> inner[value[i]]])]
NextValues(kinds, d, inner) ==
  UNION {[1..length -> inner] :
         length \in IF kinds[d + 1] = Slice THEN SliceLengths ELSE {kinds[d + 1]}}

(* Values of all lengths, behind each level.                               *)
LEMMA NestedIs ==
  ASSUME NEW n \in Nat, NEW kinds, Len(kinds) = n
  PROVE  /\ Nested(kinds)[n] = Numbers
         /\ \A d \in 0..(n - 1) : Nested(kinds)[d] = Seq(Nested(kinds)[d + 1])
  <1> DEFINE base == Numbers
             Is(g, m) == g = [d \in m..n |-> IF d = n THEN base ELSE Seq(g[d + 1])]
             S == {k \in 0..n : \E g : Is(g, n - k)}
  <1> HIDE DEF base
  <1>1. 0 \in S
    <2> DEFINE g == [d \in n..n |-> base]
    <2>1. Is(g, n - 0)
      OBVIOUS
    <2> HIDE DEF g, Is
    <2>2. \E f : Is(f, n - 0)
      BY <2>1
    <2> QED BY <2>2
  <1>2. \A k \in 1..n : k - 1 \in S => k \in S
    <2> SUFFICES ASSUME NEW k \in 1..n, NEW g, Is(g, n - (k - 1)) PROVE k \in S
      OBVIOUS
    <2> DEFINE m == n - k
               h == [d \in m..n |-> IF d > m THEN g[d] ELSE Seq(g[m + 1])]
    <2>1. m \in 0..(n - 1) /\ m + 1 = n - (k - 1)
      OBVIOUS
    <2> HIDE DEF m
    <2>2. g = [d \in (m + 1)..n |-> IF d = n THEN base ELSE Seq(g[d + 1])]
      BY <2>1
    <2>3. \A d \in m..n : h[d] = IF d = n THEN base ELSE Seq(h[d + 1])
      <3> SUFFICES ASSUME NEW d \in m..n
                   PROVE  h[d] = IF d = n THEN base ELSE Seq(h[d + 1])
        OBVIOUS
      <3>1. CASE d > m
        <4>1. h[d] = g[d] /\ d \in (m + 1)..n
          BY <2>1, <3>1
        <4>2. d # n => d + 1 \in m..n /\ d + 1 > m
          BY <2>1, <3>1
        <4>3. d # n => h[d + 1] = g[d + 1]
          BY <4>2
        <4> QED BY <2>2, <4>1, <4>3
      <3>2. CASE d = m
        <4>1. m # n /\ m + 1 \in m..n /\ m + 1 > m /\ m \in m..n /\ ~(m > m)
          BY <2>1
        <4>2. h[m + 1] = g[m + 1]
          BY <4>1
        <4> QED BY <3>2, <4>1, <4>2
      <3>3. d > m \/ d = m
        BY <2>1
      <3> QED BY <3>1, <3>2, <3>3
    <2>4. Is(h, m)
      BY <2>3
    <2> HIDE DEF h, Is
    <2>5. \E f : Is(f, m)
      BY <2>4
    <2> QED BY <2>5 DEF m
  <1> HIDE DEF S
  <1>3. \A k \in 0..n : k \in S
    <2>1. n \in Nat
      OBVIOUS
    <2> QED BY <1>1, <1>2, <2>1, Climb
  <1>4. \E g : Is(g, 0)
    <2>1. n \in 0..n /\ n - (n) = 0
      OBVIOUS
    <2>2. n \in S
      BY <1>3, <2>1
    <2> QED BY <2>1, <2>2 DEF S
  <1> DEFINE D == Nested(kinds)
  <1>5. Is(D, 0)
    <2>1. D = CHOOSE g : Is(g, 0)
      BY Zenon DEF Nested, base
    <2> HIDE DEF D, Is
    <2> QED BY <1>4, <2>1, Zenon
  <1> HIDE DEF D
  <1>6. D[n] = base /\ \A d \in 0..(n - 1) : D[d] = Seq(D[d + 1])
    BY <1>5
  <1> QED BY <1>6 DEF D, base

(* The values of a type, behind each level.                                *)
LEMMA ValuesAre ==
  ASSUME NEW n \in Nat, NEW kinds, Len(kinds) = n
  PROVE  /\ Values(kinds)[n] = Numbers
         /\ \A d \in 0..(n - 1) : Values(kinds)[d] = NextValues(kinds, d, Values(kinds)[d + 1])
  <1> DEFINE base == Numbers
             Is(g, m) == g = [d \in m..n |-> IF d = n THEN base ELSE NextValues(kinds, d, g[d + 1])]
             S == {k \in 0..n : \E g : Is(g, n - k)}
  <1> HIDE DEF base
  <1>1. 0 \in S
    <2> DEFINE g == [d \in n..n |-> base]
    <2>1. Is(g, n - 0)
      OBVIOUS
    <2> HIDE DEF g, Is
    <2>2. \E f : Is(f, n - 0)
      BY <2>1
    <2> QED BY <2>2
  <1>2. \A k \in 1..n : k - 1 \in S => k \in S
    <2> SUFFICES ASSUME NEW k \in 1..n, NEW g, Is(g, n - (k - 1)) PROVE k \in S
      OBVIOUS
    <2> DEFINE m == n - k
               h == [d \in m..n |-> IF d > m THEN g[d] ELSE NextValues(kinds, m, g[m + 1])]
    <2>1. m \in 0..(n - 1) /\ m + 1 = n - (k - 1)
      OBVIOUS
    <2> HIDE DEF m
    <2>2. g = [d \in (m + 1)..n |-> IF d = n THEN base ELSE NextValues(kinds, d, g[d + 1])]
      BY <2>1
    <2>3. \A d \in m..n : h[d] = IF d = n THEN base ELSE NextValues(kinds, d, h[d + 1])
      <3> SUFFICES ASSUME NEW d \in m..n
                   PROVE  h[d] = IF d = n THEN base ELSE NextValues(kinds, d, h[d + 1])
        OBVIOUS
      <3>1. CASE d > m
        <4>1. h[d] = g[d] /\ d \in (m + 1)..n
          BY <2>1, <3>1
        <4>2. d # n => d + 1 \in m..n /\ d + 1 > m
          BY <2>1, <3>1
        <4>3. d # n => h[d + 1] = g[d + 1]
          BY <4>2
        <4> QED BY <2>2, <4>1, <4>3
      <3>2. CASE d = m
        <4>1. m # n /\ m + 1 \in m..n /\ m + 1 > m /\ m \in m..n /\ ~(m > m)
          BY <2>1
        <4>2. h[m + 1] = g[m + 1]
          BY <4>1
        <4> QED BY <3>2, <4>1, <4>2
      <3>3. d > m \/ d = m
        BY <2>1
      <3> QED BY <3>1, <3>2, <3>3
    <2>4. Is(h, m)
      BY <2>3
    <2> HIDE DEF h, Is
    <2>5. \E f : Is(f, m)
      BY <2>4
    <2> QED BY <2>5 DEF m
  <1> HIDE DEF S
  <1>3. \A k \in 0..n : k \in S
    <2>1. n \in Nat
      OBVIOUS
    <2> QED BY <1>1, <1>2, <2>1, Climb
  <1>4. \E g : Is(g, 0)
    <2>1. n \in 0..n /\ n - (n) = 0
      OBVIOUS
    <2>2. n \in S
      BY <1>3, <2>1
    <2> QED BY <2>1, <2>2 DEF S
  <1> DEFINE D == Values(kinds)
  <1>5. Is(D, 0)
    <2>1. D = CHOOSE g : Is(g, 0)
      BY Zenon DEF Values, base, NextValues
    <2> HIDE DEF D, Is
    <2> QED BY <1>4, <2>1, Zenon
  <1> HIDE DEF D
  <1>6. D[n] = base /\ \A d \in 0..(n - 1) : D[d] = NextValues(kinds, d, D[d + 1])
    BY <1>5
  <1> QED BY <1>6 DEF D, base

(* The shapes of the values behind each level.                             *)
LEMMA ShapesAre ==
  ASSUME NEW n \in Nat, NEW kinds, Len(kinds) = n
  PROVE  /\ ShapeDims(kinds)[n] = [value \in Numbers |-> [dims |-> <<>>, contiguous |-> TRUE]]
         /\ \A d \in 0..(n - 1) : ShapeDims(kinds)[d] = NextShapes(kinds, d, ShapeDims(kinds)[d + 1])
  <1> DEFINE base == [value \in Numbers |-> [dims |-> <<>>, contiguous |-> TRUE]]
             Is(g, m) == g = [d \in m..n |-> IF d = n THEN base ELSE NextShapes(kinds, d, g[d + 1])]
             S == {k \in 0..n : \E g : Is(g, n - k)}
  <1> HIDE DEF base
  <1>1. 0 \in S
    <2> DEFINE g == [d \in n..n |-> base]
    <2>1. Is(g, n - 0)
      OBVIOUS
    <2> HIDE DEF g, Is
    <2>2. \E f : Is(f, n - 0)
      BY <2>1
    <2> QED BY <2>2
  <1>2. \A k \in 1..n : k - 1 \in S => k \in S
    <2> SUFFICES ASSUME NEW k \in 1..n, NEW g, Is(g, n - (k - 1)) PROVE k \in S
      OBVIOUS
    <2> DEFINE m == n - k
               h == [d \in m..n |-> IF d > m THEN g[d] ELSE NextShapes(kinds, m, g[m + 1])]
    <2>1. m \in 0..(n - 1) /\ m + 1 = n - (k - 1)
      OBVIOUS
    <2> HIDE DEF m
    <2>2. g = [d \in (m + 1)..n |-> IF d = n THEN base ELSE NextShapes(kinds, d, g[d + 1])]
      BY <2>1
    <2>3. \A d \in m..n : h[d] = IF d = n THEN base ELSE NextShapes(kinds, d, h[d + 1])
      <3> SUFFICES ASSUME NEW d \in m..n
                   PROVE  h[d] = IF d = n THEN base ELSE NextShapes(kinds, d, h[d + 1])
        OBVIOUS
      <3>1. CASE d > m
        <4>1. h[d] = g[d] /\ d \in (m + 1)..n
          BY <2>1, <3>1
        <4>2. d # n => d + 1 \in m..n /\ d + 1 > m
          BY <2>1, <3>1
        <4>3. d # n => h[d + 1] = g[d + 1]
          BY <4>2
        <4> QED BY <2>2, <4>1, <4>3
      <3>2. CASE d = m
        <4>1. m # n /\ m + 1 \in m..n /\ m + 1 > m /\ m \in m..n /\ ~(m > m)
          BY <2>1
        <4>2. h[m + 1] = g[m + 1]
          BY <4>1
        <4> QED BY <3>2, <4>1, <4>2
      <3>3. d > m \/ d = m
        BY <2>1
      <3> QED BY <3>1, <3>2, <3>3
    <2>4. Is(h, m)
      BY <2>3
    <2> HIDE DEF h, Is
    <2>5. \E f : Is(f, m)
      BY <2>4
    <2> QED BY <2>5 DEF m
  <1> HIDE DEF S
  <1>3. \A k \in 0..n : k \in S
    <2>1. n \in Nat
      OBVIOUS
    <2> QED BY <1>1, <1>2, <2>1, Climb
  <1>4. \E g : Is(g, 0)
    <2>1. n \in 0..n /\ n - (n) = 0
      OBVIOUS
    <2>2. n \in S
      BY <1>3, <2>1
    <2> QED BY <2>1, <2>2 DEF S
  <1> DEFINE D == ShapeDims(kinds)
  <1>5. Is(D, 0)
    <2>1. D = CHOOSE g : Is(g, 0)
      BY Zenon DEF ShapeDims, base, NextShapes
    <2> HIDE DEF D, Is
    <2> QED BY <1>4, <2>1, Zenon
  <1> HIDE DEF D
  <1>6. D[n] = base /\ \A d \in 0..(n - 1) : D[d] = NextShapes(kinds, d, D[d + 1])
    BY <1>5
  <1> QED BY <1>6 DEF D, base

(* The scalars of the values behind each level.                            *)
LEMMA ScalarsAre ==
  ASSUME NEW n \in Nat, NEW kinds, Len(kinds) = n
  PROVE  /\ Scalars(kinds)[n] = [value \in Numbers |-> <<value>>]
         /\ \A d \in 0..(n - 1) : Scalars(kinds)[d] = NextScalars(kinds, d, Scalars(kinds)[d + 1])
  <1> DEFINE base == [value \in Numbers |-> <<value>>]
             Is(g, m) == g = [d \in m..n |-> IF d = n THEN base ELSE NextScalars(kinds, d, g[d + 1])]
             S == {k \in 0..n : \E g : Is(g, n - k)}
  <1> HIDE DEF base
  <1>1. 0 \in S
    <2> DEFINE g == [d \in n..n |-> base]
    <2>1. Is(g, n - 0)
      OBVIOUS
    <2> HIDE DEF g, Is
    <2>2. \E f : Is(f, n - 0)
      BY <2>1
    <2> QED BY <2>2
  <1>2. \A k \in 1..n : k - 1 \in S => k \in S
    <2> SUFFICES ASSUME NEW k \in 1..n, NEW g, Is(g, n - (k - 1)) PROVE k \in S
      OBVIOUS
    <2> DEFINE m == n - k
               h == [d \in m..n |-> IF d > m THEN g[d] ELSE NextScalars(kinds, m, g[m + 1])]
    <2>1. m \in 0..(n - 1) /\ m + 1 = n - (k - 1)
      OBVIOUS
    <2> HIDE DEF m
    <2>2. g = [d \in (m + 1)..n |-> IF d = n THEN base ELSE NextScalars(kinds, d, g[d + 1])]
      BY <2>1
    <2>3. \A d \in m..n : h[d] = IF d = n THEN base ELSE NextScalars(kinds, d, h[d + 1])
      <3> SUFFICES ASSUME NEW d \in m..n
                   PROVE  h[d] = IF d = n THEN base ELSE NextScalars(kinds, d, h[d + 1])
        OBVIOUS
      <3>1. CASE d > m
        <4>1. h[d] = g[d] /\ d \in (m + 1)..n
          BY <2>1, <3>1
        <4>2. d # n => d + 1 \in m..n /\ d + 1 > m
          BY <2>1, <3>1
        <4>3. d # n => h[d + 1] = g[d + 1]
          BY <4>2
        <4> QED BY <2>2, <4>1, <4>3
      <3>2. CASE d = m
        <4>1. m # n /\ m + 1 \in m..n /\ m + 1 > m /\ m \in m..n /\ ~(m > m)
          BY <2>1
        <4>2. h[m + 1] = g[m + 1]
          BY <4>1
        <4> QED BY <3>2, <4>1, <4>2
      <3>3. d > m \/ d = m
        BY <2>1
      <3> QED BY <3>1, <3>2, <3>3
    <2>4. Is(h, m)
      BY <2>3
    <2> HIDE DEF h, Is
    <2>5. \E f : Is(f, m)
      BY <2>4
    <2> QED BY <2>5 DEF m
  <1> HIDE DEF S
  <1>3. \A k \in 0..n : k \in S
    <2>1. n \in Nat
      OBVIOUS
    <2> QED BY <1>1, <1>2, <2>1, Climb
  <1>4. \E g : Is(g, 0)
    <2>1. n \in 0..n /\ n - (n) = 0
      OBVIOUS
    <2>2. n \in S
      BY <1>3, <2>1
    <2> QED BY <2>1, <2>2 DEF S
  <1> DEFINE D == Scalars(kinds)
  <1>5. Is(D, 0)
    <2>1. D = CHOOSE g : Is(g, 0)
      BY Zenon DEF Scalars, base, NextScalars
    <2> HIDE DEF D, Is
    <2> QED BY <1>4, <2>1, Zenon
  <1> HIDE DEF D
  <1>6. D[n] = base /\ \A d \in 0..(n - 1) : D[d] = NextScalars(kinds, d, D[d + 1])
    BY <1>5
  <1> QED BY <1>6 DEF D, base

(* A stride that a capture makes from the one behind it.                   *)
NextStride(shape, d, stride) ==
  IF stride * shape[d + 1] > MaxInt THEN stride ELSE stride * shape[d + 1]

(* The strides of a capture.                                              *)
LEMMA ContiguousAre ==
  ASSUME NEW n \in Nat \ {0}, NEW shape, Len(shape) = n, DOMAIN shape = 1..n, NEW elem
  PROVE  /\ ContiguousStrides(shape, elem) = [d \in 1..n |-> ContiguousStrides(shape, elem)[d]]
         /\ ContiguousStrides(shape, elem)[n] = elem
         /\ \A d \in 1..(n - 1) : ContiguousStrides(shape, elem)[d] = NextStride(shape, d, ContiguousStrides(shape, elem)[d + 1])
  <1> DEFINE base == elem
             Is(g, m) == g = [d \in m..n |-> IF d = n THEN base ELSE NextStride(shape, d, g[d + 1])]
             S == {k \in 0..(n - 1) : \E g : Is(g, n - k)}
  <1> HIDE DEF base
  <1>1. 0 \in S
    <2> DEFINE g == [d \in n..n |-> base]
    <2>1. Is(g, n - 0)
      OBVIOUS
    <2> HIDE DEF g, Is
    <2>2. \E f : Is(f, n - 0)
      BY <2>1
    <2> QED BY <2>2
  <1>2. \A k \in 1..(n - 1) : k - 1 \in S => k \in S
    <2> SUFFICES ASSUME NEW k \in 1..(n - 1), NEW g, Is(g, n - (k - 1)) PROVE k \in S
      OBVIOUS
    <2> DEFINE m == n - k
               h == [d \in m..n |-> IF d > m THEN g[d] ELSE NextStride(shape, m, g[m + 1])]
    <2>1. m \in 1..(n - 1) /\ m + 1 = n - (k - 1)
      OBVIOUS
    <2> HIDE DEF m
    <2>2. g = [d \in (m + 1)..n |-> IF d = n THEN base ELSE NextStride(shape, d, g[d + 1])]
      BY <2>1
    <2>3. \A d \in m..n : h[d] = IF d = n THEN base ELSE NextStride(shape, d, h[d + 1])
      <3> SUFFICES ASSUME NEW d \in m..n
                   PROVE  h[d] = IF d = n THEN base ELSE NextStride(shape, d, h[d + 1])
        OBVIOUS
      <3>1. CASE d > m
        <4>1. h[d] = g[d] /\ d \in (m + 1)..n
          BY <2>1, <3>1
        <4>2. d # n => d + 1 \in m..n /\ d + 1 > m
          BY <2>1, <3>1
        <4>3. d # n => h[d + 1] = g[d + 1]
          BY <4>2
        <4> QED BY <2>2, <4>1, <4>3
      <3>2. CASE d = m
        <4>1. m # n /\ m + 1 \in m..n /\ m + 1 > m /\ m \in m..n /\ ~(m > m)
          BY <2>1
        <4>2. h[m + 1] = g[m + 1]
          BY <4>1
        <4> QED BY <3>2, <4>1, <4>2
      <3>3. d > m \/ d = m
        BY <2>1
      <3> QED BY <3>1, <3>2, <3>3
    <2>4. Is(h, m)
      BY <2>3
    <2> HIDE DEF h, Is
    <2>5. \E f : Is(f, m)
      BY <2>4
    <2> QED BY <2>5 DEF m
  <1> HIDE DEF S
  <1>3. \A k \in 0..(n - 1) : k \in S
    <2>1. n - 1 \in Nat
      OBVIOUS
    <2> QED BY <1>1, <1>2, <2>1, Climb
  <1>4. \E g : Is(g, 1)
    <2>1. n - 1 \in 0..(n - 1) /\ n - (n - 1) = 1
      OBVIOUS
    <2>2. n - 1 \in S
      BY <1>3, <2>1
    <2> QED BY <2>1, <2>2 DEF S
  <1> DEFINE D == ContiguousStrides(shape, elem)
  <1>5. Is(D, 1)
    <2>1. D = CHOOSE g : Is(g, 1)
      BY Zenon DEF ContiguousStrides, base, NextStride
    <2> HIDE DEF D, Is
    <2> QED BY <1>4, <2>1, Zenon
  <1> HIDE DEF D
  <1>6. D = [d \in 1..n |-> D[d]] /\ D[n] = base /\ \A d \in 1..(n - 1) : D[d] = NextStride(shape, d, D[d + 1])
    BY <1>5
  <1> QED BY <1>6 DEF D, base

(* The first value behind no level is the value.                           *)
LEMMA FirstsAre ==
  ASSUME NEW n \in Nat, NEW kinds, Len(kinds) = n, NEW value
  PROVE  Firsts(kinds, value)[0] = value
  <1> DEFINE Is(g, m) == g = [d \in 0..m |-> IF d = 0 THEN value ELSE g[d - 1][1]]
             S == {m \in 0..n : \E g : Is(g, m)}
  <1>1. 0 \in S
    <2> DEFINE g == [d \in 0..0 |-> value]
    <2>1. Is(g, 0)
      OBVIOUS
    <2> HIDE DEF g, Is
    <2>2. \E f : Is(f, 0)
      BY <2>1
    <2> QED BY <2>2
  <1>2. \A m \in 1..n : m - 1 \in S => m \in S
    <2> SUFFICES ASSUME NEW m \in 1..n, NEW g, Is(g, m - 1) PROVE m \in S
      OBVIOUS
    <2> DEFINE h == [d \in 0..m |-> IF d < m THEN g[d] ELSE g[m - 1][1]]
    <2>1. \A d \in 0..m : h[d] = IF d = 0 THEN value ELSE h[d - 1][1]
      <3> SUFFICES ASSUME NEW d \in 0..m PROVE h[d] = IF d = 0 THEN value ELSE h[d - 1][1]
        OBVIOUS
      <3>1. CASE d < m
        BY <3>1
      <3>2. CASE d = m
        BY <3>2
      <3> QED BY <3>1, <3>2
    <2>2. Is(h, m)
      BY <2>1
    <2> HIDE DEF h, Is
    <2>3. \E f : Is(f, m)
      BY <2>2
    <2> QED BY <2>3
  <1> HIDE DEF S
  <1>3. \A m \in 0..n : m \in S
    BY <1>1, <1>2, Climb
  <1>4. \E g : Is(g, n)
    <2>1. n \in 0..n
      OBVIOUS
    <2> QED BY <1>3, <2>1 DEF S
  <1> DEFINE D == Firsts(kinds, value)
  <1>5. Is(D, n)
    <2>1. D = CHOOSE g : Is(g, n)
      BY Zenon DEF Firsts
    <2> HIDE DEF D, Is
    <2> QED BY <1>4, <2>1, Zenon
  <1> HIDE DEF D
  <1>6. D[0] = value
    BY <1>5
  <1> QED BY <1>6 DEF D

----------------------------------------------------------------------------
(* Parts of one length, one behind the other                               *)

(* Two sequences, one behind the other.                                    *)
Joined(s, t) == s \o t

LEMMA JoinedIs ==
  ASSUME NEW X, NEW s \in Seq(X), NEW t \in Seq(X)
  PROVE  /\ Joined(s, t) \in Seq(X) /\ Len(Joined(s, t)) = Len(s) + Len(t)
         /\ \A i \in 1..Len(s) : Joined(s, t)[i] = s[i]
         /\ \A k \in 1..Len(t) : Joined(s, t)[Len(s) + k] = t[k]
  <1> DEFINE l == Len(s)
  <1>1. l \in Nat /\ Len(t) \in Nat
    OBVIOUS
  <1>2. /\ Joined(s, t) \in Seq(X) /\ Len(Joined(s, t)) = l + Len(t)
        /\ \A i \in 1..(l + Len(t)) : Joined(s, t)[i] = IF i <= l THEN s[i] ELSE t[i - l]
    BY ConcatProperties DEF Joined
  <1> HIDE DEF l
  <1>3. ASSUME NEW k \in 1..Len(t) PROVE Joined(s, t)[l + k] = t[k]
    <2>1. l + k \in 1..(l + Len(t)) /\ ~(l + k <= l) /\ (l + k) - l = k
      BY <1>1
    <2> QED BY <1>2, <2>1
  <1>4. ASSUME NEW i \in 1..l PROVE Joined(s, t)[i] = s[i]
    BY <1>1, <1>2
  <1> QED BY <1>2, <1>3, <1>4 DEF l

(* The concatenation of sequences, one by one.                             *)
Flattens(parts, m, flat) ==
  /\ FlattenSeq(parts) = flat[m] /\ flat[1] = parts[1]
  /\ \A i \in 2..m : flat[i] = Joined(flat[i - 1], parts[i])

LEMMA FlattenSteps ==
  ASSUME NEW m \in Nat \ {0}, NEW parts, Len(parts) = m
  PROVE  \E flat : Flattens(parts, m, flat)
  <1> DEFINE Is(g, l) == g = [i \in 1..l |-> IF i = 1 THEN parts[i] ELSE Joined(g[i - 1], parts[i])]
             S == {l \in 0..(m - 1) : \E g : Is(g, l + 1)}
  <1>1. 0 \in S
    <2> DEFINE g == [i \in 1..1 |-> parts[1]]
    <2>1. Is(g, 0 + 1)
      OBVIOUS
    <2> HIDE DEF g, Is
    <2>2. \E f : Is(f, 0 + 1)
      BY <2>1
    <2> QED BY <2>2
  <1>2. \A l \in 1..(m - 1) : l - 1 \in S => l \in S
    <2> SUFFICES ASSUME NEW l \in 1..(m - 1), NEW g, Is(g, (l - 1) + 1) PROVE l \in S
      OBVIOUS
    <2> DEFINE h == [i \in 1..(l + 1) |-> IF i <= l THEN g[i] ELSE Joined(g[l], parts[l + 1])]
    <2>0. (l - 1) + 1 = l
      OBVIOUS
    <2>1. \A i \in 1..(l + 1) : h[i] = IF i = 1 THEN parts[i] ELSE Joined(h[i - 1], parts[i])
      <3> SUFFICES ASSUME NEW i \in 1..(l + 1)
                   PROVE  h[i] = IF i = 1 THEN parts[i] ELSE Joined(h[i - 1], parts[i])
        OBVIOUS
      <3>1. CASE i <= l
        <4>1. h[i] = g[i] /\ i \in 1..l
          BY <3>1
        <4>2. i # 1 => h[i - 1] = g[i - 1]
          BY <3>1
        <4>3. g[i] = IF i = 1 THEN parts[i] ELSE Joined(g[i - 1], parts[i])
          BY <2>0, <4>1
        <4> QED BY <4>1, <4>2, <4>3
      <3>2. CASE i = l + 1
        <4>1. h[i] = Joined(g[l], parts[l + 1]) /\ i # 1 /\ i - 1 = l /\ h[l] = g[l]
          BY <3>2
        <4> QED BY <3>2, <4>1
      <3> QED BY <3>1, <3>2
    <2>2. Is(h, l + 1)
      BY <2>1
    <2> HIDE DEF h, Is
    <2>3. \E f : Is(f, l + 1)
      BY <2>2
    <2> QED BY <2>3
  <1> HIDE DEF S
  <1>3. \A l \in 0..(m - 1) : l \in S
    <2>1. m - 1 \in Nat
      OBVIOUS
    <2> QED BY <1>1, <1>2, <2>1, Climb
  <1>4. \E g : Is(g, m)
    <2>1. m - 1 \in 0..(m - 1) /\ (m - 1) + 1 = m
      OBVIOUS
    <2>2. m - 1 \in S
      BY <1>3, <2>1
    <2> QED BY <2>1, <2>2 DEF S
  <1> DEFINE F == CHOOSE g : Is(g, m)
  <1>5. Is(F, m)
    <2> HIDE DEF Is
    <2> QED BY <1>4, Zenon
  <1>6. FlattenSeq(parts) = F[m]
    <2>1. Len(parts) # 0
      OBVIOUS
    <2> QED BY <2>1, Zenon DEF FlattenSeq, Joined
  <1> HIDE DEF F
  <1>7. F[1] = parts[1] /\ \A i \in 2..m : F[i] = Joined(F[i - 1], parts[i])
    BY <1>5
  <1> QED BY <1>6, <1>7 DEF Flattens

(* Behind i - 1 parts of p elements, the element k of the next.            *)
LEMMA PlaceIn ==
  ASSUME NEW i \in Nat, NEW p \in Nat, NEW j \in 1..i, NEW k \in 1..p
  PROVE  /\ (j - 1) * p + k \in 1..(i * p)
         /\ (j - 1) * p \in Nat /\ i * p \in Nat /\ (i - 1) * p + p = i * p
  <1>1. (j - 1) * p \in Nat /\ i * p \in Nat /\ j * p \in Nat
    <2>1. j - 1 \in Nat /\ j \in Nat
      OBVIOUS
    <2> QED BY <2>1
  <1>2. j * p <= i * p
    BY TimesMono
  <1>3. (j - 1) * p = j * p - p /\ (i - 1) * p = i * p - p
    OBVIOUS
  <1> QED BY <1>1, <1>2, <1>3

(* The elements of m parts of p elements each, in their concatenation.     *)
Placed(flat, parts, m, p) ==
  \A i \in 1..m, k \in 1..p :
    (i - 1) * p + k \in 1..(m * p) /\ flat[(i - 1) * p + k] = parts[i][k]

LEMMA FlattenIs ==
  ASSUME NEW m \in Nat, NEW p \in Nat, NEW X, NEW parts \in [1..m -> Seq(X)],
         \A i \in 1..m : Len(parts[i]) = p
  PROVE  /\ FlattenSeq(parts) \in Seq(X) /\ Len(FlattenSeq(parts)) = m * p
         /\ Placed(FlattenSeq(parts), parts, m, p)
  <1>0. \A i \in 1..m : parts[i] \in Seq(X) /\ Len(parts[i]) = p
    OBVIOUS
  <1>1. Len(parts) = m
    <2>1. parts = [i \in 1..m |-> parts[i]]
      OBVIOUS
    <2> QED BY <2>1, LenIs
  <1>2. CASE m = 0
    <2>1. FlattenSeq(parts) = parts
      BY <1>1, <1>2 DEF FlattenSeq
    <2>2. parts \in Seq(X) /\ m * p = 0
      BY <1>2
    <2> QED BY <1>1, <1>2, <2>1, <2>2 DEF Placed
  <1>3. CASE m # 0
    <2>0. PICK F : Flattens(parts, m, F)
      <3>1. m \in Nat \ {0}
        BY <1>3
      <3> QED BY <1>1, <3>1, FlattenSteps
    <2>1. /\ FlattenSeq(parts) = F[m] /\ F[1] = parts[1]
          /\ \A i \in 2..m : F[i] = Joined(F[i - 1], parts[i])
      BY <2>0 DEF Flattens
    <2> DEFINE Good(i) == /\ F[i] \in Seq(X) /\ Len(F[i]) = i * p
                          /\ \A j \in 1..i, k \in 1..p : F[i][(j - 1) * p + k] = parts[j][k]
               S == {i \in 0..m : i > 0 => Good(i)}
    <2>2. 0 \in S
      OBVIOUS
    <2>3. \A i \in 1..m : i - 1 \in S => i \in S
      <3> SUFFICES ASSUME NEW i \in 1..m, i - 1 \in S PROVE Good(i)
        <4> HIDE DEF Good
        <4> QED OBVIOUS
      <3>1. parts[i] \in Seq(X) /\ Len(parts[i]) = p
        BY <1>0
      <3>2. CASE i = 1
        <4>1. F[i] = parts[i] /\ i * p = p
          BY <2>1, <3>2
        <4>2. \A j \in 1..i, k \in 1..p : j = i /\ (j - 1) * p + k = k
          BY <3>2
        <4> QED BY <3>1, <4>1, <4>2
      <3>3. CASE i > 1
        <4>1. Good(i - 1)
          BY <3>3
        <4>2. F[i] = Joined(F[i - 1], parts[i])
          BY <2>1, <3>3
        <4> DEFINE a == F[i - 1]
                   b == parts[i]
        <4>0. a \in Seq(X) /\ b \in Seq(X)
          BY <3>1, <4>1
        <4>3. Len(a) = (i - 1) * p /\ Len(b) = p
          BY <3>1, <4>1
        <4>4. (i - 1) * p \in Nat /\ i * p \in Nat /\ (i - 1) * p + p = i * p
          <5>1. i - 1 \in Nat /\ i \in Nat
            OBVIOUS
          <5>2. (i - 1) * p = i * p - p
            OBVIOUS
          <5> QED BY <5>1, <5>2
        <4>5. F[i] \in Seq(X) /\ Len(F[i]) = i * p
          <5> HIDE DEF a, b
          <5>1. Joined(a, b) \in Seq(X) /\ Len(Joined(a, b)) = Len(a) + Len(b)
            BY <4>0, JoinedIs
          <5>2. Len(Joined(a, b)) = i * p
            BY <4>3, <4>4, <5>1
          <5> QED BY <4>2, <5>1, <5>2 DEF a, b
        <4>6. ASSUME NEW j \in 1..i, NEW k \in 1..p
              PROVE  F[i][(j - 1) * p + k] = parts[j][k]
          <5> DEFINE at == (j - 1) * p + k
          <5>0. i \in Nat
            OBVIOUS
          <5>1. at \in 1..(i * p) /\ (j - 1) * p \in Nat
            BY <5>0, PlaceIn
          <5>2. CASE j < i
            <6>1. j \in 1..(i - 1) /\ i - 1 \in Nat
              BY <5>2
            <6>2. at \in 1..((i - 1) * p)
              BY <6>1, PlaceIn
            <6>3. a[at] = parts[j][k]
              BY <4>1, <6>1
            <6>4. at \in 1..Len(a)
              BY <4>3, <6>2
            <6> HIDE DEF at, a, b
            <6>5. Joined(a, b)[at] = a[at]
              BY <4>0, <6>4, JoinedIs
            <6> QED BY <4>2, <6>3, <6>5 DEF at, a, b
          <5>3. CASE j = i
            <6>1. at = Len(a) + k
              BY <4>3, <5>3
            <6>2. Joined(a, b)[Len(a) + k] = b[k]
              <7> HIDE DEF a, b
              <7>1. k \in 1..Len(b)
                BY <4>3
              <7> QED BY <4>0, <7>1, JoinedIs
            <6> QED BY <4>2, <5>3, <6>1, <6>2
          <5> QED BY <5>2, <5>3
        <4> QED BY <4>5, <4>6
      <3> QED BY <3>2, <3>3
    <2> HIDE DEF S
    <2>4. m \in S
      <3>1. \A i \in 0..m : i \in S
        BY <2>2, <2>3, Climb
      <3> QED BY <3>1
    <2>5. Good(m)
      BY <1>3, <2>4, SMTT(30) DEF S
    <2>6. \A i \in 1..m, k \in 1..p : (i - 1) * p + k \in 1..(m * p)
      BY PlaceIn
    <2> QED BY <2>1, <2>5, <2>6 DEF Placed
  <1> QED BY <1>2, <1>3

----------------------------------------------------------------------------
(* Shapes of nested values                                                 *)

(* The values of a type are nested as its levels are.                      *)
LEMMA ValuesNested ==
  ASSUME NEW n \in Nat, NEW kinds \in Seq(Nat \cup {Slice}), Len(kinds) = n
  PROVE  \A d \in 0..n : Values(kinds)[d] \subseteq Nested(kinds)[d]
  <1> DEFINE S == {d \in 0..n : Values(kinds)[d] \subseteq Nested(kinds)[d]}
  <1>1. n \in S
    BY NestedIs, ValuesAre
  <1>2. ASSUME NEW d \in 0..(n - 1), d + 1 \in S PROVE d \in S
    <2> SUFFICES ASSUME NEW v \in Values(kinds)[d] PROVE v \in Nested(kinds)[d]
      OBVIOUS
    <2>1. v \in NextValues(kinds, d, Values(kinds)[d + 1])
      BY ValuesAre
    <2>2. PICK length \in IF kinds[d + 1] = Slice THEN SliceLengths ELSE {kinds[d + 1]} :
            v \in [1..length -> Values(kinds)[d + 1]]
      BY <2>1 DEF NextValues
    <2>3. length \in Nat
      <3>1. kinds[d + 1] \in Nat \cup {Slice}
        OBVIOUS
      <3> QED BY <2>2, <3>1, CaptureAssumption
    <2>4. v \in [1..length -> Nested(kinds)[d + 1]]
      BY <1>2, <2>2
    <2>5. v \in Seq(Nested(kinds)[d + 1])
      BY <2>3, <2>4
    <2> QED BY <2>5, NestedIs
  <1> HIDE DEF S
  <1>3. \A d \in 0..n : d \in S
    BY <1>1, <1>2, Descend
  <1> QED BY <1>3 DEF S

(* Shapes that are found.                                                  *)
Shape == [dims : Seq(Nat), contiguous : BOOLEAN]

(* What is behind the last level has no dimensions.                        *)
LEMMA ShapeOfNumber ==
  ASSUME NEW n \in Nat, NEW kinds, Len(kinds) = n, NEW v \in Nested(kinds)[n]
  PROVE  /\ v \in Numbers /\ Scalars(kinds)[n][v] = <<v>>
         /\ ShapeDims(kinds)[n][v] = [dims |-> <<>>, contiguous |-> TRUE]
  <1>1. v \in Numbers
    BY NestedIs
  <1>2. Scalars(kinds)[n] = [value \in Numbers |-> <<value>>]
    BY ScalarsAre
  <1>3. ShapeDims(kinds)[n] = [value \in Numbers |-> [dims |-> <<>>, contiguous |-> TRUE]]
    BY ShapesAre
  <1> QED BY <1>1, <1>2, <1>3

(* What is behind another level is a sequence, of which the shape is made  *)
(* from those of the values in it.                                         *)
LEMMA ShapeOfNested ==
  ASSUME NEW n \in Nat, NEW kinds, Len(kinds) = n, NEW d \in 0..(n - 1), NEW v \in Nested(kinds)[d]
  PROVE  /\ v \in Seq(Nested(kinds)[d + 1])
         /\ ShapeDims(kinds)[d][v] = DimsOf(v, Behind(kinds, d + 1), ShapeDims(kinds)[d + 1])
         /\ Scalars(kinds)[d][v] = FlattenSeq([i \in DOMAIN v |-> Scalars(kinds)[d + 1][v[i]]])
  <1>1. v \in Seq(Nested(kinds)[d + 1])
    <2>1. Nested(kinds)[d] = Seq(Nested(kinds)[d + 1])
      BY NestedIs
    <2> QED BY <2>1
  <1>2. ShapeDims(kinds)[d] = NextShapes(kinds, d, ShapeDims(kinds)[d + 1])
    BY ShapesAre
  <1>3. Scalars(kinds)[d] = NextScalars(kinds, d, Scalars(kinds)[d + 1])
    BY ScalarsAre, ZenonT(40)
  <1>4. ShapeDims(kinds)[d][v] = DimsOf(v, Behind(kinds, d + 1), ShapeDims(kinds)[d + 1])
    BY <1>2 DEF NextShapes
  <1>5. Scalars(kinds)[d][v] = FlattenSeq([i \in DOMAIN v |-> Scalars(kinds)[d + 1][v[i]]])
    BY <1>3 DEF NextScalars
  <1> QED BY <1>1, <1>4, <1>5

LEMMA NestedShape ==
  ASSUME NEW n \in Nat, NEW kinds, Len(kinds) = n
  PROVE  \A d \in 0..(n - 1) : \A v \in Nested(kinds)[d] :
           ShapeDims(kinds)[d][v] = DimsOf(v, Behind(kinds, d + 1), ShapeDims(kinds)[d + 1])
  <1> SUFFICES ASSUME NEW d \in 0..(n - 1), NEW v \in Nested(kinds)[d]
               PROVE  ShapeDims(kinds)[d][v]
                        = DimsOf(v, Behind(kinds, d + 1), ShapeDims(kinds)[d + 1])
    OBVIOUS
  <1>1. ShapeDims(kinds)[d] = NextShapes(kinds, d, ShapeDims(kinds)[d + 1])
    BY ShapesAre
  <1> QED BY <1>1 DEF NextShapes

(* The levels behind d.                                                    *)
LEMMA BehindIs ==
  ASSUME NEW n \in Nat, NEW kinds \in Seq(Nat \cup {Slice}), Len(kinds) = n, NEW d \in 0..n
  PROVE  /\ Behind(kinds, d) \in Seq(Nat \cup {Slice}) /\ Len(Behind(kinds, d)) = n - d
         /\ \A i \in 1..(n - d) : Behind(kinds, d)[i] = kinds[d + i]
         /\ Slice \in ToSet(Behind(kinds, d)) <=> \E i \in (d + 1)..n : kinds[i] = Slice
  <1>1. Behind(kinds, d) = [i \in 1..(n - d) |-> kinds[d + i]]
    BY DEF Behind
  <1>2. n - d \in Nat /\ \A i \in 1..(n - d) : kinds[d + i] \in Nat \cup {Slice}
    OBVIOUS
  <1>3. Behind(kinds, d) \in Seq(Nat \cup {Slice}) /\ Len(Behind(kinds, d)) = n - d
    BY <1>1, <1>2
  <1>4. Slice \in ToSet(Behind(kinds, d)) <=> \E i \in 1..(n - d) : kinds[d + i] = Slice
    BY <1>1, <1>3 DEF ToSet
  <1>5. (\E i \in 1..(n - d) : kinds[d + i] = Slice) <=> \E i \in (d + 1)..n : kinds[i] = Slice
    <2>1. ASSUME NEW i \in 1..(n - d), kinds[d + i] = Slice PROVE d + i \in (d + 1)..n
      OBVIOUS
    <2>2. ASSUME NEW i \in (d + 1)..n, kinds[i] = Slice PROVE i - d \in 1..(n - d) /\ d + (i - d) = i
      OBVIOUS
    <2> QED BY <2>1, <2>2
  <1> QED BY <1>1, <1>3, <1>4, <1>5

(* A sequence is made of what its elements are.                            *)
LEMMA MadeOf ==
  ASSUME NEW X, NEW Y, NEW s \in Seq(X), \A i \in 1..Len(s) : s[i] \in Y
  PROVE  s \in Seq(Y)
  <1>1. Len(s) \in Nat /\ s = [i \in 1..Len(s) |-> s[i]]
    OBVIOUS
  <1>2. s \in [1..Len(s) -> Y]
    BY <1>1
  <1> QED BY <1>1, <1>2

(* A dimension before others.                                              *)
LEMMA BeforeIs ==
  ASSUME NEW m \in Nat, NEW dims \in Seq(Nat)
  PROVE  /\ <<m>> \o dims \in Seq(Nat) /\ Len(<<m>> \o dims) = Len(dims) + 1
         /\ (<<m>> \o dims)[1] = m /\ Tail(<<m>> \o dims) = dims
  <1>1. <<m>> \in Seq(Nat) /\ Len(<<m>>) = 1 /\ <<m>>[1] = m
    OBVIOUS
  <1>2. /\ Joined(<<m>>, dims) \in Seq(Nat) /\ Len(Joined(<<m>>, dims)) = Len(dims) + 1
        /\ Joined(<<m>>, dims)[1] = m
        /\ \A k \in 1..Len(dims) : Joined(<<m>>, dims)[1 + k] = dims[k]
    <2> DEFINE s == <<m>>
    <2>1. s \in Seq(Nat) /\ Len(s) = 1 /\ s[1] = m
      BY <1>1
    <2>2. Len(dims) \in Nat
      OBVIOUS
    <2> HIDE DEF s
    <2>5. s \in Seq(Nat)
      BY <2>1
    <2>6. Joined(s, dims) \in Seq(Nat) /\ Len(Joined(s, dims)) = Len(s) + Len(dims)
      BY <2>5, JoinedIs
    <2>7. \A i \in 1..Len(s) : Joined(s, dims)[i] = s[i]
      BY <2>5, JoinedIs
    <2>3. \A k \in 1..Len(dims) : Joined(s, dims)[Len(s) + k] = dims[k]
      BY <2>5, JoinedIs
    <2> DEFINE t == Joined(s, dims)
    <2> HIDE DEF t
    <2>4. /\ t \in Seq(Nat) /\ Len(t) = Len(dims) + 1 /\ t[1] = m
          /\ \A k \in 1..Len(dims) : t[1 + k] = dims[k]
      BY <2>1, <2>2, <2>3, <2>6, <2>7 DEF t
    <2> QED BY <2>4 DEF s, t
  <1> DEFINE s == Joined(<<m>>, dims)
  <1>3. Tail(s) = dims
    <2> HIDE DEF s
    <2>1. s \in Seq(Nat) /\ Len(s) = Len(dims) + 1 /\ \A k \in 1..Len(dims) : s[1 + k] = dims[k]
      BY <1>2 DEF s
    <2>2. Len(dims) \in Nat /\ s # <<>>
      BY <2>1
    <2>3. Len(Tail(s)) = Len(dims) /\ \A k \in 1..Len(dims) : Tail(s)[k] = s[k + 1]
      BY <2>1, <2>2
    <2>4. \A k \in 1..Len(dims) : Tail(s)[k] = dims[k]
      BY <2>1, <2>2, <2>3
    <2>5. Tail(s) \in Seq(Nat)
      BY <2>1, <2>2
    <2> QED BY <2>3, <2>4, <2>5, SeqEqual
  <1> QED BY <1>2, <1>3 DEF s, Joined

(* A shape behind d of n levels, if there is one, has no more dimensions   *)
(* than there are levels left, but one for the next level.                 *)
ShapeBehind(n, d, shape) ==
  /\ shape \in Shape
  /\ Len(shape.dims) <= n - d /\ (d < n => Len(shape.dims) >= 1)

(* The values in a value of such a shape have its other dimensions.        *)
Evenly(v, shape, inner) ==
  /\ shape.dims[1] = Len(v)
  /\ \A i \in 1..Len(v) : inner[v[i]] # Failed /\ inner[v[i]].dims = Tail(shape.dims)

(* The scalars of a value follow each other in memory if they do in the    *)
(* values in it and these do, which those behind a slice do not.           *)
Flatly(v, rest, shape, inner) ==
  shape.contiguous => /\ rest # <<>> => rest[1] # Slice
                      /\ \A i \in 1..Len(v) : inner[v[i]].contiguous

(* Values of one shape.                                                    *)
Regular(v, inner) ==
  v # <<>> => \A i \in DOMAIN v : inner[v[i]] # Failed /\ inner[v[i]].dims = inner[v[1]].dims

LEMMA ShapeStep ==
  ASSUME NEW n \in Nat, NEW kinds \in Seq(Nat \cup {Slice}), Len(kinds) = n, NEW d \in 0..(n - 1),
         NEW rest, rest = Behind(kinds, d + 1),
         NEW Y, NEW v \in Seq(Y), NEW inner,
         \A w \in Y : inner[w] # Failed => ShapeBehind(n, d + 1, inner[w]),
         NEW shape, shape = DimsOf(v, rest, inner), shape # Failed \/ Regular(v, inner)
  PROVE  ShapeBehind(n, d, shape) /\ Evenly(v, shape, inner) /\ Flatly(v, rest, shape, inner)
  <1>1. d + 1 \in 0..n /\ DOMAIN v = 1..Len(v) /\ Len(v) \in Nat /\ n - d \in Nat \ {0}
        /\ n - (d + 1) = n - d - 1 /\ d \in Int
    OBVIOUS
  <1>2. rest \in Seq(Nat \cup {Slice}) /\ Len(rest) = n - d - 1
    BY <1>1, BehindIs, ZenonT(40)
  <1> DEFINE flat == rest # <<>> => rest[1] # Slice
             tail == IF Slice \in ToSet(rest) THEN <<>> ELSE rest
  <1>3. CASE v = <<>>
    <2>1. shape = [dims |-> <<0>> \o tail, contiguous |-> flat]
      BY <1>3 DEF DimsOf
    <2>2. tail \in Seq(Nat) /\ Len(tail) <= n - d - 1
      <3>1. CASE Slice \in ToSet(rest)
        BY <1>1, <3>1
      <3>2. CASE Slice \notin ToSet(rest)
        <4>1. \A i \in 1..Len(rest) : rest[i] \in Nat
          <5>1. \A i \in 1..Len(rest) : rest[i] \in Nat \cup {Slice} /\ rest[i] # Slice
            BY <1>2, <3>2 DEF ToSet
          <5> QED BY <5>1
        <4>2. rest \in Seq(Nat)
          BY <1>2, <4>1, MadeOf
        <4> QED BY <1>1, <1>2, <3>2, <4>2
      <3> QED BY <3>1, <3>2
    <2> HIDE DEF tail, flat
    <2>3. shape.dims \in Seq(Nat) /\ Len(shape.dims) = Len(tail) + 1 /\ shape.dims[1] = 0
      <3>1. 0 \in Nat /\ shape.dims = <<0>> \o tail
        BY <2>1
      <3> QED BY <2>2, <3>1, BeforeIs, ZenonT(40)
    <2>4. flat \in BOOLEAN
      BY DEF flat
    <2>5. shape \in Shape
      BY <2>1, <2>3, <2>4 DEF Shape
    <2>6. Len(tail) \in Nat /\ Len(v) = 0
      BY <1>3, <2>2
    <2>7. ShapeBehind(n, d, shape)
      BY <1>1, <2>2, <2>3, <2>5, <2>6 DEF ShapeBehind
    <2>8. Evenly(v, shape, inner)
      BY <2>3, <2>6 DEF Evenly
    <2>9. Flatly(v, rest, shape, inner)
      <3>1. shape.contiguous = flat /\ 1..Len(v) = {}
        BY <2>1, <2>6
      <3> QED BY <3>1 DEF Flatly, flat
    <2> QED BY <2>7, <2>8, <2>9
  <1>4. CASE v # <<>>
    <2> DEFINE deep == \A i \in DOMAIN v : inner[v[i]].contiguous
    <2>1. /\ shape = [dims |-> <<Len(v)>> \o inner[v[1]].dims, contiguous |-> flat /\ deep]
          /\ \A i \in DOMAIN v : inner[v[i]] # Failed /\ inner[v[i]].dims = inner[v[1]].dims
      BY <1>4 DEF DimsOf, Regular
    <2>2. 1 \in DOMAIN v /\ v[1] \in Y
      BY <1>1, <1>4
    <2>3. ShapeBehind(n, d + 1, inner[v[1]])
      BY <2>1, <2>2
    <2> DEFINE dims == inner[v[1]].dims
    <2>4. dims \in Seq(Nat) /\ Len(dims) <= n - d - 1 /\ Len(dims) \in Nat
      BY <1>1, <2>3 DEF ShapeBehind, Shape
    <2> HIDE DEF flat, deep, dims
    <2>5. /\ shape.dims \in Seq(Nat) /\ Len(shape.dims) = Len(dims) + 1
          /\ shape.dims[1] = Len(v) /\ Tail(shape.dims) = dims
      <3> DEFINE m == Len(v)
      <3>1. shape.dims = <<m>> \o dims
        BY <2>1 DEF dims
      <3>2. m \in Nat
        BY <1>1
      <3> HIDE DEF m
      <3>3. shape.dims \in Seq(Nat) /\ Len(shape.dims) = Len(dims) + 1
            /\ shape.dims[1] = m /\ Tail(shape.dims) = dims
        BY <2>4, <3>1, <3>2, BeforeIs, ZenonT(40)
      <3> QED BY <3>3 DEF m
    <2>6. flat \in BOOLEAN /\ deep \in BOOLEAN
      BY DEF flat, deep
    <2>7. shape \in Shape
      BY <2>1, <2>5, <2>6 DEF Shape
    <2>8. ShapeBehind(n, d, shape)
      BY <1>1, <2>4, <2>5, <2>7 DEF ShapeBehind
    <2>9. Evenly(v, shape, inner)
      BY <1>1, <2>1, <2>5 DEF Evenly, dims
    <2>10. Flatly(v, rest, shape, inner)
      <3>1. shape.contiguous = (flat /\ deep)
        BY <2>1
      <3> QED BY <1>1, <3>1 DEF Flatly, flat, deep
    <2> QED BY <2>8, <2>9, <2>10
  <1> QED BY <1>3, <1>4

LEMMA ShapesBehind ==
  ASSUME NEW n \in Nat, NEW kinds \in Seq(Nat \cup {Slice}), Len(kinds) = n
  PROVE  \A d \in 0..n : \A v \in Nested(kinds)[d] :
           ShapeDims(kinds)[d][v] # Failed => ShapeBehind(n, d, ShapeDims(kinds)[d][v])
  <1> DEFINE Good(d) == \A v \in Nested(kinds)[d] :
               ShapeDims(kinds)[d][v] # Failed => ShapeBehind(n, d, ShapeDims(kinds)[d][v])
             S == {d \in 0..n : Good(d)}
  <1>1. n \in S
    <2>1. ASSUME NEW v \in Nested(kinds)[n] PROVE ShapeBehind(n, n, ShapeDims(kinds)[n][v])
      <3>1. ShapeDims(kinds)[n][v] = [dims |-> <<>>, contiguous |-> TRUE]
        BY ShapeOfNumber
      <3> QED BY <3>1 DEF ShapeBehind, Shape
    <2> QED BY <2>1
  <1>2. ASSUME NEW d \in 0..(n - 1), d + 1 \in S PROVE d \in S
    <2> SUFFICES ASSUME NEW v \in Nested(kinds)[d], ShapeDims(kinds)[d][v] # Failed
                 PROVE  ShapeBehind(n, d, ShapeDims(kinds)[d][v])
      OBVIOUS
    <2>1. /\ v \in Seq(Nested(kinds)[d + 1])
          /\ ShapeDims(kinds)[d][v] = DimsOf(v, Behind(kinds, d + 1), ShapeDims(kinds)[d + 1])
      BY ShapeOfNested
    <2>2. Good(d + 1)
      BY <1>2
    <2> QED BY <2>1, <2>2, ShapeStep
  <1> HIDE DEF S
  <1>3. \A d \in 0..n : d \in S
    BY <1>1, <1>2, Descend
  <1> QED BY <1>3 DEF S

(* The dimensions behind d others.                                         *)
LEMMA BehindTail ==
  ASSUME NEW r \in Nat, NEW shape \in Seq(Nat), Len(shape) = r, NEW d \in 0..(r - 1)
  PROVE  Behind(shape, d)[1] = shape[d + 1] /\ Tail(Behind(shape, d)) = Behind(shape, d + 1)
  <1>0. shape \in Seq(Nat \cup {Slice}) /\ d \in 0..r /\ d + 1 \in 0..r /\ 1 \in 1..(r - d)
    <2>1. \A i \in 1..Len(shape) : shape[i] \in Nat \cup {Slice}
      OBVIOUS
    <2>2. shape \in Seq(Nat \cup {Slice})
      BY <2>1, MadeOf
    <2> QED BY <2>2
  <1> DEFINE s == Behind(shape, d)
             t == Behind(shape, d + 1)
  <1>1. s \in Seq(Nat \cup {Slice}) /\ Len(s) = r - d /\ \A i \in 1..(r - d) : s[i] = shape[d + i]
    BY <1>0, BehindIs
  <1>2. /\ t \in Seq(Nat \cup {Slice}) /\ Len(t) = r - (d + 1)
        /\ \A i \in 1..(r - (d + 1)) : t[i] = shape[(d + 1) + i]
    BY <1>0, BehindIs
  <1> HIDE DEF s, t
  <1>3. s # <<>> /\ Tail(s) \in Seq(Nat \cup {Slice}) /\ Len(Tail(s)) = r - d - 1
        /\ \A i \in 1..(r - d - 1) : Tail(s)[i] = s[i + 1]
    BY <1>0, <1>1
  <1>4. \A i \in 1..(r - d - 1) : Tail(s)[i] = t[i]
    <2> SUFFICES ASSUME NEW i \in 1..(r - d - 1) PROVE Tail(s)[i] = t[i]
      OBVIOUS
    <2>1. i + 1 \in 1..(r - d) /\ i \in 1..(r - (d + 1)) /\ d + (i + 1) = (d + 1) + i
      BY <1>0
    <2> QED BY <1>1, <1>2, <1>3, <2>1
  <1>5. Tail(s) = t
    <2>1. r - (d + 1) = r - d - 1
      BY <1>0
    <2> QED BY <1>2, <1>3, <1>4, <2>1, SeqEqual
  <1> QED BY <1>0, <1>1, <1>5 DEF s, t

(* The dimensions of a value that lies behind d levels of one of shape.    *)
Even(kinds, shape, d, v) ==
  /\ v \in Nested(kinds)[d] /\ ShapeDims(kinds)[d][v] # Failed
  /\ ShapeDims(kinds)[d][v].dims = Behind(shape, d)

EvenRows(kinds, shape, d, v) ==
  /\ v \in Seq(Nested(kinds)[d + 1]) /\ Len(v) = shape[d + 1]
  /\ \A i \in 1..Len(v) : Even(kinds, shape, d + 1, v[i])

LEMMA EvenIs ==
  ASSUME NEW n \in Nat, NEW kinds \in Seq(Nat \cup {Slice}), Len(kinds) = n,
         NEW r \in Nat, NEW shape \in Seq(Nat), Len(shape) = r,
         NEW d \in 0..(n - 1), d < r, NEW v, Even(kinds, shape, d, v)
  PROVE  /\ EvenRows(kinds, shape, d, v)
         /\ Flatly(v, Behind(kinds, d + 1), ShapeDims(kinds)[d][v], ShapeDims(kinds)[d + 1])
  <1> DEFINE own == ShapeDims(kinds)[d][v]
             inner == ShapeDims(kinds)[d + 1]
             rest == Behind(kinds, d + 1)
             Y == Nested(kinds)[d + 1]
  <1>1. v \in Nested(kinds)[d] /\ own # Failed /\ own.dims = Behind(shape, d)
    BY DEF Even
  <1>2. v \in Seq(Y) /\ own = DimsOf(v, rest, inner)
    BY <1>1, ShapeOfNested
  <1>3. \A w \in Y : inner[w] # Failed => ShapeBehind(n, d + 1, inner[w])
    <2>1. d + 1 \in 0..n
      OBVIOUS
    <2> QED BY <2>1, ShapesBehind
  <1>4. Evenly(v, own, inner) /\ Flatly(v, rest, own, inner)
    <2> HIDE DEF own, inner, Y
    <2> QED BY <1>1, <1>2, <1>3, ShapeStep
  <1>5. Behind(shape, d)[1] = shape[d + 1] /\ Tail(Behind(shape, d)) = Behind(shape, d + 1)
    <2>1. d \in 0..(r - 1)
      OBVIOUS
    <2> QED BY <2>1, BehindTail
  <1>6. Len(v) = shape[d + 1]
    BY <1>1, <1>4, <1>5 DEF Evenly
  <1>7. ASSUME NEW i \in 1..Len(v) PROVE Even(kinds, shape, d + 1, v[i])
    <2>1. v[i] \in Y
      BY <1>2
    <2>2. inner[v[i]] # Failed /\ inner[v[i]].dims = Tail(own.dims)
      BY <1>4 DEF Evenly
    <2> QED BY <1>1, <1>5, <2>1, <2>2 DEF Even
  <1>8. EvenRows(kinds, shape, d, v)
    BY <1>2, <1>6, <1>7 DEF EvenRows
  <1> QED BY <1>4, <1>8

(* The scalars of a value are those of p from each of the values in it.    *)
Copied(kinds, shape, d, v, p) ==
  /\ Scalars(kinds)[d][v] \in Seq(Numbers) /\ Len(Scalars(kinds)[d][v]) = shape[d + 1] * p
  /\ \A i \in 1..shape[d + 1], k \in 1..p :
       /\ (i - 1) * p + k \in 1..(shape[d + 1] * p)
       /\ Scalars(kinds)[d][v][(i - 1) * p + k] = Scalars(kinds)[d + 1][v[i]][k]

LEMMA CopyIs ==
  ASSUME NEW n \in Nat, NEW kinds \in Seq(Nat \cup {Slice}), Len(kinds) = n,
         NEW r \in Nat, NEW shape \in Seq(Nat), Len(shape) = r,
         NEW d \in 0..(n - 1), d < r, NEW v, Even(kinds, shape, d, v), NEW p \in Nat,
         \A i \in 1..Len(v) : /\ Scalars(kinds)[d + 1][v[i]] \in Seq(Numbers)
                              /\ Len(Scalars(kinds)[d + 1][v[i]]) = p
  PROVE  Copied(kinds, shape, d, v, p)
  <1> DEFINE m == shape[d + 1]
             inner == Scalars(kinds)[d + 1]
             parts == [i \in 1..m |-> inner[v[i]]]
             flat == Scalars(kinds)[d][v]
  <1>1. v \in Seq(Nested(kinds)[d + 1]) /\ Len(v) = m
    <2>1. EvenRows(kinds, shape, d, v)
      BY EvenIs
    <2> QED BY <2>1 DEF EvenRows
  <1>2. m \in Nat
    <2>1. d + 1 \in 1..r
      OBVIOUS
    <2> QED BY <2>1
  <1>3. flat = FlattenSeq([i \in DOMAIN v |-> inner[v[i]]])
    <2>1. v \in Nested(kinds)[d]
      BY DEF Even
    <2> QED BY <2>1, ShapeOfNested
  <1>4. flat = FlattenSeq(parts)
    <2>1. DOMAIN v = 1..m
      BY <1>1
    <2> QED BY <1>3, <2>1
  <1>5. parts \in [1..m -> Seq(Numbers)] /\ \A i \in 1..m : parts[i] = inner[v[i]] /\ Len(parts[i]) = p
    BY <1>1
  <1> HIDE DEF m, parts, flat, inner
  <1>6. /\ FlattenSeq(parts) \in Seq(Numbers) /\ Len(FlattenSeq(parts)) = m * p
        /\ \A i \in 1..m, k \in 1..p :
             /\ (i - 1) * p + k \in 1..(m * p)
             /\ FlattenSeq(parts)[(i - 1) * p + k] = parts[i][k]
    <2>1. m \in Nat /\ parts \in [1..m -> Seq(Numbers)] /\ \A i \in 1..m : Len(parts[i]) = p
      BY <1>2, <1>5
    <2>2. FlattenSeq(parts) \in Seq(Numbers) /\ Len(FlattenSeq(parts)) = m * p
      BY <2>1, FlattenIs
    <2>3. Placed(FlattenSeq(parts), parts, m, p)
      BY <2>1, FlattenIs
    <2> QED BY <2>2, <2>3 DEF Placed
  <1>7. \A i \in 1..m, k \in 1..p : flat[(i - 1) * p + k] = inner[v[i]][k]
    BY <1>4, <1>5, <1>6
  <1>8. flat \in Seq(Numbers) /\ Len(flat) = m * p
    BY <1>4, <1>6
  <1> QED BY <1>6, <1>7, <1>8 DEF Copied, flat, inner, m

----------------------------------------------------------------------------
(* Reads of a captured value                                               *)

(* The rows of a value from base on are the values in it.                  *)
RowsOf(buf, layout, d, v, base) ==
  \A i \in 1..Len(v) :
    SliceAt(buf, layout)[d + 1][Wrap(base + (i - 1) * layout.strides[d + 1])] = Value(v[i])

LEMMA ValueIs ==
  ASSUME NEW x
  PROVE  Value(x).kind = "value" /\ Value(x).value = x
  BY DEF Value

ReadsAs(buf, layout, d, v, base) == SliceAt(buf, layout)[d][base] = Value(v)

LEMMA RowsRead ==
  ASSUME NEW r \in Nat, NEW buf, NEW layout, Len(layout.shape) = r, NEW d \in 0..(r - 1),
         NEW base \in Int, NEW v, v = [i \in 1..Len(v) |-> v[i]], Len(v) = layout.shape[d + 1],
         RowsOf(buf, layout, d, v, base)
  PROVE  ReadsAs(buf, layout, d, v, base)
  <1> DEFINE inner == SliceAt(buf, layout)[d + 1]
             m == Len(v)
  <1>1. SliceAt(buf, layout)[d] = Rows(layout, d + 1, inner)
    <2>1. /\ SliceAt(buf, layout)[r] = [at \in Int |-> ValueAtByteOffset(buf, at)]
          /\ \A e \in 0..(r - 1) :
               SliceAt(buf, layout)[e] = Rows(layout, e + 1, SliceAt(buf, layout)[e + 1])
      BY SliceAtIs
    <2> QED BY <2>1
  <1>2. \A i \in 1..m : inner[Wrap(base + (i - 1) * layout.strides[d + 1])] = Value(v[i])
    BY DEF RowsOf
  <1> HIDE DEF inner
  <1>3. \A i \in 1..m : /\ inner[Wrap(base + (i - 1) * layout.strides[d + 1])].kind = "value"
                        /\ inner[Wrap(base + (i - 1) * layout.strides[d + 1])].value = v[i]
    BY <1>2, ValueIs
  <1>4. Readable(layout, d + 1, inner, base)
    BY <1>3 DEF Readable
  <1>5. ReadOf(layout, d + 1, inner, base) = v
    <2>1. ReadOf(layout, d + 1, inner, base)
            = [i \in 1..m |-> inner[Wrap(base + (i - 1) * layout.strides[d + 1])].value]
      BY DEF ReadOf
    <2>2. v = [i \in 1..m |-> v[i]]
      OBVIOUS
    <2> HIDE DEF m
    <2>3. [i \in 1..m |-> inner[Wrap(base + (i - 1) * layout.strides[d + 1])].value] = [i \in 1..m |-> v[i]]
      BY <1>3
    <2> QED BY <2>1, <2>2, <2>3
  <1>6. Rows(layout, d + 1, inner)[base] = Value(ReadOf(layout, d + 1, inner, base))
    BY <1>4, RowsAre
  <1> QED BY <1>1, <1>5, <1>6 DEF ReadsAs

(* Before a dimension of 0, a value has no scalars, and is read from       *)
(* anywhere.                                                               *)
Hollow(kinds, buf, layout, d, v) ==
  /\ Scalars(kinds)[d][v] \in Seq(Numbers) /\ Len(Scalars(kinds)[d][v]) = 0
  /\ \A base \in Int : RowsOf(buf, layout, d, v, base)

LEMMA HollowRead ==
  ASSUME NEW n \in Nat, NEW kinds \in Seq(Nat \cup {Slice}), Len(kinds) = n,
         NEW r \in 0..n, NEW shape \in Seq(Nat), Len(shape) = r, NEW buf, NEW layout,
         layout.shape = shape, layout.strides \in [1..r -> Int],
         NEW z \in 1..r, shape[z] = 0, NEW value, Even(kinds, shape, 0, value)
  PROVE  Hollow(kinds, buf, layout, 0, value)
  <1> DEFINE Good(d) == \A v : Even(kinds, shape, d, v) => Hollow(kinds, buf, layout, d, v)
             S == {d \in 0..(z - 1) : Good(d)}
  <1>0. r \in Nat
    OBVIOUS
  <1>1. z - 1 \in S
    <2> SUFFICES ASSUME NEW v, Even(kinds, shape, z - 1, v)
                 PROVE  Hollow(kinds, buf, layout, z - 1, v)
      OBVIOUS
    <2> DEFINE d == z - 1
    <2>1. d \in 0..(n - 1) /\ d < r /\ d + 1 = z
      OBVIOUS
    <2> HIDE DEF d
    <2>2. Even(kinds, shape, d, v)
      BY DEF d
    <2>3. EvenRows(kinds, shape, d, v)
      BY <1>0, <2>1, <2>2, EvenIs
    <2>4. Len(v) = 0
      BY <2>1, <2>3 DEF EvenRows
    <2>5. Copied(kinds, shape, d, v, 0)
      <3>1. \A i \in 1..Len(v) : /\ Scalars(kinds)[d + 1][v[i]] \in Seq(Numbers)
                                 /\ Len(Scalars(kinds)[d + 1][v[i]]) = 0
        BY <2>4
      <3>2. 0 \in Nat
        OBVIOUS
      <3> QED BY <1>0, <2>1, <2>2, <3>1, <3>2, CopyIs, Zenon
    <2>6. Hollow(kinds, buf, layout, d, v)
      BY <2>1, <2>4, <2>5 DEF Copied, Hollow, RowsOf
    <2> QED BY <2>6 DEF d
  <1>2. ASSUME NEW d \in 0..((z - 1) - 1), d + 1 \in S PROVE d \in S
    <2> SUFFICES ASSUME NEW v, Even(kinds, shape, d, v) PROVE Hollow(kinds, buf, layout, d, v)
      OBVIOUS
    <2>1. d \in 0..(n - 1) /\ d < r /\ d + 1 \in 0..(r - 1) /\ d + 1 \in 0..(n - 1) /\ d + 1 \in 1..r
          /\ d + 1 < r
      OBVIOUS
    <2>2. EvenRows(kinds, shape, d, v)
      BY <1>0, <2>1, EvenIs
    <2>3. /\ v \in Seq(Nested(kinds)[d + 1]) /\ Len(v) = shape[d + 1]
          /\ \A i \in 1..Len(v) : Even(kinds, shape, d + 1, v[i])
      BY <2>2 DEF EvenRows
    <2>4. \A i \in 1..Len(v) : Hollow(kinds, buf, layout, d + 1, v[i])
      BY <1>2, <2>3
    <2>5. Copied(kinds, shape, d, v, 0)
      <3>1. \A i \in 1..Len(v) : /\ Scalars(kinds)[d + 1][v[i]] \in Seq(Numbers)
                                 /\ Len(Scalars(kinds)[d + 1][v[i]]) = 0
        BY <2>4 DEF Hollow
      <3>2. 0 \in Nat
        OBVIOUS
      <3> QED BY <1>0, <2>1, <3>1, <3>2, CopyIs, Zenon
    <2>6. shape[d + 1] * 0 = 0
      BY <2>1
    <2>7. ASSUME NEW i \in 1..Len(v), NEW at \in Int
          PROVE  SliceAt(buf, layout)[d + 1][at] = Value(v[i])
      <3> DEFINE e == d + 1
                 w == v[i]
      <3>1. Even(kinds, shape, e, v[i]) /\ e \in 0..(n - 1) /\ e < r /\ e \in 0..(r - 1)
        BY <2>1, <2>3
      <3>2. RowsOf(buf, layout, e, w, at)
        BY <2>4 DEF Hollow
      <3> HIDE DEF e
      <3>3. EvenRows(kinds, shape, e, v[i])
        BY <1>0, <3>1, EvenIs
      <3>4. w = [k \in 1..Len(w) |-> w[k]] /\ Len(w) = layout.shape[e + 1]
        BY <3>3, SMTT(30) DEF EvenRows
      <3>5. Len(layout.shape) = r
        OBVIOUS
      <3> HIDE DEF w
      <3>6. ReadsAs(buf, layout, e, w, at)
        BY <1>0, <3>1, <3>2, <3>4, <3>5, RowsRead
      <3> QED BY <3>6 DEF e, w, ReadsAs
    <2>8. ASSUME NEW base \in Int PROVE RowsOf(buf, layout, d, v, base)
      <3> SUFFICES ASSUME NEW i \in 1..Len(v)
                   PROVE  SliceAt(buf, layout)[d + 1][Wrap(base + (i - 1) * layout.strides[d + 1])]
                            = Value(v[i])
        BY DEF RowsOf
      <3> DEFINE step == layout.strides[d + 1]
      <3>1. step \in Int /\ i - 1 \in Int
        BY <2>1, <2>3
      <3> HIDE DEF step
      <3>2. (i - 1) * step \in Int
        BY <3>1, TimesInt
      <3>3. base + (i - 1) * step \in Int
        BY <3>2
      <3>4. Wrap(base + (i - 1) * step) \in Int
        BY <3>3, WrapIs
      <3> QED BY <2>7, <3>4 DEF step
    <2> QED BY <2>5, <2>6, <2>8 DEF Copied, Hollow
  <1> HIDE DEF S
  <1>3. \A d \in 0..(z - 1) : d \in S
    <2>1. z - 1 \in Nat
      OBVIOUS
    <2> QED BY <1>1, <1>2, <2>1, Descend
  <1>4. 0 \in S
    BY <1>3
  <1> QED BY <1>4 DEF S

----------------------------------------------------------------------------
(* The scalars behind each dimension of a shape                            *)

(* Elements that are counted are no more than an int64 holds.              *)
LEMMA CountIs ==
  ASSUME NEW n \in Nat \ {0}, NEW shape \in [1..n -> Nat \ {0}], ShapeProduct(shape) # Failed
  PROVE  ShapeProduct(shape) \in Nat \ {0} /\ ShapeProduct(shape) <= MaxInt
  <1> DEFINE P == Products(shape)
             p == P[n - 1]
             dim == shape[n]
  <1>1. shape \in [1..n -> Int] /\ \A i \in 1..n : shape[i] # 0
    OBVIOUS
  <1>2. Len(shape) = n /\ P[n] = Times(p, dim)
    <2>1. Len(shape) = n /\ \A i \in 1..n : P[i] = Times(P[i - 1], shape[i])
      BY <1>1, ProductsAre
    <2> QED BY <2>1
  <1>3. ShapeProduct(shape) = P[n]
    BY <1>2 DEF ShapeProduct
  <1>4. \A i \in 0..n : P[i] \in Nat \ {0}
    BY <1>1, Counted
  <1>5. p \in Nat \ {0} /\ P[n] \in Nat \ {0}
    BY <1>4
  <1>6. dim \in Nat \ {0}
    OBVIOUS
  <1>7. Failed \notin Int /\ MaxInt \in Nat
    BY LayoutAssumption, WidthAssumption
  <1> HIDE DEF P, p, dim
  <1>8. Times(p, dim) # Failed
    BY <1>2, <1>3
  <1>9. p \notin {Failed, 0} /\ ~(dim < 0) /\ dim # 0
    BY <1>5, <1>6, <1>7
  <1>10. Times(p, dim) = IF p > MaxInt \div dim THEN Failed ELSE p * dim
    BY <1>9 DEF Times
  <1>11. MaxInt \div dim \in Int
    BY <1>6, <1>7, DivMod
  <1>12. p <= MaxInt \div dim /\ Times(p, dim) = p * dim
    BY <1>5, <1>8, <1>10, <1>11
  <1>13. p * dim <= MaxInt
    <2>1. p \in Int /\ MaxInt \in Int /\ p <= MaxInt \div dim
      BY <1>5, <1>7, <1>12
    <2> QED BY <1>6, <2>1, DivAtMost
  <1> QED BY <1>2, <1>3, <1>5, <1>12, <1>13

(* The number of scalars behind each of the first dimensions.              *)
Blocks(n, shape, block) ==
  /\ block \in [0..n -> Nat \ {0}] /\ block[n] = 1
  /\ block[0] = ShapeProduct(shape) /\ block[0] <= MaxInt
  /\ \A d \in 0..(n - 1) : block[d] = shape[d + 1] * block[d + 1]

LEMMA BlocksAre ==
  ASSUME NEW n \in Nat \ {0}, NEW shape \in [1..n -> Nat \ {0}], ShapeProduct(shape) # Failed
  PROVE  \E block : Blocks(n, shape, block)
  <1> DEFINE total == ShapeProduct(shape)
             D == DefaultStrides(shape, 1)
             block == [d \in 0..n |-> IF d = 0 THEN total ELSE D[d]]
  <1>1. total \in Nat \ {0} /\ total <= MaxInt
    BY CountIs
  <1>2. total * 1 <= MaxInt /\ total * 1 = total /\ 1 \in Nat \ {0}
    BY <1>1
  <1>3. /\ D \in [1..n -> Nat \ {0}] /\ D[n] = 1
        /\ \A i \in 1..(n - 1) : D[i] = D[i + 1] * shape[i + 1]
        /\ D[1] * shape[1] = total * 1
    BY <1>2, DenseStrides
  <1> HIDE DEF total, D
  <1>4. block \in [0..n -> Nat \ {0}] /\ block[n] = 1 /\ block[0] = total
    BY <1>1, <1>3
  <1>5. ASSUME NEW d \in 0..(n - 1) PROVE block[d] = shape[d + 1] * block[d + 1]
    <2>1. d + 1 \in 1..n /\ shape[d + 1] \in Nat /\ D[d + 1] \in Nat /\ block[d + 1] = D[d + 1]
      BY <1>3
    <2>2. block[d] = D[d + 1] * shape[d + 1]
      <3>1. CASE d = 0
        BY <1>2, <1>3, <3>1
      <3>2. CASE d # 0
        <4>1. d \in 1..(n - 1)
          BY <3>2
        <4> QED BY <1>3, <4>1
      <3> QED BY <3>1, <3>2
    <2> HIDE DEF block
    <2> QED BY <2>1, <2>2
  <1> HIDE DEF block
  <1>6. Blocks(n, shape, block)
    BY <1>1, <1>4, <1>5 DEF Blocks, total
  <1> QED BY <1>6

(* A dimension makes its block no smaller.                                 *)
LEMMA BlocksFall ==
  ASSUME NEW n \in Nat \ {0}, NEW shape \in [1..n -> Nat \ {0}], NEW block, Blocks(n, shape, block)
  PROVE  \A d \in 0..n : block[d] <= block[0]
  <1>1. block \in [0..n -> Nat \ {0}] /\ \A d \in 0..(n - 1) : block[d] = shape[d + 1] * block[d + 1]
    BY DEF Blocks
  <1> DEFINE S == {d \in 0..n : block[d] <= block[0]}
  <1>2. 0 \in S
    BY <1>1
  <1>3. ASSUME NEW d \in 1..n, d - 1 \in S PROVE d \in S
    <2> DEFINE a == shape[d]
               b == block[d]
    <2>1. a \in Nat \ {0} /\ b \in Nat /\ block[0] \in Nat
      BY <1>1
    <2>2. a * b <= block[0]
      <3>1. d - 1 \in 0..(n - 1) /\ (d - 1) + 1 = d
        OBVIOUS
      <3> QED BY <1>1, <1>3, <3>1
    <2> HIDE DEF a, b
    <2>3. 1 * b <= a * b /\ a * b \in Int /\ 1 * b = b
      BY <2>1, TimesMono, TimesInt
    <2>4. b <= block[0]
      BY <2>1, <2>2, <2>3
    <2> QED BY <2>4 DEF b
  <1> HIDE DEF S
  <1>4. \A d \in 0..n : d \in S
    BY <1>2, <1>3, Climb
  <1> QED BY <1>4 DEF S

(* The strides of a capture are those of a dense table.                    *)
LEMMA StridesAre ==
  ASSUME NEW n \in Nat \ {0}, NEW shape \in [1..n -> Nat \ {0}], NEW block, Blocks(n, shape, block),
         NEW elem \in Nat \ {0}, ShapeProduct(shape) # Failed, ShapeProduct(shape) * elem <= MaxInt
  PROVE  /\ \A d \in 1..n : DefaultStrides(shape, elem)[d] = block[d] * elem
         /\ ContiguousStrides(shape, elem) = DefaultStrides(shape, elem)
  <1> DEFINE D == DefaultStrides(shape, elem)
             C == ContiguousStrides(shape, elem)
  <1>1. /\ block \in [0..n -> Nat \ {0}] /\ block[n] = 1
        /\ \A d \in 0..(n - 1) : block[d] = shape[d + 1] * block[d + 1]
    BY DEF Blocks
  <1>2. /\ D \in [1..n -> Nat \ {0}] /\ D[n] = elem
        /\ \A i \in 1..(n - 1) : D[i] = D[i + 1] * shape[i + 1]
    BY DenseStrides, SMTT(30)
  <1>3. Len(shape) = n /\ DOMAIN shape = 1..n
    <2>1. shape = [i \in 1..n |-> shape[i]]
      OBVIOUS
    <2> QED BY <2>1, LenIs
  <1>4. /\ C = [d \in 1..n |-> C[d]] /\ C[n] = elem
        /\ \A d \in 1..(n - 1) : C[d] = NextStride(shape, d, C[d + 1])
    BY <1>3, ContiguousAre
  <1>5. MaxInt \in Nat /\ block[0] * elem <= MaxInt
    <2>1. block[0] = ShapeProduct(shape)
      BY DEF Blocks
    <2> QED BY <2>1, WidthAssumption
  <1>6. \A d \in 0..n : block[d] * elem <= block[0] * elem
    <2> SUFFICES ASSUME NEW d \in 0..n PROVE block[d] * elem <= block[0] * elem
      OBVIOUS
    <2>1. block[d] <= block[0] /\ block[d] \in Int /\ block[0] \in Int /\ elem \in Nat
      <3>1. \A i \in 0..n : block[i] <= block[0]
        BY BlocksFall
      <3> QED BY <1>1, <3>1
    <2> QED BY <2>1, TimesMono
  <1> HIDE DEF D, C
  <1> DEFINE S == {d \in 0..(n - 1) : D[d + 1] = block[d + 1] * elem /\ C[d + 1] = block[d + 1] * elem}
  <1>7. n - 1 \in S
    <2>1. (n - 1) + 1 = n /\ n - 1 \in 0..(n - 1) /\ 1 * elem = elem
      OBVIOUS
    <2> QED BY <1>1, <1>2, <1>4, <2>1
  <1>8. ASSUME NEW e \in 0..((n - 1) - 1), e + 1 \in S PROVE e \in S
    <2> DEFINE d == e + 1
    <2>1. d \in 1..(n - 1) /\ d + 1 \in 1..n /\ d \in 0..n /\ d + 1 \in 0..n /\ d \in 0..(n - 1)
          /\ e \in 0..(n - 1)
      OBVIOUS
    <2>2. D[d + 1] = block[d + 1] * elem /\ C[d + 1] = block[d + 1] * elem
      BY <1>8
    <2> HIDE DEF d
    <2> DEFINE a == shape[d + 1]
               b == block[d + 1]
               l == b * elem
    <2>3. a \in Nat /\ b \in Nat /\ block[d] = a * b
      BY <1>1, <2>1
    <2>4. l * a = block[d] * elem
      BY <2>3
    <2>5. block[d] * elem <= MaxInt
      <3>1. block[d] * elem \in Int /\ block[0] * elem \in Int
        BY <1>1, <2>1, TimesInt
      <3> QED BY <1>5, <1>6, <2>1, <3>1
    <2>6. l * a \in Int
      BY <2>3, TimesInt
    <2> HIDE DEF l
    <2>7. ~(l * a > MaxInt)
      BY <1>5, <2>4, <2>5, <2>6
    <2>8. D[d] = l * a
      BY <1>2, <2>1, <2>2 DEF l
    <2>9. C[d] = l * a
      <3>1. C[d] = NextStride(shape, d, l)
        BY <1>4, <2>1, <2>2 DEF l
      <3> QED BY <2>7, <3>1 DEF NextStride
    <2>10. D[d] = block[d] * elem /\ C[d] = block[d] * elem
      BY <2>4, <2>8, <2>9
    <2> QED BY <2>1, <2>10 DEF d
  <1> HIDE DEF S
  <1>9. \A d \in 0..(n - 1) : d \in S
    <2>1. n - 1 \in Nat
      OBVIOUS
    <2> QED BY <1>7, <1>8, <2>1, Descend
  <1>10. \A d \in 1..n : D[d] = block[d] * elem /\ C[d] = block[d] * elem
    <2> SUFFICES ASSUME NEW d \in 1..n PROVE D[d] = block[d] * elem /\ C[d] = block[d] * elem
      OBVIOUS
    <2>1. d - 1 \in 0..(n - 1) /\ (d - 1) + 1 = d
      OBVIOUS
    <2>2. d - 1 \in S
      BY <1>9, <2>1
    <2> QED BY <2>1, <2>2 DEF S
  <1>11. C = D
    <2>1. D = [d \in 1..n |-> D[d]]
      BY <1>2
    <2> QED BY <1>4, <1>10, <2>1
  <1> QED BY <1>10, <1>11 DEF C, D

(* So many elements are counted in the rows of a table.                    *)
LEMMA TailCounted ==
  ASSUME NEW n \in Nat \ {0}, NEW shape \in [1..n -> Nat \ {0}], NEW block, Blocks(n, shape, block)
  PROVE  ShapeProduct(Tail(shape)) = block[1]
  <1> DEFINE m == n - 1
             rows == Tail(shape)
             P == Products(rows)
  <1>1. /\ block \in [0..n -> Nat \ {0}] /\ block[n] = 1 /\ block[0] <= MaxInt
        /\ \A d \in 0..(n - 1) : block[d] = shape[d + 1] * block[d + 1]
    BY DEF Blocks
  <1>2. m \in Nat /\ shape \in Seq(Nat \ {0}) /\ Len(shape) = n
    <2>1. shape = [i \in 1..n |-> shape[i]]
      OBVIOUS
    <2> QED BY <2>1, LenIs
  <1>3. rows \in [1..m -> Int] /\ \A i \in 1..m : rows[i] = shape[i + 1]
    <2>1. Tail(shape) = [i \in 1..(n - 1) |-> shape[i + 1]]
      <3>1. shape # <<>>
        BY <1>2
      <3>2. /\ Tail(shape) \in Seq(Nat \ {0}) /\ Len(Tail(shape)) = n - 1
            /\ \A i \in 1..(n - 1) : Tail(shape)[i] = shape[i + 1]
        BY <1>2, <3>1
      <3>3. Tail(shape) = [i \in 1..(n - 1) |-> Tail(shape)[i]]
        <4> DEFINE t == Tail(shape)
        <4>1. t \in Seq(Nat \ {0}) /\ Len(t) = n - 1
          BY <3>2
        <4> HIDE DEF t
        <4>2. t = [i \in 1..Len(t) |-> t[i]]
          BY <4>1
        <4>3. t = [i \in 1..(n - 1) |-> t[i]]
          BY <4>1, <4>2
        <4> QED BY <4>3 DEF t
      <3> QED BY <3>2, <3>3
    <2>2. \A i \in 1..(n - 1) : shape[i + 1] \in Int
      OBVIOUS
    <2> QED BY <2>1, <2>2
  <1> HIDE DEF rows, m
  <1>4. Len(rows) = m /\ P[0] = 1 /\ \A i \in 1..m : P[i] = Times(P[i - 1], rows[i])
    BY <1>2, <1>3, ProductsAre
  <1>5. Failed \notin Int /\ MaxInt \in Nat
    BY LayoutAssumption, WidthAssumption
  <1> HIDE DEF P
  <1> DEFINE S == {i \in 0..m : P[i] \in Nat \ {0} /\ P[i] * block[i + 1] = block[1]}
  <1>6. 0 \in S
    <2>1. block[1] \in Nat
      BY <1>1
    <2>2. 1 * block[0 + 1] = block[1]
      BY <2>1
    <2> QED BY <1>2, <1>4, <2>2
  <1>7. ASSUME NEW i \in 1..m, i - 1 \in S PROVE i \in S
    <2> DEFINE p == P[i - 1]
               dim == rows[i]
               b == block[i + 1]
               c == block[1]
    <2>1. (i - 1) + 1 = i /\ i \in 0..(n - 1) /\ i + 1 \in 0..n /\ i + 1 \in 1..n /\ 1 \in 0..n
      BY DEF m
    <2>2. p \in Nat \ {0} /\ p * block[i] = c
      BY <1>7, <2>1
    <2>3. dim \in Nat \ {0} /\ b \in Nat \ {0} /\ c \in Nat /\ block[i] = dim * b
      BY <1>1, <1>3, <2>1
    <2>4. c <= MaxInt
      <3>1. c <= block[0] /\ block[0] \in Nat
        <4>1. \A j \in 0..n : block[j] <= block[0]
          BY BlocksFall
        <4> QED BY <1>1, <2>1, <4>1
      <3> QED BY <1>1, <1>5, <2>3, <3>1
    <2> HIDE DEF p, dim, b, c
    <2>5. (p * dim) * b = c /\ p * dim \in Nat \ {0}
      BY <2>2, <2>3
    <2>6. (p * dim) * 1 <= (p * dim) * b
      BY <2>3, <2>5, TimesMono
    <2>7. p * dim <= MaxInt
      BY <1>5, <2>3, <2>4, <2>5, <2>6
    <2>8. p <= MaxInt \div dim
      BY <1>5, <2>2, <2>3, <2>7, DivAtMost
    <2>9. MaxInt \div dim \in Int
      BY <1>5, <2>3, DivMod
    <2>10. p \notin {Failed, 0} /\ ~(dim < 0) /\ dim # 0 /\ ~(p > MaxInt \div dim)
      BY <1>5, <2>2, <2>3, <2>8, <2>9
    <2>11. Times(p, dim) = p * dim
      BY <2>10 DEF Times
    <2>12. P[i] = p * dim
      BY <1>4, <2>11 DEF p, dim
    <2> QED BY <2>5, <2>12 DEF b, c
  <1> HIDE DEF S
  <1>8. m \in S
    <2>1. \A i \in 0..m : i \in S
      BY <1>2, <1>6, <1>7, Climb
    <2> QED BY <1>2, <2>1
  <1>9. P[m] \in Nat /\ P[m] * block[m + 1] = block[1] /\ m + 1 = n
    BY <1>8 DEF S, m
  <1>10. P[m] = block[1]
    BY <1>1, <1>9
  <1> QED BY <1>4, <1>10 DEF ShapeProduct, P, rows

(* A value without a dimension of 0 has one for each of its levels, and if *)
(* its scalars follow each other none of the levels in it is a slice.      *)
LEMMA DeepIs ==
  ASSUME NEW n \in Nat, NEW kinds \in Seq(Nat \cup {Slice}), Len(kinds) = n,
         NEW r \in 0..n, NEW shape \in Seq(Nat), Len(shape) = r, \A i \in 1..r : shape[i] # 0,
         NEW value, Even(kinds, shape, 0, value)
  PROVE  /\ r = n
         /\ ShapeDims(kinds)[0][value].contiguous => \A i \in 2..n : kinds[i] # Slice
  <1> DEFINE flat == ShapeDims(kinds)[0][value].contiguous
             Held(d, v) == Even(kinds, shape, d, v) /\ (flat => ShapeDims(kinds)[d][v].contiguous)
             S == {d \in 0..r : \E v : Held(d, v)}
  <1>0. r \in Nat
    OBVIOUS
  <1>1. 0 \in S
    <2>1. Held(0, value)
      OBVIOUS
    <2> HIDE DEF Held
    <2>2. \E v : Held(0, v)
      BY <2>1
    <2> QED BY <2>2
  <1>2. ASSUME NEW d \in 0..(n - 1), d < r, NEW v, Held(d, v)
        PROVE  /\ \E w : Held(d + 1, w)
               /\ flat => (Behind(kinds, d + 1) # <<>> => Behind(kinds, d + 1)[1] # Slice)
    <2>1. /\ EvenRows(kinds, shape, d, v)
          /\ Flatly(v, Behind(kinds, d + 1), ShapeDims(kinds)[d][v], ShapeDims(kinds)[d + 1])
      <3>1. Even(kinds, shape, d, v)
        BY <1>2
      <3> QED BY <1>0, <1>2, <3>1, EvenIs
    <2>2. Len(v) = shape[d + 1] /\ \A i \in 1..Len(v) : Even(kinds, shape, d + 1, v[i])
      BY <2>1 DEF EvenRows
    <2>3. 1 \in 1..Len(v)
      <3>1. d + 1 \in 1..r
        BY <1>2
      <3>2. shape[d + 1] \in Nat \ {0}
        BY <3>1
      <3> QED BY <2>2, <3>2
    <2>4. flat => /\ Behind(kinds, d + 1) # <<>> => Behind(kinds, d + 1)[1] # Slice
                  /\ ShapeDims(kinds)[d + 1][v[1]].contiguous
      BY <1>2, <2>1, <2>3 DEF Flatly
    <2>5. Held(d + 1, v[1])
      BY <2>2, <2>3, <2>4
    <2> HIDE DEF Held, flat
    <2> QED BY <2>4, <2>5
  <1>3. \A d \in 1..r : d - 1 \in S => d \in S
    <2> SUFFICES ASSUME NEW d \in 1..r, d - 1 \in S PROVE d \in S
      OBVIOUS
    <2> DEFINE e == d - 1
    <2>1. e \in 0..(n - 1) /\ e < r /\ e + 1 = d
      OBVIOUS
    <2> HIDE DEF Held
    <2>2. PICK v : Held(e, v)
      OBVIOUS
    <2> HIDE DEF e
    <2>3. \E w : Held(e + 1, w)
      BY <1>2, <2>1, <2>2
    <2> QED BY <2>1, <2>3
  <1> HIDE DEF S
  <1>4. \A d \in 0..r : d \in S
    BY <1>0, <1>1, <1>3, Climb
  <1>5. r = n
    <2> SUFFICES ASSUME r < n PROVE FALSE
      OBVIOUS
    <2>1. PICK v : Even(kinds, shape, r, v)
      <3>1. r \in S
        BY <1>0, <1>4
      <3> QED BY <3>1 DEF S
    <2>2. v \in Nested(kinds)[r] /\ ShapeDims(kinds)[r][v] # Failed
          /\ ShapeDims(kinds)[r][v].dims = Behind(shape, r)
      BY <2>1 DEF Even
    <2>3. ShapeBehind(n, r, ShapeDims(kinds)[r][v])
      BY <2>2, ShapesBehind
    <2>4. Len(Behind(shape, r)) >= 1
      BY <2>2, <2>3 DEF ShapeBehind
    <2>5. Behind(shape, r) = <<>>
      BY <1>0 DEF Behind
    <2> QED BY <2>4, <2>5
  <1>6. ASSUME flat, NEW i \in 2..n PROVE kinds[i] # Slice
    <2> DEFINE d == i - 2
    <2>1. d \in 0..(n - 1) /\ d < r /\ d \in 0..r /\ d + 1 \in 0..n /\ n - (d + 1) >= 1 /\ d + 1 + 1 = i
      BY <1>5
    <2> HIDE DEF d, Held, flat
    <2>2. PICK v : Held(d, v)
      <3>1. d \in S
        BY <1>4, <2>1
      <3> QED BY <3>1 DEF S
    <2>3. Behind(kinds, d + 1) # <<>> => Behind(kinds, d + 1)[1] # Slice
      BY <1>2, <1>6, <2>1, <2>2
    <2>4. /\ Len(Behind(kinds, d + 1)) = n - (d + 1)
          /\ \A k \in 1..(n - (d + 1)) : Behind(kinds, d + 1)[k] = kinds[d + 1 + k]
      BY <2>1, BehindIs
    <2>5. 1 \in 1..(n - (d + 1)) /\ n - (d + 1) # 0
      BY <2>1
    <2>6. Behind(kinds, d + 1) # <<>>
      BY <2>4, <2>5
    <2>7. Behind(kinds, d + 1)[1] = kinds[i]
      BY <2>1, <2>4, <2>5
    <2> QED BY <2>3, <2>6, <2>7
  <1> QED BY <1>5, <1>6

(* What lies in memory from such a value on are its scalars.               *)
LEMMA MemoryIs ==
  ASSUME NEW n \in Nat, NEW kinds, Len(kinds) = n, \A i \in 2..n : kinds[i] # Slice, NEW value
  PROVE  MemoryFrom(kinds, value) = Scalars(kinds)[0][value]
  <1> DEFINE blocks == {0} \cup {d \in 1..(Len(kinds) - 1) : kinds[d + 1] = Slice}
  <1>1. blocks = {0}
    <2>1. ASSUME NEW d \in 1..(n - 1) PROVE kinds[d + 1] # Slice
      <3>1. d + 1 \in 2..n
        OBVIOUS
      <3> QED BY <3>1
    <2> QED BY <2>1
  <1> HIDE DEF blocks
  <1>2. Max(blocks) = 0
    BY <1>1 DEF Max
  <1>3. Firsts(kinds, value)[0] = value
    BY FirstsAre
  <1> QED BY <1>2, <1>3, Zenon DEF MemoryFrom, blocks

LEMMA PointedIs ==
  ASSUME NEW n \in Nat, NEW kinds, Len(kinds) = n, \A i \in 2..n : kinds[i] # Slice, NEW value,
         NEW s \in Seq(Numbers), s = Scalars(kinds)[0][value]
  PROVE  Pointed(kinds, value, Len(s)) = s
  <1>1. MemoryFrom(kinds, value) = s
    BY MemoryIs
  <1>2. Pointed(kinds, value, Len(s)) = [i \in 1..Len(s) |-> IF i \in DOMAIN s THEN s[i] ELSE Stray]
    BY <1>1 DEF Pointed
  <1>3. DOMAIN s = 1..Len(s) /\ s = [i \in 1..Len(s) |-> s[i]]
    OBVIOUS
  <1> QED BY <1>2, <1>3

(* The number of scalars behind each dimension is the product of the ones  *)
(* behind it.                                                              *)
Factored(n, shape, block) ==
  /\ block \in [0..n -> Nat \ {0}] /\ block[n] = 1
  /\ \A d \in 0..(n - 1) : block[d] = shape[d + 1] * block[d + 1]

(* A value has as many scalars as its dimensions say, those of the values  *)
(* in it one behind the other.                                             *)
Dense(n, kinds, shape, block, d, v) ==
  /\ Scalars(kinds)[d][v] \in Seq(Numbers) /\ Len(Scalars(kinds)[d][v]) = block[d]
  /\ d < n => Copied(kinds, shape, d, v, block[d + 1])

LEMMA DenseIs ==
  ASSUME NEW n \in Nat, NEW kinds \in Seq(Nat \cup {Slice}), Len(kinds) = n,
         NEW shape \in Seq(Nat), Len(shape) = n, NEW block, Factored(n, shape, block)
  PROVE  \A d \in 0..n : \A v : Even(kinds, shape, d, v) => Dense(n, kinds, shape, block, d, v)
  <1> DEFINE Good(d) == \A v : Even(kinds, shape, d, v) => Dense(n, kinds, shape, block, d, v)
             S == {d \in 0..n : Good(d)}
  <1>1. /\ block \in [0..n -> Nat \ {0}] /\ block[n] = 1
        /\ \A d \in 0..(n - 1) : block[d] = shape[d + 1] * block[d + 1]
    BY DEF Factored
  <1>2. n \in S
    <2> SUFFICES ASSUME NEW v, Even(kinds, shape, n, v) PROVE Dense(n, kinds, shape, block, n, v)
      OBVIOUS
    <2>1. v \in Numbers /\ Scalars(kinds)[n][v] = <<v>>
      <3>1. v \in Nested(kinds)[n]
        BY DEF Even
      <3> QED BY <3>1, ShapeOfNumber
    <2>2. <<v>> \in Seq(Numbers) /\ Len(<<v>>) = 1
      BY <2>1
    <2> QED BY <1>1, <2>1, <2>2 DEF Dense
  <1>3. ASSUME NEW d \in 0..(n - 1), d + 1 \in S PROVE d \in S
    <2> SUFFICES ASSUME NEW v, Even(kinds, shape, d, v) PROVE Dense(n, kinds, shape, block, d, v)
      OBVIOUS
    <2> DEFINE p == block[d + 1]
    <2>1. d < n /\ p \in Nat
      BY <1>1
    <2>2. EvenRows(kinds, shape, d, v)
      BY <2>1, EvenIs
    <2>3. \A i \in 1..Len(v) : /\ Scalars(kinds)[d + 1][v[i]] \in Seq(Numbers)
                               /\ Len(Scalars(kinds)[d + 1][v[i]]) = p
      <3> SUFFICES ASSUME NEW i \in 1..Len(v)
                   PROVE  /\ Scalars(kinds)[d + 1][v[i]] \in Seq(Numbers)
                          /\ Len(Scalars(kinds)[d + 1][v[i]]) = p
        OBVIOUS
      <3>1. Even(kinds, shape, d + 1, v[i])
        BY <2>2 DEF EvenRows
      <3>2. Dense(n, kinds, shape, block, d + 1, v[i])
        BY <1>3, <3>1
      <3> QED BY <3>2 DEF Dense
    <2> HIDE DEF p
    <2>4. Copied(kinds, shape, d, v, p)
      BY <2>1, <2>3, CopyIs, Zenon
    <2>5. Len(Scalars(kinds)[d][v]) = block[d] /\ Scalars(kinds)[d][v] \in Seq(Numbers)
      BY <1>1, <2>4 DEF Copied, p
    <2> QED BY <2>4, <2>5 DEF Dense, p
  <1> HIDE DEF S
  <1>4. \A d \in 0..n : d \in S
    BY <1>2, <1>3, Descend
  <1> QED BY <1>4 DEF S

(* A buffer of the scalars of such a value, and a dense layout of it.      *)
DenseLayout(n, shape, block, elem, buf, layout) ==
  /\ Len(buf.items) = block[0] /\ buf.elem = elem /\ block[0] * elem <= MaxInt
  /\ layout.shape = shape /\ \A d \in 1..n : layout.strides[d] = block[d] * elem

(* The scalars of a value lie in a buffer behind q others.                 *)
Lies(buf, q, s) == \A k \in 1..Len(s) : buf.items[q + k] = s[k]

(* Where its scalars lie, a value is read.                                 *)
Legible(kinds, buf, layout, block, d, v) ==
  \A q \in Nat : q + block[d] <= block[0] /\ Lies(buf, q, Scalars(kinds)[d][v]) =>
    SliceAt(buf, layout)[d][q * buf.elem] = Value(v)

(* A place behind whole elements.                                          *)
LEMMA PlaceIs ==
  ASSUME NEW elem \in Nat \ {0}, NEW count \in Nat, count * elem <= MaxInt,
         NEW q \in Nat, NEW l \in Nat, q + l <= count
  PROVE  /\ q * elem \in Nat /\ q * elem + l * elem <= count * elem
         /\ Wrap(q * elem) = q * elem
  <1>1. (q + l) * elem <= count * elem
    <2>1. q + l \in Int /\ count \in Int /\ elem \in Nat
      OBVIOUS
    <2> QED BY <2>1, TimesMono
  <1>2. (q + l) * elem = q * elem + l * elem
    OBVIOUS
  <1>3. q * elem \in Nat /\ l * elem \in Nat /\ count * elem \in Nat
    OBVIOUS
  <1> DEFINE a == q * elem
             b == l * elem
             c == count * elem
  <1> HIDE DEF a, b, c
  <1>4. a \in Nat /\ b \in Nat /\ c \in Nat /\ a + b <= c /\ c <= MaxInt
    BY <1>1, <1>2, <1>3 DEF a, b, c
  <1>5. a \in Int /\ a \in Int64
    BY <1>4, WidthAssumption DEF Int64
  <1>6. Wrap(a) = a
    BY <1>5, WrapIs
  <1> QED BY <1>4, <1>6 DEF a, b, c

LEMMA DenseRows ==
  ASSUME NEW n \in Nat, NEW kinds \in Seq(Nat \cup {Slice}), Len(kinds) = n,
         NEW shape \in Seq(Nat), Len(shape) = n, NEW block, Blocks(n, shape, block),
         NEW elem \in Nat \ {0}, NEW buf, NEW layout, DenseLayout(n, shape, block, elem, buf, layout),
         NEW d \in 0..(n - 1), NEW v, Even(kinds, shape, d, v),
         \A w : Even(kinds, shape, d + 1, w) => Legible(kinds, buf, layout, block, d + 1, w),
         NEW q \in Nat, q + block[d] <= block[0], Lies(buf, q, Scalars(kinds)[d][v])
  PROVE  RowsOf(buf, layout, d, v, q * elem)
  <1> SUFFICES ASSUME NEW i \in 1..Len(v)
               PROVE  SliceAt(buf, layout)[d + 1][Wrap(q * elem + (i - 1) * layout.strides[d + 1])]
                        = Value(v[i])
    BY DEF RowsOf
  <1> DEFINE b == block[d + 1]
             m == shape[d + 1]
             s == Scalars(kinds)[d][v]
             w == v[i]
             t == Scalars(kinds)[d + 1][w]
             p == q + (i - 1) * b
  <1>1. d + 1 \in 1..n /\ d + 1 \in 0..n /\ d < n /\ d \in 0..n
    OBVIOUS
  <1>2. b \in Nat /\ m \in Nat /\ block[d] = m * b /\ block[0] \in Nat
    BY <1>1, SMTT(30) DEF Blocks
  <1>20. Factored(n, shape, block)
    BY DEF Blocks, Factored
  <1>3. Len(v) = m /\ Even(kinds, shape, d + 1, w)
    <2>1. EvenRows(kinds, shape, d, v)
      BY <1>1, EvenIs
    <2> QED BY <2>1 DEF EvenRows
  <1>4. Copied(kinds, shape, d, v, b) /\ Len(s) = block[d]
    <2>1. Dense(n, kinds, shape, block, d, v)
      BY <1>1, <1>20, DenseIs
    <2> QED BY <1>1, <2>1 DEF Dense
  <1>5. Len(t) = b
    <2>1. Dense(n, kinds, shape, block, d + 1, w)
      BY <1>1, <1>20, <1>3, DenseIs
    <2> QED BY <2>1 DEF Dense
  <1>6. \A k \in 1..b : (i - 1) * b + k \in 1..(m * b) /\ s[(i - 1) * b + k] = t[k]
    BY <1>3, <1>4 DEF Copied
  <1>7. i \in 1..m /\ i \in Nat /\ i - 1 \in Nat
    BY <1>3
  <1>8. Legible(kinds, buf, layout, block, d + 1, w)
    BY <1>3
  <1>9. layout.strides[d + 1] = b * elem /\ buf.elem = elem /\ block[0] * elem <= MaxInt
    BY <1>1 DEF DenseLayout
  <1>10. \A k \in 1..Len(s) : buf.items[q + k] = s[k]
    BY DEF Lies
  <1> HIDE DEF b, m, s, w, t
  <1>11. (i - 1) * b \in Nat /\ (i - 1) * b + b <= m * b
    <2>1. i * b <= m * b
      <3>1. i <= m /\ i \in Int /\ m \in Int
        BY <1>2, <1>7
      <3> QED BY <1>2, <3>1, TimesMono
    <2>2. (i - 1) * b = i * b - b /\ (i - 1) * b \in Nat /\ i * b \in Nat /\ m * b \in Nat
      BY <1>2, <1>7
    <2> QED BY <1>2, <2>1, <2>2
  <1>12. p \in Nat /\ p + b <= block[0]
    <2>1. q + m * b <= block[0] /\ m * b \in Nat
      BY <1>2
    <2> DEFINE x == (i - 1) * b
               y == m * b
    <2>2. x \in Nat /\ x + b <= y /\ q + y <= block[0] /\ y \in Nat
      BY <1>11, <2>1
    <2> HIDE DEF x, y
    <2>3. q + x \in Nat /\ q + x + b <= block[0]
      BY <1>2, <2>2, SMTT(30)
    <2> QED BY <2>3 DEF x
  <1>13. Lies(buf, p, t)
    <2> SUFFICES ASSUME NEW k \in 1..b PROVE buf.items[p + k] = t[k]
      BY <1>5 DEF Lies
    <2> DEFINE j == (i - 1) * b + k
    <2>1. j \in 1..(m * b) /\ s[j] = t[k]
      BY <1>6
    <2>2. p + k = q + j
      BY <1>2, <1>11
    <2> HIDE DEF j
    <2>3. buf.items[q + j] = s[j]
      BY <1>2, <1>4, <1>10, <2>1
    <2> QED BY <2>1, <2>2, <2>3
  <1>14. q * elem + (i - 1) * (b * elem) = p * elem
    BY <1>2, <1>7
  <1> HIDE DEF p
  <1>15. Wrap(p * elem) = p * elem
    BY <1>2, <1>9, <1>12, PlaceIs
  <1>16. SliceAt(buf, layout)[d + 1][p * elem] = Value(w)
    BY <1>8, <1>9, <1>12, <1>13 DEF Legible, b, t
  <1> QED BY <1>9, <1>14, <1>15, <1>16 DEF w

LEMMA DenseRead ==
  ASSUME NEW n \in Nat, NEW kinds \in Seq(Nat \cup {Slice}), Len(kinds) = n,
         NEW shape \in Seq(Nat), Len(shape) = n, NEW block, Blocks(n, shape, block),
         NEW elem \in Nat \ {0}, NEW buf, NEW layout, DenseLayout(n, shape, block, elem, buf, layout)
  PROVE  \A d \in 0..n : \A v : Even(kinds, shape, d, v) => Legible(kinds, buf, layout, block, d, v)
  <1> DEFINE Good(d) == \A v : Even(kinds, shape, d, v) => Legible(kinds, buf, layout, block, d, v)
             S == {d \in 0..n : Good(d)}
  <1>1. /\ block \in [0..n -> Nat \ {0}] /\ block[n] = 1 /\ block[0] \in Nat
        /\ buf.elem = elem /\ Len(buf.items) = block[0] /\ block[0] * elem <= MaxInt
        /\ layout.shape = shape
    BY DEF Blocks, DenseLayout
  <1>2. n \in S
    <2> SUFFICES ASSUME NEW v, Even(kinds, shape, n, v), NEW q \in Nat, q + block[n] <= block[0],
                        Lies(buf, q, Scalars(kinds)[n][v])
                 PROVE  SliceAt(buf, layout)[n][q * buf.elem] = Value(v)
      BY DEF Legible
    <2>1. Scalars(kinds)[n][v] = <<v>>
      <3>1. v \in Nested(kinds)[n]
        BY DEF Even
      <3> QED BY <3>1, ShapeOfNumber
    <2>2. buf.items[q + 1] = v
      <3>1. 1 \in 1..Len(<<v>>) /\ <<v>>[1] = v
        OBVIOUS
      <3> QED BY <2>1, <3>1 DEF Lies
    <2> DEFINE at == q * elem
    <2>3. at \in Nat /\ at + 1 * elem <= block[0] * elem
      <3>1. q + 1 <= block[0] /\ 1 \in Nat
        BY <1>1
      <3> QED BY <1>1, <3>1, PlaceIs
    <2>4. at \div elem = q /\ at % elem = 0
      BY WidthsDivide
    <2> HIDE DEF at
    <2>5. ByteLen(buf) = block[0] * elem /\ block[0] * elem \in Nat /\ 1 * elem = elem
      BY <1>1 DEF ByteLen
    <2>6. ~(at < 0 \/ at > ByteLen(buf) - buf.elem)
      BY <1>1, <2>3, <2>5
    <2>7. ValueAtByteOffset(buf, at) = Value(v)
      BY <1>1, <2>2, <2>4, <2>6 DEF ValueAtByteOffset
    <2>8. SliceAt(buf, layout)[n] = [base \in Int |-> ValueAtByteOffset(buf, base)]
      BY <1>1, SliceAtIs
    <2> QED BY <1>1, <2>3, <2>7, <2>8 DEF at
  <1>3. ASSUME NEW d \in 0..(n - 1), d + 1 \in S PROVE d \in S
    <2> SUFFICES ASSUME NEW v, Even(kinds, shape, d, v), NEW q \in Nat, q + block[d] <= block[0],
                        Lies(buf, q, Scalars(kinds)[d][v])
                 PROVE  SliceAt(buf, layout)[d][q * buf.elem] = Value(v)
      BY DEF Legible
    <2>1. RowsOf(buf, layout, d, v, q * elem)
      <3>1. Good(d + 1)
        BY <1>3
      <3> QED BY <3>1, DenseRows
    <2>2. EvenRows(kinds, shape, d, v)
      <3>1. d < n
        OBVIOUS
      <3> QED BY <3>1, EvenIs
    <2>3. v = [k \in 1..Len(v) |-> v[k]] /\ Len(v) = layout.shape[d + 1]
      <3>1. v \in Seq(Nested(kinds)[d + 1]) /\ Len(v) = shape[d + 1]
        BY <2>2 DEF EvenRows
      <3>2. v = [k \in 1..Len(v) |-> v[k]]
        BY <3>1
      <3> QED BY <1>1, <3>1, <3>2
    <2>4. Len(layout.shape) = n
      BY <1>1
    <2> DEFINE at == q * elem
    <2>5. at \in Int
      OBVIOUS
    <2> HIDE DEF at
    <2>6. RowsOf(buf, layout, d, v, at)
      BY <2>1 DEF at
    <2>7. ReadsAs(buf, layout, d, v, at)
      BY <2>3, <2>4, <2>5, <2>6, RowsRead
    <2> QED BY <1>1, <2>7 DEF ReadsAs, at
  <1> HIDE DEF S
  <1>4. \A d \in 0..n : d \in S
    BY <1>2, <1>3, Descend
  <1> QED BY <1>4 DEF S

----------------------------------------------------------------------------
(* The buffer of a capture                                                 *)

LEMMA ContiguousTyped ==
  ASSUME NEW n \in Nat \ {0}, NEW shape \in [1..n -> Int], NEW elem \in Int
  PROVE  ContiguousStrides(shape, elem) \in [1..n -> Int]
  <1> DEFINE C == ContiguousStrides(shape, elem)
  <1>1. Len(shape) = n /\ DOMAIN shape = 1..n
    <2>1. shape = [i \in 1..n |-> shape[i]]
      OBVIOUS
    <2> QED BY <2>1, LenIs
  <1>2. /\ C = [d \in 1..n |-> C[d]] /\ C[n] = elem
        /\ \A d \in 1..(n - 1) : C[d] = NextStride(shape, d, C[d + 1])
    BY <1>1, ContiguousAre
  <1> HIDE DEF C
  <1> DEFINE S == {d \in 0..(n - 1) : C[d + 1] \in Int}
  <1>3. n - 1 \in S
    <2>1. n - 1 \in 0..(n - 1) /\ (n - 1) + 1 = n
      OBVIOUS
    <2> QED BY <1>2, <2>1
  <1>4. ASSUME NEW d \in 0..((n - 1) - 1), d + 1 \in S PROVE d \in S
    <2> DEFINE e == d + 1
               a == C[e + 1]
               b == shape[e + 1]
    <2>1. e \in 1..(n - 1) /\ e + 1 \in 1..n /\ d \in 0..(n - 1)
      OBVIOUS
    <2>2. a \in Int /\ b \in Int
      BY <1>4, <2>1
    <2>3. C[e] = NextStride(shape, e, a)
      BY <1>2, <2>1
    <2> HIDE DEF a, e
    <2>4. a * b \in Int
      BY <2>2, TimesInt
    <2>5. C[e] \in Int
      BY <2>2, <2>3, <2>4 DEF NextStride
    <2> QED BY <2>1, <2>5 DEF e
  <1> HIDE DEF S
  <1>5. \A d \in 0..(n - 1) : d \in S
    <2>1. n - 1 \in Nat
      OBVIOUS
    <2> QED BY <1>3, <1>4, <2>1, Descend
  <1>6. ASSUME NEW d \in 1..n PROVE C[d] \in Int
    <2>1. d - 1 \in 0..(n - 1) /\ (d - 1) + 1 = d
      OBVIOUS
    <2>2. d - 1 \in S
      BY <1>5, <2>1
    <2> QED BY <2>1, <2>2 DEF S
  <1>7. C \in [1..n -> Int]
    BY <1>2, <1>6
  <1> QED BY <1>7 DEF C

(* A buffer of all the elements of a shape, its strides those of a capture *)
(* or none.                                                                *)
ViewOf(items, elem, shape, strides) ==
  [items |-> items, elem |-> elem, valid |-> NoValidity,
   meta |-> [shape |-> shape, strides |-> strides, offset |-> 0, nulls |-> 0, bit |-> 0]]

IsView(n, items, elem, shape, strides) ==
  /\ shape \in [1..n -> Nat] /\ ShapeProduct(shape) # Failed
  /\ strides = <<>> \/ strides = ContiguousStrides(shape, elem)
  /\ Len(items) = ShapeProduct(shape) /\ items = [i \in 1..Len(items) |-> items[i]]
  /\ ShapeProduct(shape) * elem <= MaxInt

ViewFacts(n, buf, shape, strides, elem) ==
  LET ref == TableOf(buf)
      layout == LogicalLayout(buf, ref)
  IN  LayoutFacts(n, shape, strides, elem, ShapeProduct(shape), 0, buf, ref, layout)

(* Elements of which one dimension is 0 are none, and others are some.     *)
LEMMA ViewCount ==
  ASSUME NEW n \in Nat \ {0}, NEW shape \in [1..n -> Nat], ShapeProduct(shape) # Failed
  PROVE  /\ ShapeProduct(shape) \in Nat
         /\ (\E i \in 1..n : shape[i] = 0) => ShapeProduct(shape) = 0
         /\ (\A i \in 1..n : shape[i] # 0) =>
              shape \in [1..n -> Nat \ {0}] /\ ShapeProduct(shape) \in Nat \ {0}
  <1>1. shape \in [1..n -> Int]
    OBVIOUS
  <1>2. (\E i \in 1..n : shape[i] = 0) => ShapeProduct(shape) = 0
    BY <1>1, Counted
  <1>3. ASSUME \A i \in 1..n : shape[i] # 0
        PROVE  shape \in [1..n -> Nat \ {0}] /\ ShapeProduct(shape) \in Nat \ {0}
    <2>1. shape \in [1..n -> Nat \ {0}]
      BY <1>3
    <2> QED BY <2>1, CountIs
  <1> QED BY <1>2, <1>3

LEMMA ViewIs ==
  ASSUME NEW n \in Nat \ {0}, NEW items, NEW elem \in 1..MaxInt, NEW shape, NEW strides,
         IsView(n, items, elem, shape, strides),
         NEW buf, buf = ViewOf(items, elem, shape, strides)
  PROVE  ViewFacts(n, buf, shape, strides, elem)
  <1> DEFINE total == ShapeProduct(shape)
             ref == TableOf(buf)
  <1>1. shape \in [1..n -> Nat] /\ shape \in [1..n -> Int] /\ total # Failed /\ Len(items) = total
        /\ (strides = <<>> \/ strides = ContiguousStrides(shape, elem))
    BY DEF IsView
  <1>2. total \in Nat
    BY <1>1, ViewCount
  <1>3. strides \in {<<>>} \cup [1..n -> Int]
    <2>1. elem \in Int
      OBVIOUS
    <2>2. ContiguousStrides(shape, elem) \in [1..n -> Int]
      BY <1>1, <2>1, ContiguousTyped
    <2> QED BY <1>1, <2>2
  <1>4. /\ buf.elem = elem /\ buf.meta.nulls = 0 /\ buf.meta.shape = shape
        /\ buf.meta.strides = strides /\ buf.items = items
    BY DEF ViewOf
  <1>5. ByteLen(buf) = total * elem
    BY <1>1, <1>4 DEF ByteLen
  <1>6. ref = TableRef(shape, strides, 0)
    BY <1>4 DEF TableOf, TableRef
  <1>7. 0 \in Int
    OBVIOUS
  <1> HIDE DEF total, ref
  <1>8. LayoutFacts(n, shape, strides, elem, total, 0, buf, ref, LogicalLayout(buf, ref))
    BY <1>1, <1>2, <1>3, <1>4, <1>5, <1>6, <1>7, TableLayoutIs
  <1> QED BY <1>8 DEF ViewFacts, total, ref

(* Its strides are those of a dense table unless it is empty.              *)
DenseView(n, shape, strides, elem) ==
  /\ shape \in [1..n -> Nat \ {0}] /\ ShapeProduct(shape) \in Nat \ {0}
  /\ StridesOf(shape, strides, elem) = DefaultStrides(shape, elem)
  /\ strides # <<>> => strides = DefaultStrides(shape, elem)
  /\ \E block : /\ Blocks(n, shape, block)
                /\ \A d \in 1..n : DefaultStrides(shape, elem)[d] = block[d] * elem

LEMMA ViewDense ==
  ASSUME NEW n \in Nat \ {0}, NEW items, NEW elem \in 1..MaxInt, NEW shape, NEW strides,
         IsView(n, items, elem, shape, strides), \A i \in 1..n : shape[i] # 0
  PROVE  DenseView(n, shape, strides, elem)
  <1>1. shape \in [1..n -> Nat] /\ ShapeProduct(shape) # Failed
        /\ (strides = <<>> \/ strides = ContiguousStrides(shape, elem))
        /\ ShapeProduct(shape) * elem <= MaxInt
    BY DEF IsView
  <1>2. shape \in [1..n -> Nat \ {0}] /\ ShapeProduct(shape) \in Nat \ {0}
    BY <1>1, ViewCount
  <1>3. PICK block : Blocks(n, shape, block)
    BY <1>1, <1>2, BlocksAre
  <1>4. elem \in Nat \ {0}
    OBVIOUS
  <1>5. /\ \A d \in 1..n : DefaultStrides(shape, elem)[d] = block[d] * elem
        /\ ContiguousStrides(shape, elem) = DefaultStrides(shape, elem)
    BY <1>1, <1>2, <1>3, <1>4, StridesAre
  <1>6. strides # <<>> => strides = DefaultStrides(shape, elem)
    BY <1>1, <1>5
  <1>7. StridesOf(shape, strides, elem) = DefaultStrides(shape, elem)
    <2>1. Len(<<>>) = 0
      OBVIOUS
    <2> QED BY <1>6, <2>1 DEF StridesOf
  <1> QED BY <1>2, <1>3, <1>5, <1>6, <1>7 DEF DenseView

(* It is accepted as a table.                                              *)
LEMMA ViewAccepted ==
  ASSUME NEW n \in Nat \ {0}, NEW items, NEW elem \in 1..MaxInt, NEW shape, NEW strides,
         IsView(n, items, elem, shape, strides),
         NEW buf, buf = ViewOf(items, elem, shape, strides)
  PROVE  Accepted(buf, TableOf(buf))
  <1> DEFINE total == ShapeProduct(shape)
             bytes == total * elem
             b == StridedBounds(shape, strides, elem)
  <1>1. /\ shape \in [1..n -> Nat] /\ total # Failed /\ bytes <= MaxInt
        /\ (strides = <<>> \/ strides = ContiguousStrides(shape, elem))
    BY DEF IsView
  <1>2. /\ ByteLen(buf) = bytes /\ Len(shape) = n
        /\ Accepted(buf, TableOf(buf)) <=> Asked(buf, shape, strides, elem, 0)
    <2>1. ViewFacts(n, buf, shape, strides, elem)
      BY ViewIs
    <2> QED BY <2>1 DEF ViewFacts, LayoutFacts
  <1>3. total \in Nat /\ elem \in Nat \ {0} /\ MaxInt \in Nat
    BY <1>1, ViewCount, WidthAssumption
  <1>4. bytes \in Nat /\ bytes \in Int64 /\ 0 \in Int64
    <2>1. bytes \in Nat
      BY <1>3
    <2> QED BY <1>1, <1>3, <2>1 DEF Int64
  <1>5. Wrap(0 + bytes) = bytes /\ Wrap(bytes) = bytes /\ Wrap(0 + 0) = 0
    <2> HIDE DEF bytes
    <2>1. 0 + bytes = bytes /\ bytes \in Int /\ 0 + 0 = 0 /\ 0 \in Int
      BY <1>4
    <2> QED BY <1>4, <2>1, WrapIs
  <1> SUFFICES ASSUME Len(strides) > 0
               PROVE  b.ok /\ Within(buf, Wrap(0 + b.min), Wrap(0 + b.max))
    <2>1. Within(buf, 0, Wrap(0 + Wrap(total * elem)))
      BY <1>2, <1>4, <1>5 DEF Within
    <2> QED BY <1>1, <1>2, <2>1 DEF Asked
  <1> HIDE DEF b
  <1>6. CASE \E i \in 1..n : shape[i] = 0
    <2>1. \E i \in DOMAIN shape : shape[i] = 0
      BY <1>1, <1>6
    <2>2. b.ok /\ b.min = 0 /\ b.max = 0
      BY <2>1 DEF StridedBounds, b
    <2> QED BY <1>2, <1>4, <1>5, <2>2 DEF Within
  <1>7. CASE \A i \in 1..n : shape[i] # 0
    <2> DEFINE D == DefaultStrides(shape, elem)
    <2>1. shape \in [1..n -> Nat \ {0}] /\ strides = D /\ total \in Nat \ {0}
      <3>1. strides # <<>>
        OBVIOUS
      <3>2. DenseView(n, shape, strides, elem)
        BY <1>7, ViewDense
      <3> QED BY <3>1, <3>2 DEF DenseView
    <2>2. /\ D \in [1..n -> Nat \ {0}] /\ Up(shape, D)[n] = bytes - elem
      BY <1>1, <1>3, <2>1, DenseStrides, DenseReach, SMTT(30)
    <2>3. D \in [1..n -> Int]
      BY <2>2
    <2>4. Down(shape, D)[n] = 0
      <3> HIDE DEF D
      <3>1. /\ Down(shape, D)[0] = 0
            /\ \A i \in 1..n : Down(shape, D)[i] = Down(shape, D)[i - 1]
                                 + (IF D[i] < 0 THEN (shape[i] - 1) * D[i] ELSE 0)
        BY <2>1, <2>3, Reached
      <3> DEFINE S == {i \in 0..n : Down(shape, D)[i] = 0}
      <3>2. 0 \in S
        BY <3>1
      <3>3. \A i \in 1..n : i - 1 \in S => i \in S
        <4> SUFFICES ASSUME NEW i \in 1..n, Down(shape, D)[i - 1] = 0 PROVE Down(shape, D)[i] = 0
          OBVIOUS
        <4>1. ~(D[i] < 0)
          BY <2>2
        <4> QED BY <3>1, <4>1
      <3> HIDE DEF S
      <3>4. n \in S
        <4>1. \A i \in 0..n : i \in S
          BY <3>2, <3>3, Climb
        <4> QED BY <4>1
      <3> QED BY <3>4 DEF S
    <2>5. /\ b.min = 0 /\ b.max = elem + (bytes - elem)
          /\ b.ok <=> /\ \A i \in 1..n : D[i] # 0
                      /\ elem + (bytes - elem) <= MaxInt
                      /\ 0 >= -MaxInt - 1
      <3> HIDE DEF D, bytes, total
      <3>1. b = StridedBounds(shape, D, elem) /\ shape \in [1..n -> Nat \ {0}]
        BY <2>1 DEF b
      <3> DEFINE c == StridedBounds(shape, D, elem)
      <3>3. /\ c.min = Down(shape, D)[n] /\ c.max = elem + Up(shape, D)[n]
            /\ c.ok <=> /\ \A i \in 1..n : D[i] # 0
                        /\ elem + Up(shape, D)[n] <= MaxInt
                        /\ Down(shape, D)[n] >= -MaxInt - 1
        BY <2>3, <3>1, BoundsAre
      <3>2. /\ b.min = Down(shape, D)[n] /\ b.max = elem + Up(shape, D)[n]
            /\ b.ok <=> /\ \A i \in 1..n : D[i] # 0
                        /\ elem + Up(shape, D)[n] <= MaxInt
                        /\ Down(shape, D)[n] >= -MaxInt - 1
        BY <3>1, <3>3
      <3> QED BY <2>2, <2>4, <3>2
    <2>6. elem + (bytes - elem) = bytes /\ \A i \in 1..n : D[i] # 0
      BY <1>3, <1>4, <2>2
    <2> HIDE DEF bytes, D
    <2>7. b.ok /\ b.min = 0 /\ b.max = bytes
      BY <1>1, <1>3, <2>5, <2>6
    <2> QED BY <1>2, <1>4, <1>5, <2>7 DEF Within
  <1> QED BY <1>6, <1>7

(* It can be exported, and its elements are its items.                     *)
LEMMA ViewExport ==
  ASSUME NEW n \in Nat \ {0}, NEW items, NEW elem \in 1..MaxInt, NEW shape, NEW strides,
         IsView(n, items, elem, shape, strides),
         NEW buf, buf = ViewOf(items, elem, shape, strides)
  PROVE  /\ ValidMetadata(buf.meta) /\ Exportable(buf)
         /\ Elements(BorrowCArrowArray(buf)) = items
  <1> DEFINE total == ShapeProduct(shape)
             bytes == total * elem
  <1>1. /\ shape \in [1..n -> Nat] /\ total # Failed /\ bytes <= MaxInt
        /\ (strides = <<>> \/ strides = ContiguousStrides(shape, elem))
        /\ Len(items) = total /\ items = [i \in 1..Len(items) |-> items[i]]
    BY DEF IsView
  <1>2. /\ buf.items = items /\ buf.elem = elem /\ buf.meta.shape = shape
        /\ buf.meta.strides = strides /\ buf.meta.offset = 0 /\ buf.meta.nulls = 0
    BY DEF ViewOf
  <1>3. ByteLen(buf) = bytes /\ Len(shape) = n /\ (strides = <<>> => Len(strides) = 0)
        /\ (strides # <<>> => Len(strides) = n)
    <2>1. ViewFacts(n, buf, shape, strides, elem)
      BY ViewIs
    <2>2. elem \in Int /\ shape \in [1..n -> Int]
      BY <1>1
    <2>3. ContiguousStrides(shape, elem) \in [1..n -> Int]
      BY <2>2, ContiguousTyped
    <2> QED BY <1>1, <2>1, <2>3 DEF ViewFacts, LayoutFacts
  <1>4. total \in Nat /\ elem \in Nat \ {0} /\ MaxInt \in Nat /\ bytes \in Nat
    BY <1>1, ViewCount, WidthAssumption
  <1>5. 0 % elem = 0 /\ 0 \div elem = 0
    <2>1. 0 = elem * 0 + 0 /\ 0 \in 0..(elem - 1)
      BY <1>4
    <2> QED BY <1>4, <2>1, DivUnique
  <1>6. DOMAIN shape = 1..n
    BY <1>1
  <1>7. ValidMetadata(buf.meta)
    <2>1. \A i \in DOMAIN shape : shape[i] >= 0
      BY <1>1
    <2> QED BY <1>1, <1>2, <1>3, <2>1 DEF ValidMetadata
  <1>8. ASSUME Len(strides) > 0 PROVE StridesAreContiguous(shape, strides, elem)
    <2>1. strides # <<>> /\ Len(strides) = Len(shape) /\ strides = ContiguousStrides(shape, elem)
      BY <1>1, <1>3, <1>8
    <2>2. CASE \E i \in 1..n : shape[i] = 0
      BY <1>6, <2>1, <2>2 DEF StridesAreContiguous
    <2>3. CASE \A i \in 1..n : shape[i] # 0
      <3>1. DenseView(n, shape, strides, elem)
        BY <2>3, ViewDense
      <3>2. shape \in [1..n -> Nat \ {0}]
        BY <3>1 DEF DenseView
      <3>3. PICK block : Blocks(n, shape, block)
        BY <3>1 DEF DenseView
      <3>4. ShapeProduct(Tail(shape)) = block[1]
        BY <3>2, <3>3, TailCounted
      <3>5. block[1] \in Nat /\ block[1] <= total
        <4>1. block \in [0..n -> Nat \ {0}] /\ block[0] = total /\ 1 \in 0..n
          BY <3>3 DEF Blocks
        <4>2. \A i \in 0..n : block[i] <= block[0]
          BY <3>2, <3>3, BlocksFall
        <4> QED BY <4>1, <4>2
      <3> DEFINE b == block[1]
      <3> HIDE DEF b, total
      <3>6. b * elem <= total * elem /\ b * elem \in Int /\ b \in Int
        <4>1. b \in Int /\ total \in Int /\ b <= total /\ elem \in Nat
          BY <1>4, <3>5 DEF b
        <4> QED BY <4>1, TimesMono, TimesInt
      <3>7. b * elem <= MaxInt
        BY <1>1, <1>4, <3>6
      <3>8. b <= MaxInt \div elem
        <4>1. MaxInt \in Int
          BY <1>4
        <4> QED BY <1>4, <3>6, <3>7, <4>1, DivAtMost
      <3> QED BY <2>1, <3>4, <3>8 DEF StridesAreContiguous, b
    <2> QED BY <2>2, <2>3
  <1> HIDE DEF bytes
  <1>9. IsPrimitiveView(buf)
    <2>1. bytes <= ByteLen(buf) - 0 /\ 0 <= ByteLen(buf) /\ 0 >= 0
      BY <1>3, <1>4
    <2> QED BY <1>1, <1>2, <1>3, <1>5, <1>8, <2>1 DEF IsPrimitiveView, bytes
  <1>10. Exportable(buf)
    BY <1>2, <1>9 DEF Exportable
  <1> DEFINE array == BorrowCArrowArray(buf)
  <1>11. array.items = items /\ array.length = total /\ array.offset = 0 /\ array.nulls = 0
    <2>1. PrimitiveLength(buf) = total
      BY <1>2, <1>3 DEF PrimitiveLength
    <2> QED BY <1>2, <1>5, <2>1 DEF BorrowCArrowArray
  <1> HIDE DEF array
  <1>12. Elements(array) = items
    <2>1. Elements(array) = [i \in 1..total |-> IF 0 > 0 /\ 0 + i - 1 \notin array.valid
                                                THEN Null ELSE items[0 + i]]
      BY <1>11 DEF Elements
    <2>2. \A i \in 1..total : (IF 0 > 0 /\ 0 + i - 1 \notin array.valid
                               THEN Null ELSE items[0 + i]) = items[i]
      BY <1>4
    <2>3. Elements(array) = [i \in 1..total |-> items[i]]
      BY <2>1, <2>2
    <2> QED BY <1>1, <2>3
  <1> QED BY <1>7, <1>10, <1>12 DEF array

(* If its rows are the values in a value, it reads as that value.          *)
ReadsWhole(buf, value) ==
  /\ Iter(buf, TableOf(buf)) = Value(value)
  /\ \A i \in DOMAIN value : Index(buf, TableOf(buf), i - 1) = Value(value[i])
  /\ Index(buf, TableOf(buf), Len(value)) = Missing

LEMMA ViewReads ==
  ASSUME NEW n \in Nat \ {0}, NEW items, NEW elem \in 1..MaxInt, NEW shape, NEW strides,
         IsView(n, items, elem, shape, strides),
         NEW buf, buf = ViewOf(items, elem, shape, strides),
         NEW value, value = [i \in 1..Len(value) |-> value[i]], Len(value) = shape[1],
         RowsOf(buf, LogicalLayout(buf, TableOf(buf)), 0, value, 0)
  PROVE  ReadsWhole(buf, value)
  <1> DEFINE ref == TableOf(buf)
             layout == LogicalLayout(buf, ref)
  <1> HIDE DEF ref
  <1>1. Accepted(buf, ref)
    BY ViewAccepted DEF ref
  <1>2. shape \in [1..n -> Nat] /\ Len(value) \in Nat /\ 1 \in 1..n
    BY DEF IsView
  <1>3. /\ layout.shape = shape /\ layout.offset = 0 /\ layout.length = shape[1]
        /\ layout.strides \in [1..n -> Int] /\ Len(shape) = n /\ buf.meta.nulls = 0
    <2>1. ViewFacts(n, buf, shape, strides, elem)
      BY ViewIs
    <2> QED BY <2>1 DEF ViewFacts, LayoutFacts, ref
  <1>4. RowsOf(buf, layout, 0, value, 0)
    BY DEF ref
  <1>5. layout = LogicalLayout(buf, ref)
    OBVIOUS
  <1> HIDE DEF layout
  <1>6. layout.shape \in [1..n -> Int] /\ layout.offset \in Int
    BY <1>2, <1>3
  <1>7. SliceAt(buf, layout)[0][0] = Value(value)
    <2>1. 0 \in 0..(n - 1) /\ 0 \in Int /\ Len(layout.shape) = n /\ n \in Nat
          /\ Len(value) = layout.shape[0 + 1]
      BY <1>3
    <2>2. ReadsAs(buf, layout, 0, value, 0)
      BY <1>4, <2>1, RowsRead
    <2> QED BY <2>2 DEF ReadsAs
  <1>8. Iter(buf, ref) = Value(value)
    <2>1. SliceAt(buf, layout)[0][layout.offset].kind = "value"
      BY <1>3, <1>7, ValueIs
    <2>2. layout.length = layout.shape[1]
      BY <1>3
    <2>3. IteratesAll(buf, ref, layout)
      BY <1>1, <1>3, <1>5, <1>6, <2>1, <2>2, IterIs
    <2> QED BY <1>3, <1>7, <2>3 DEF IteratesAll
  <1>9. ASSUME NEW i \in 1..Len(value) PROVE Index(buf, ref, i - 1) = Value(value[i])
    <2>1. i - 1 \in Int /\ ~(i - 1 < 0) /\ ~(i - 1 >= layout.length)
      BY <1>2, <1>3
    <2>2. Index(buf, ref, i - 1) = Element(buf, layout, i - 1)
      BY <1>1, <1>5, <2>1 DEF Index
    <2>3. Reaches(buf, layout, i - 1)
      BY <1>3, <1>6, <2>1, ElementIs
    <2>4. Element(buf, layout, i - 1)
            = SliceAt(buf, layout)[1][Wrap(0 + (i - 1) * layout.strides[1])]
      BY <1>3, <2>3 DEF Reaches
    <2>5. SliceAt(buf, layout)[0 + 1][Wrap(0 + (i - 1) * layout.strides[0 + 1])] = Value(value[i])
      BY <1>4 DEF RowsOf
    <2>6. 0 + 1 = 1
      OBVIOUS
    <2> QED BY <2>2, <2>4, <2>5, <2>6
  <1>10. Index(buf, ref, Len(value)) = Missing
    <2>1. Len(value) >= layout.length
      BY <1>2, <1>3
    <2> QED BY <1>1, <1>5, <2>1 DEF Index
  <1>11. DOMAIN value = 1..Len(value)
    OBVIOUS
  <1> QED BY <1>8, <1>9, <1>10, <1>11 DEF ReadsWhole, ref

----------------------------------------------------------------------------
(* Captures                                                                *)

(* A value that is captured has as many dimensions as levels, or fewer if  *)
(* one of them is 0.                                                       *)
Seen(kinds, r, shape, value) ==
  /\ shape \in Seq(Nat) /\ Len(shape) = r /\ r >= 1 /\ r <= Len(kinds)
  /\ Even(kinds, shape, 0, value)

LEMMA SeenIs ==
  ASSUME NEW n \in Nat \ {0}, NEW kinds \in Seq(Nat \cup {Slice}), Len(kinds) = n,
         NEW value \in Nested(kinds)[0], ShapeDims(kinds)[0][value] # Failed
  PROVE  Seen(kinds, Len(ShapeDims(kinds)[0][value].dims), ShapeDims(kinds)[0][value].dims, value)
  <1> DEFINE shape == ShapeDims(kinds)[0][value].dims
  <1>1. ShapeBehind(n, 0, ShapeDims(kinds)[0][value])
    <2>1. 0 \in 0..n
      OBVIOUS
    <2> QED BY <2>1, ShapesBehind
  <1>2. shape \in Seq(Nat) /\ Len(shape) <= n /\ Len(shape) >= 1
    BY <1>1 DEF ShapeBehind, Shape
  <1>3. Even(kinds, shape, 0, value)
    <2>1. Behind(shape, 0) = shape
      <3> HIDE DEF shape
      <3>1. 0 \in 0..Len(shape) /\ Len(shape) \in Nat /\ shape \in Seq(Nat \cup {Slice})
        <4>1. \A i \in 1..Len(shape) : shape[i] \in Nat \cup {Slice}
          BY <1>2
        <4>2. shape \in Seq(Nat \cup {Slice})
          BY <1>2, <4>1, MadeOf
        <4> QED BY <1>2, <4>2
      <3>2. /\ Behind(shape, 0) \in Seq(Nat \cup {Slice}) /\ Len(Behind(shape, 0)) = Len(shape) - 0
            /\ \A i \in 1..(Len(shape) - 0) : Behind(shape, 0)[i] = shape[0 + i]
        BY <3>1, BehindIs
      <3>3. Len(Behind(shape, 0)) = Len(shape)
        BY <3>1, <3>2
      <3>4. \A i \in 1..Len(shape) : Behind(shape, 0)[i] = shape[i]
        BY <3>1, <3>2, SMTT(30)
      <3> QED BY <3>1, <3>2, <3>3, <3>4, SeqEqual
    <2> QED BY <2>1 DEF Even
  <1> QED BY <1>2, <1>3 DEF Seen, shape

(* What reads a buffer of such a value finds it as it was, if the buffer   *)
(* is empty or holds its scalars.                                          *)
Recovered(kinds, value, view) ==
  /\ ValidMetadata(view.meta) /\ ReadsWhole(view, value) /\ Exportable(view)
  /\ Elements(BorrowCArrowArray(view)) = Scalars(kinds)[0][value]

LEMMA FoundIs ==
  ASSUME NEW n \in Nat \ {0}, NEW kinds \in Seq(Nat \cup {Slice}), Len(kinds) = n,
         NEW r \in 1..n, NEW shape, NEW value, Seen(kinds, r, shape, value),
         NEW items, NEW elem \in 1..MaxInt, NEW strides, IsView(r, items, elem, shape, strides),
         items = Scalars(kinds)[0][value],
         NEW view, view = ViewOf(items, elem, shape, strides),
         RowsOf(view, LogicalLayout(view, TableOf(view)), 0, value, 0)
  PROVE  Recovered(kinds, value, view)
  <1>1. shape \in Seq(Nat) /\ Len(shape) = r /\ Even(kinds, shape, 0, value) /\ r \in Nat /\ r \in Nat \ {0}
    BY DEF Seen
  <1>2. value = [i \in 1..Len(value) |-> value[i]] /\ Len(value) = shape[1]
    <2>1. EvenRows(kinds, shape, 0, value)
      <3>1. 0 \in 0..(n - 1) /\ 0 < r /\ n \in Nat
        OBVIOUS
      <3> QED BY <1>1, <3>1, EvenIs
    <2>2. value \in Seq(Nested(kinds)[0 + 1]) /\ Len(value) = shape[0 + 1]
      BY <2>1 DEF EvenRows
    <2>3. 0 + 1 = 1
      OBVIOUS
    <2>4. value = [i \in 1..Len(value) |-> value[i]]
      BY <2>2
    <2> QED BY <2>2, <2>3, <2>4
  <1>3. ReadsWhole(view, value)
    BY <1>1, <1>2, ViewReads
  <1>4. /\ ValidMetadata(view.meta) /\ Exportable(view)
        /\ Elements(BorrowCArrowArray(view)) = items
    BY <1>1, ViewExport
  <1> QED BY <1>3, <1>4 DEF Recovered

LEMMA HollowFound ==
  ASSUME NEW n \in Nat \ {0}, NEW kinds \in Seq(Nat \cup {Slice}), Len(kinds) = n,
         NEW r \in 1..n, NEW shape, NEW value, Seen(kinds, r, shape, value),
         ShapeProduct(shape) # Failed, NEW z \in 1..r, shape[z] = 0,
         NEW elem \in 1..MaxInt, NEW strides,
         strides = <<>> \/ strides = ContiguousStrides(shape, elem),
         NEW view, view = ViewOf(<<>>, elem, shape, strides)
  PROVE  Recovered(kinds, value, view)
  <1> DEFINE items == <<>>
             layout == LogicalLayout(view, TableOf(view))
  <1>1. shape \in Seq(Nat) /\ Len(shape) = r /\ Even(kinds, shape, 0, value) /\ r \in Nat \ {0}
        /\ n \in Nat /\ r \in 0..n
    BY DEF Seen
  <1>2. IsView(r, items, elem, shape, strides)
    <2>1. shape \in [1..r -> Nat]
      BY <1>1
    <2>2. ShapeProduct(shape) = 0
      BY <1>1, <2>1, ViewCount
    <2>3. 0 * elem <= MaxInt
      BY WidthAssumption
    <2>4. Len(items) = 0 /\ items = [i \in 1..Len(items) |-> items[i]]
      OBVIOUS
    <2> HIDE DEF items
    <2> QED BY <2>1, <2>2, <2>3, <2>4 DEF IsView
  <1>3. view = ViewOf(items, elem, shape, strides)
    OBVIOUS
  <1> HIDE DEF items
  <1>4. layout.shape = shape /\ layout.strides \in [1..r -> Int]
    <2>1. ViewFacts(r, view, shape, strides, elem)
      BY <1>1, <1>2, <1>3, ViewIs
    <2> QED BY <2>1 DEF ViewFacts, LayoutFacts
  <1> HIDE DEF layout
  <1>5. Hollow(kinds, view, layout, 0, value)
    BY <1>1, <1>4, HollowRead
  <1>6. RowsOf(view, layout, 0, value, 0) /\ Scalars(kinds)[0][value] = <<>>
    <2>1. /\ Scalars(kinds)[0][value] \in Seq(Numbers) /\ Len(Scalars(kinds)[0][value]) = 0
          /\ \A base \in Int : RowsOf(view, layout, 0, value, base)
      BY <1>5 DEF Hollow
    <2> QED BY <2>1
  <1>7. items = Scalars(kinds)[0][value]
    BY <1>6 DEF items
  <1>8. RowsOf(view, LogicalLayout(view, TableOf(view)), 0, value, 0)
    BY <1>6 DEF layout
  <1> QED BY <1>2, <1>3, <1>7, <1>8, FoundIs

LEMMA DenseCount ==
  ASSUME NEW n \in Nat \ {0}, NEW kinds \in Seq(Nat \cup {Slice}), Len(kinds) = n,
         NEW shape, NEW value, Seen(kinds, n, shape, value),
         ShapeProduct(shape) # Failed, \A i \in 1..n : shape[i] # 0
  PROVE  /\ Scalars(kinds)[0][value] \in Seq(Numbers)
         /\ Len(Scalars(kinds)[0][value]) = ShapeProduct(shape)
  <1>1. shape \in Seq(Nat) /\ Len(shape) = n /\ Even(kinds, shape, 0, value) /\ n \in Nat /\ 0 \in 0..n
    BY DEF Seen
  <1>2. shape \in [1..n -> Nat \ {0}]
    BY <1>1
  <1>3. PICK block : Blocks(n, shape, block)
    BY <1>2, BlocksAre
  <1>4. Dense(n, kinds, shape, block, 0, value)
    <2>1. Factored(n, shape, block)
      BY <1>3 DEF Blocks, Factored
    <2> QED BY <1>1, <2>1, DenseIs
  <1> QED BY <1>3, <1>4 DEF Dense, Blocks

LEMMA DenseFound ==
  ASSUME NEW n \in Nat \ {0}, NEW kinds \in Seq(Nat \cup {Slice}), Len(kinds) = n,
         NEW shape, NEW value, Seen(kinds, n, shape, value),
         ShapeProduct(shape) # Failed, \A i \in 1..n : shape[i] # 0,
         NEW elem \in 1..MaxInt, NEW strides,
         strides = <<>> \/ strides = ContiguousStrides(shape, elem),
         NEW items, items = Scalars(kinds)[0][value], Len(items) * elem <= MaxInt,
         NEW view, view = ViewOf(items, elem, shape, strides)
  PROVE  Recovered(kinds, value, view)
  <1> DEFINE layout == LogicalLayout(view, TableOf(view))
  <1>1. shape \in Seq(Nat) /\ Len(shape) = n /\ Even(kinds, shape, 0, value) /\ n \in Nat /\ n \in 1..n
        /\ 0 \in 0..n /\ 0 \in 0..(n - 1)
    BY DEF Seen
  <1>2. shape \in [1..n -> Nat \ {0}]
    BY <1>1, SMTT(30)
  <1>3. items \in Seq(Numbers) /\ Len(items) = ShapeProduct(shape)
    BY DenseCount
  <1>4. IsView(n, items, elem, shape, strides)
    <2>1. shape \in [1..n -> Nat] /\ items = [i \in 1..Len(items) |-> items[i]]
      BY <1>2, <1>3
    <2>2. ShapeProduct(shape) * elem <= MaxInt
      BY <1>3
    <2> QED BY <1>3, <2>1, <2>2 DEF IsView
  <1>5. PICK block : /\ Blocks(n, shape, block)
                     /\ \A d \in 1..n : DefaultStrides(shape, elem)[d] = block[d] * elem
    <2>1. DenseView(n, shape, strides, elem)
      BY <1>4, ViewDense
    <2> QED BY <2>1 DEF DenseView
  <1>6. StridesOf(shape, strides, elem) = DefaultStrides(shape, elem)
    <2>1. DenseView(n, shape, strides, elem)
      BY <1>4, ViewDense
    <2> QED BY <2>1 DEF DenseView
  <1>7. layout.shape = shape /\ layout.strides = DefaultStrides(shape, elem)
    <2>1. ViewFacts(n, view, shape, strides, elem)
      BY <1>4, ViewIs
    <2> QED BY <1>6, <2>1 DEF ViewFacts, LayoutFacts
  <1>8. view.items = items /\ view.elem = elem
    BY DEF ViewOf
  <1>9. block[0] = ShapeProduct(shape) /\ block[0] \in Nat
    BY <1>5 DEF Blocks
  <1> HIDE DEF layout
  <1>10. DenseLayout(n, shape, block, elem, view, layout)
    BY <1>3, <1>5, <1>7, <1>8, <1>9 DEF DenseLayout
  <1>11. elem \in Nat \ {0} /\ 0 \in Nat /\ 0 + 1 = 1 /\ 0 * elem = 0 /\ 0 + block[0] <= block[0]
    BY <1>9
  <1>12. \A w : Even(kinds, shape, 0 + 1, w) => Legible(kinds, view, layout, block, 0 + 1, w)
    <2>1. 0 + 1 \in 0..n
      OBVIOUS
    <2>2. \A d \in 0..n : \A v : Even(kinds, shape, d, v) => Legible(kinds, view, layout, block, d, v)
      BY <1>1, <1>5, <1>10, <1>11, DenseRead
    <2> QED BY <2>1, <2>2
  <1>13. Lies(view, 0, Scalars(kinds)[0][value])
    BY <1>8 DEF Lies
  <1>14. RowsOf(view, layout, 0, value, 0 * elem)
    BY <1>1, <1>5, <1>10, <1>11, <1>12, <1>13, DenseRows
  <1>15. RowsOf(view, LogicalLayout(view, TableOf(view)), 0, value, 0)
    BY <1>11, <1>14 DEF layout
  <1> QED BY <1>1, <1>4, <1>15, FoundIs

LEMMA CaptureFound ==
  ASSUME NEW n \in Nat \ {0}, NEW kinds \in Seq(Nat \cup {Slice}), Len(kinds) = n,
         NEW value \in Nested(kinds)[0], NEW elem \in 1..MaxInt, NEW byPointer \in BOOLEAN,
         Len(Scalars(kinds)[0][value]) * elem <= MaxInt, Captured(kinds, value)
  PROVE  ReadsBack(kinds, value, CaptureView(kinds, value, elem, byPointer))
  <1> DEFINE seen == ShapeDims(kinds)[0][value]
             shape == seen.dims
             r == Len(shape)
             scalars == Scalars(kinds)[0][value]
             total == ShapeProduct(shape)
             fixed == kinds = <<Slice>> /\ ~byPointer
             strides == IF fixed THEN <<>> ELSE ContiguousStrides(shape, elem)
             pointed == seen.contiguous /\ (byPointer \/ Slice \in ToSet(kinds))
             items == IF total = 0 THEN <<>>
                      ELSE IF pointed THEN Pointed(kinds, value, total) ELSE scalars
             view == CaptureView(kinds, value, elem, byPointer)
  <1>1. seen # Failed /\ total # Failed
    BY DEF Captured
  <1>2. view = ViewOf(items, elem, shape, strides)
    BY DEF CaptureView, ViewOf
  <1>3. Seen(kinds, r, shape, value)
    BY <1>1, SeenIs
  <1>4. strides = <<>> \/ strides = ContiguousStrides(shape, elem)
    OBVIOUS
  <1> HIDE DEF strides, fixed, view, seen
  <1>5. shape \in Seq(Nat) /\ r \in 1..n /\ Even(kinds, shape, 0, value) /\ shape \in [1..r -> Nat]
        /\ r \in Nat \ {0} /\ r \in 0..n /\ n \in Nat
    BY <1>3 DEF Seen
  <1> HIDE DEF shape, r, total
  <1>6. Len(shape) = r
    BY DEF r
  <1>7. ASSUME \E i \in 1..r : shape[i] = 0 PROVE Recovered(kinds, value, view)
    <2>1. PICK z \in 1..r : shape[z] = 0
      BY <1>7
    <2>2. total = 0
      BY <1>1, <1>5, <1>7, ViewCount DEF total
    <2>3. view = ViewOf(<<>>, elem, shape, strides)
      BY <1>2, <2>2
    <2>4. ShapeProduct(shape) # Failed
      BY <1>1 DEF total
    <2> HIDE DEF items, pointed, scalars
    <2> QED BY <1>3, <1>4, <1>5, <2>1, <2>3, <2>4, HollowFound
  <1>8. ASSUME \A i \in 1..r : shape[i] # 0 PROVE Recovered(kinds, value, view)
    <2>1. r = n /\ (seen.contiguous => \A i \in 2..n : kinds[i] # Slice)
      <3>1. /\ r = n
            /\ ShapeDims(kinds)[0][value].contiguous => \A i \in 2..n : kinds[i] # Slice
        <4>1. shape \in Seq(Nat)
          BY <1>5
        <4>2. r \in 0..n
          BY <1>5
        <4>3. n \in Nat
          BY <1>5
        <4>4. Even(kinds, shape, 0, value)
          BY <1>5
        <4> HIDE DEF items, pointed, scalars
        <4> QED BY <1>6, <1>8, <4>1, <4>2, <4>3, <4>4, DeepIs, ZenonT(40)
      <3> QED BY <3>1 DEF seen
    <2>2. scalars \in Seq(Numbers) /\ Len(scalars) = total
      BY <1>1, <1>3, <1>8, <2>1, DenseCount DEF total
    <2>3. total # 0
      BY <1>1, <1>5, <1>8, ViewCount DEF total
    <2>4. pointed => Pointed(kinds, value, total) = scalars
      <3> SUFFICES ASSUME pointed PROVE Pointed(kinds, value, total) = scalars
        OBVIOUS
      <3>1. \A i \in 2..n : kinds[i] # Slice
        BY <2>1
      <3>2. Pointed(kinds, value, Len(scalars)) = scalars
        BY <1>5, <2>2, <3>1, PointedIs
      <3> QED BY <2>2, <3>2
    <2>5. items = scalars
      BY <2>3, <2>4
    <2> HIDE DEF items
    <2>6. view = ViewOf(items, elem, shape, strides) /\ items = Scalars(kinds)[0][value]
          /\ Len(items) * elem <= MaxInt /\ Seen(kinds, n, shape, value)
          /\ ShapeProduct(shape) # Failed /\ \A i \in 1..n : shape[i] # 0
      BY <1>1, <1>2, <1>3, <1>8, <2>1, <2>5 DEF total
    <2> HIDE DEF pointed, scalars
    <2> QED BY <1>4, <2>6, DenseFound
  <1>9. Recovered(kinds, value, view)
    BY <1>7, <1>8
  <1> QED BY <1>9 DEF Recovered, ReadsWhole, ReadsBack, view

(* Values of a length that is given have one shape.                        *)
SameShape(kinds, d) ==
  \E dims : \A v \in Values(kinds)[d] :
    ShapeDims(kinds)[d][v] # Failed /\ ShapeDims(kinds)[d][v].dims = dims

LEMMA RegularFound ==
  ASSUME NEW n \in Nat \ {0}, NEW kinds \in Seq(Nat \cup {Slice}), Len(kinds) = n,
         NEW d \in 0..(n - 1), SameShape(kinds, d + 1), NEW v \in Values(kinds)[d]
  PROVE  /\ ShapeDims(kinds)[d][v] # Failed
         /\ v \in Seq(Nested(kinds)[d + 1]) /\ Regular(v, ShapeDims(kinds)[d + 1])
         /\ kinds[d + 1] # Slice => Len(v) = kinds[d + 1]
  <1> DEFINE inner == ShapeDims(kinds)[d + 1]
             own == ShapeDims(kinds)[d][v]
             Y == Nested(kinds)[d + 1]
             rest == Behind(kinds, d + 1)
  <1>1. v \in Nested(kinds)[d] /\ d + 1 \in 0..n /\ n \in Nat
    BY ValuesNested
  <1>2. v \in Seq(Y) /\ own = DimsOf(v, rest, inner)
    <2>1. n \in Nat
      BY <1>1
    <2>2. \A c \in 0..(n - 1) : \A w \in Nested(kinds)[c] :
            ShapeDims(kinds)[c][w] = DimsOf(w, Behind(kinds, c + 1), ShapeDims(kinds)[c + 1])
      BY <2>1, NestedShape
    <2>3. Nested(kinds)[d] = Seq(Nested(kinds)[d + 1])
      BY <2>1, NestedIs
    <2>4. v \in Nested(kinds)[d]
      BY <1>1
    <2> QED BY <2>2, <2>3, <2>4
  <1>3. PICK length \in IF kinds[d + 1] = Slice THEN SliceLengths ELSE {kinds[d + 1]} :
          v \in [1..length -> Values(kinds)[d + 1]]
    <2>1. v \in NextValues(kinds, d, Values(kinds)[d + 1])
      BY <1>1, ValuesAre
    <2> QED BY <2>1 DEF NextValues
  <1>4. length \in Nat
    <2>1. kinds[d + 1] \in Nat \cup {Slice}
      OBVIOUS
    <2> QED BY <1>3, <2>1, CaptureAssumption
  <1>5. Len(v) = length /\ DOMAIN v = 1..length
    <2>1. v = [i \in 1..length |-> v[i]]
      BY <1>3
    <2> QED BY <1>4, <2>1, LenIs
  <1>6. PICK dims : \A w \in Values(kinds)[d + 1] : inner[w] # Failed /\ inner[w].dims = dims
    BY DEF SameShape
  <1>7. \A i \in DOMAIN v : v[i] \in Values(kinds)[d + 1]
    BY <1>3, <1>5
  <1> HIDE DEF inner
  <1>8. Regular(v, inner)
    <2> SUFFICES ASSUME v # <<>>, NEW i \in DOMAIN v
                 PROVE  inner[v[i]] # Failed /\ inner[v[i]].dims = inner[v[1]].dims
      BY DEF Regular
    <2>1. 1 \in DOMAIN v
      BY <1>2, <1>4, <1>5
    <2> QED BY <1>6, <1>7, <2>1
  <1>9. own # Failed
    <2>1. \A w \in Y : inner[w] # Failed => ShapeBehind(n, d + 1, inner[w])
      BY <1>1, ShapesBehind DEF inner
    <2> HIDE DEF own, Y, rest
    <2>2. ShapeBehind(n, d, own)
      <3>1. rest = Behind(kinds, d + 1)
        BY DEF rest
      <3> QED BY <1>1, <1>2, <1>8, <2>1, <3>1, ShapeStep
    <2> QED BY <2>2, CaptureAssumption DEF ShapeBehind, Shape
  <1>10. kinds[d + 1] # Slice => Len(v) = kinds[d + 1]
    BY <1>3, <1>5
  <1> QED BY <1>2, <1>8, <1>9, <1>10 DEF inner

LEMMA FlatFound ==
  ASSUME NEW n \in Nat \ {0}, NEW kinds \in Seq(Nat \cup {Slice}), Len(kinds) = n,
         Slice \notin ToSet(Tail(kinds)), NEW value \in Values(kinds)[0]
  PROVE  ShapeDims(kinds)[0][value] # Failed
  <1>1. \A i \in 2..n : kinds[i] # Slice
    <2> SUFFICES ASSUME NEW i \in 2..n PROVE kinds[i] # Slice
      OBVIOUS
    <2>1. kinds # <<>>
      OBVIOUS
    <2>2. Len(Tail(kinds)) = n - 1 /\ \A k \in 1..(n - 1) : Tail(kinds)[k] = kinds[k + 1]
          /\ Tail(kinds) \in Seq(Nat \cup {Slice})
      BY <2>1
    <2>3. i - 1 \in 1..(n - 1) /\ (i - 1) + 1 = i
      OBVIOUS
    <2>4. i - 1 \in DOMAIN Tail(kinds) /\ Tail(kinds)[i - 1] = kinds[i]
      BY <2>2, <2>3
    <2> QED BY <2>4 DEF ToSet
  <1> DEFINE S == {d \in 0..(n - 1) : SameShape(kinds, d + 1)}
  <1>2. n - 1 \in S
    <2>1. \A v \in Values(kinds)[n] :
            ShapeDims(kinds)[n][v] # Failed /\ ShapeDims(kinds)[n][v].dims = <<>>
      <3> SUFFICES ASSUME NEW v \in Values(kinds)[n]
                   PROVE  ShapeDims(kinds)[n][v] # Failed /\ ShapeDims(kinds)[n][v].dims = <<>>
        OBVIOUS
      <3>1. v \in Nested(kinds)[n] /\ n \in Nat
        BY ValuesNested
      <3>2. ShapeDims(kinds)[n][v] = [dims |-> <<>>, contiguous |-> TRUE]
        BY <3>1, ShapeOfNumber
      <3>3. [dims |-> <<>>, contiguous |-> TRUE] \in Shape
        BY DEF Shape
      <3>4. Failed \notin Shape
        BY CaptureAssumption DEF Shape
      <3>5. ShapeDims(kinds)[n][v] # Failed
        BY <3>2, <3>3, <3>4
      <3> QED BY <3>2, <3>5
    <2>2. SameShape(kinds, n)
      BY <2>1 DEF SameShape
    <2>3. n - 1 \in 0..(n - 1) /\ (n - 1) + 1 = n
      OBVIOUS
    <2> QED BY <2>2, <2>3
  <1>3. ASSUME NEW e \in 0..((n - 1) - 1), e + 1 \in S PROVE e \in S
    <2> DEFINE d == e + 1
               inner == ShapeDims(kinds)[d + 1]
               m == kinds[d + 1]
               rest == Behind(kinds, d + 1)
               tail == IF Slice \in ToSet(rest) THEN <<>> ELSE rest
    <2>1. d \in 0..(n - 1) /\ d \in 1..(n - 1) /\ d + 1 \in 2..n /\ e \in 0..(n - 1) /\ d + 1 \in 1..n
      OBVIOUS
    <2>2. SameShape(kinds, d + 1)
      BY <1>3
    <2> HIDE DEF d
    <2>3. m \in Nat /\ m # Slice
      BY <1>1, <2>1
    <2>4. PICK dims : \A w \in Values(kinds)[d + 1] : inner[w] # Failed /\ inner[w].dims = dims
      BY <2>2 DEF SameShape
    <2> DEFINE all == IF m = 0 THEN <<0>> \o tail ELSE <<m>> \o dims
    <2> HIDE DEF all, tail, rest
    <2>5. ASSUME NEW v \in Values(kinds)[d]
          PROVE  ShapeDims(kinds)[d][v] # Failed /\ ShapeDims(kinds)[d][v].dims = all
      <3>1. /\ ShapeDims(kinds)[d][v] # Failed /\ v \in Seq(Nested(kinds)[d + 1])
            /\ Regular(v, inner) /\ Len(v) = m
        BY <2>1, <2>2, <2>3, RegularFound
      <3>2. v \in Nested(kinds)[d]
        BY <2>1, ValuesNested
      <3>3. ShapeDims(kinds)[d][v] = DimsOf(v, rest, inner)
        <4>1. n \in Nat
          OBVIOUS
        <4>2. \A c \in 0..(n - 1) : \A w \in Nested(kinds)[c] :
                ShapeDims(kinds)[c][w] = DimsOf(w, Behind(kinds, c + 1), ShapeDims(kinds)[c + 1])
          BY <4>1, NestedShape
        <4>3. d \in 0..(n - 1)
          BY <2>1
        <4> HIDE DEF m
        <4> QED BY <3>2, <4>2, <4>3 DEF rest
      <3> HIDE DEF inner, m
      <3>4. CASE m = 0
        <4>1. v = <<>>
          BY <3>1, <3>4
        <4>2. DimsOf(v, rest, inner).dims = <<0>> \o tail
          BY <4>1 DEF DimsOf, tail
        <4> QED BY <3>1, <3>3, <3>4, <4>2 DEF all
      <3>5. CASE m # 0
        <4>1. v # <<>> /\ 1 \in 1..m /\ DOMAIN v = 1..m
          BY <2>3, <3>1, <3>5
        <4>2. v[1] \in Values(kinds)[d + 1]
          <5>1. v \in NextValues(kinds, d, Values(kinds)[d + 1])
            BY <2>1, ValuesAre
          <5>2. PICK length : v \in [1..length -> Values(kinds)[d + 1]]
            BY <5>1 DEF NextValues
          <5>3. 1 \in DOMAIN v
            BY <4>1
          <5> QED BY <5>2, <5>3
        <4>3. inner[v[1]].dims = dims
          BY <2>4, <4>2 DEF inner
        <4>4. DimsOf(v, rest, inner).dims = <<Len(v)>> \o inner[v[1]].dims
          BY <3>1, <4>1 DEF DimsOf, Regular
        <4> QED BY <3>1, <3>3, <3>5, <4>3, <4>4 DEF all
      <3> QED BY <3>4, <3>5
    <2>6. SameShape(kinds, d)
      BY <2>5 DEF SameShape
    <2> QED BY <2>1, <2>6 DEF d
  <1> HIDE DEF S
  <1>4. 0 \in S
    <2>1. n - 1 \in Nat
      OBVIOUS
    <2>2. \A d \in 0..(n - 1) : d \in S
      BY <1>2, <1>3, <2>1, Descend
    <2> QED BY <2>2
  <1>5. SameShape(kinds, 0 + 1) /\ 0 \in 0..(n - 1)
    BY <1>4 DEF S
  <1> QED BY <1>5, RegularFound

LEMMA TimesSome == ASSUME NEW a \in Nat \ {0}, NEW b \in Nat \ {0} PROVE a * b \in Nat \ {0}
  OBVIOUS

LEMMA FactorsAre ==
  ASSUME NEW n \in Nat, NEW shape \in [1..n -> Nat \ {0}]
  PROVE  \E block : Factored(n, shape, block)
  <1> DEFINE From(d, b) == /\ b \in [d..n -> Nat \ {0}] /\ b[n] = 1
                           /\ \A i \in d..(n - 1) : b[i] = shape[i + 1] * b[i + 1]
             S == {d \in 0..n : \E b : From(d, b)}
  <1>1. n \in S
    <2> DEFINE b == [i \in n..n |-> 1]
    <2>1. From(n, b)
      OBVIOUS
    <2> HIDE DEF From, b
    <2>2. \E c : From(n, c)
      BY <2>1
    <2> QED BY <2>2
  <1>2. ASSUME NEW d \in 0..(n - 1), d + 1 \in S PROVE d \in S
    <2>1. PICK b : From(d + 1, b)
      BY <1>2
    <2> DEFINE p == shape[d + 1] * b[d + 1]
               c == [i \in d..n |-> IF i = d THEN p ELSE b[i]]
    <2>2. shape[d + 1] \in Nat \ {0} /\ b[d + 1] \in Nat \ {0}
      BY <2>1
    <2>3. p \in Nat \ {0}
      BY <2>2, TimesSome
    <2> HIDE DEF p
    <2>4. c \in [d..n -> Nat \ {0}] /\ c[n] = 1
      BY <2>1, <2>3
    <2>5. ASSUME NEW i \in d..(n - 1) PROVE c[i] = shape[i + 1] * c[i + 1]
      <3>1. c[i + 1] = b[i + 1]
        OBVIOUS
      <3>2. CASE i = d
        BY <3>1, <3>2 DEF p
      <3>3. CASE i # d
        <4>1. i \in (d + 1)..(n - 1) /\ c[i] = b[i]
          BY <3>3
        <4>2. b[i] = shape[i + 1] * b[i + 1]
          BY <2>1, <4>1
        <4> HIDE DEF c
        <4> QED BY <3>1, <4>1, <4>2
      <3> QED BY <3>2, <3>3
    <2> HIDE DEF c
    <2>6. From(d, c)
      BY <2>4, <2>5
    <2> HIDE DEF From
    <2>7. \E e : From(d, e)
      BY <2>6
    <2> QED BY <2>7
  <1> HIDE DEF S
  <1>3. 0 \in S
    <2>1. \A d \in 0..n : d \in S
      BY <1>1, <1>2, Descend
    <2> QED BY <2>1
  <1>4. PICK b : From(0, b)
    BY <1>3 DEF S
  <1>5. Factored(n, shape, b)
    BY <1>4 DEF Factored
  <1> QED BY <1>5

(* Elements that are no more than an int64 holds are counted.              *)
LEMMA FactorsCount ==
  ASSUME NEW n \in Nat \ {0}, NEW shape \in [1..n -> Nat \ {0}],
         NEW block, Factored(n, shape, block), block[0] <= MaxInt
  PROVE  ShapeProduct(shape) \in Nat /\ ShapeProduct(shape) # Failed
  <1> DEFINE P == Products(shape)
             all == block[0]
             S == {i \in 0..n : P[i] \in Nat \ {0} /\ P[i] * block[i] = all}
  <1>1. /\ block \in [0..n -> Nat \ {0}] /\ block[n] = 1
        /\ \A d \in 0..(n - 1) : block[d] = shape[d + 1] * block[d + 1]
    BY DEF Factored
  <1>2. Len(shape) = n /\ P[0] = 1 /\ \A i \in 1..n : P[i] = Times(P[i - 1], shape[i])
    <2>1. shape \in [1..n -> Int] /\ n \in Nat
      OBVIOUS
    <2> QED BY <2>1, ProductsAre
  <1>3. all \in Nat \ {0} /\ all <= MaxInt /\ MaxInt \in Nat /\ Failed \notin Int
    BY <1>1, WidthAssumption, LayoutAssumption
  <1> HIDE DEF P, all
  <1>4. 0 \in S
    BY <1>1, <1>2, <1>3 DEF all
  <1>5. ASSUME NEW i \in 1..n, i - 1 \in S PROVE i \in S
    <2> DEFINE p == P[i - 1]
               dim == shape[i]
               b == block[i]
    <2>1. dim \in Nat \ {0} /\ b \in Nat \ {0} /\ p \in Nat \ {0}
      BY <1>1, <1>5
    <2>2. p * (dim * b) = all
      <3>1. i - 1 \in 0..(n - 1) /\ (i - 1) + 1 = i
        OBVIOUS
      <3>2. block[i - 1] = dim * b
        BY <1>1, <3>1
      <3> QED BY <1>5, <3>2
    <2>3. P[i] = Times(p, dim)
      BY <1>2
    <2> HIDE DEF p, dim, b
    <2>4. p * dim \in Nat \ {0}
      BY <2>1, TimesSome
    <2>5. (p * dim) * b = all
      BY <2>1, <2>2
    <2>6. p * dim <= MaxInt
      <3> DEFINE q == p * dim
      <3>1. q \in Nat /\ q * b = all
        BY <2>4, <2>5
      <3> HIDE DEF q
      <3>2. q * 1 <= q * b
        BY <2>1, <3>1, TimesMono
      <3> QED BY <1>3, <3>1, <3>2 DEF q
    <2>7. p <= MaxInt \div dim
      <3>1. MaxInt \in Int /\ p \in Int
        BY <1>3, <2>1
      <3> QED BY <2>1, <2>6, <3>1, DivAtMost
    <2>8. MaxInt \div dim \in Int
      BY <1>3, <2>1, DivMod
    <2>9. Times(p, dim) = p * dim
      <3>1. p \notin {Failed, 0} /\ ~(dim < 0) /\ dim # 0 /\ ~(p > MaxInt \div dim)
        BY <1>3, <2>1, <2>7, <2>8
      <3> QED BY <3>1 DEF Times
    <2> QED BY <2>3, <2>4, <2>5, <2>9 DEF b
  <1> HIDE DEF S
  <1>6. n \in S
    <2>1. \A i \in 0..n : i \in S
      BY <1>4, <1>5, Climb
    <2> QED BY <2>1
  <1>7. P[n] \in Nat
    BY <1>6 DEF S
  <1> QED BY <1>2, <1>3, <1>7 DEF ShapeProduct, P

(* A value with a shape and with scalars is captured.                      *)
LEMMA CaptureCounted ==
  ASSUME NEW n \in Nat \ {0}, NEW kinds \in Seq(Nat \cup {Slice}), Len(kinds) = n,
         NEW value \in Nested(kinds)[0], NEW elem \in 1..MaxInt,
         Len(Scalars(kinds)[0][value]) * elem <= MaxInt,
         ShapeDims(kinds)[0][value] # Failed, Scalars(kinds)[0][value] # <<>>
  PROVE  Captured(kinds, value)
  <1> DEFINE shape == ShapeDims(kinds)[0][value].dims
             r == Len(shape)
             s == Scalars(kinds)[0][value]
  <1>1. Seen(kinds, r, shape, value)
    BY SeenIs
  <1> HIDE DEF shape, r
  <1>2. shape \in Seq(Nat)
    BY <1>1 DEF Seen
  <1>3. Even(kinds, shape, 0, value)
    BY <1>1 DEF Seen
  <1>4. Len(shape) = r /\ r \in Nat
    BY <1>2 DEF r
  <1>5. r \in 0..n /\ r \in 1..n
    BY <1>1, <1>4 DEF Seen
  <1>6. n \in Nat
    OBVIOUS
  <1> HIDE DEF s
  <1>7. \A i \in 1..r : shape[i] # 0
    <2> SUFFICES ASSUME NEW z \in 1..r, shape[z] = 0 PROVE FALSE
      OBVIOUS
    <2> DEFINE layout == [shape |-> shape, strides |-> [i \in 1..r |-> 0]]
    <2>1. layout.shape = shape /\ layout.strides \in [1..r -> Int]
      OBVIOUS
    <2> HIDE DEF layout
    <2>2. Hollow(kinds, 0, layout, 0, value)
      BY <1>2, <1>3, <1>4, <1>5, <1>6, <2>1, HollowRead
    <2>3. s \in Seq(Numbers) /\ Len(s) = 0
      BY <2>2 DEF Hollow, s
    <2>4. s = <<>>
      BY <2>3
    <2> QED BY <2>4 DEF s
  <1>8. r = n
    BY <1>2, <1>3, <1>4, <1>5, <1>6, <1>7, DeepIs
  <1>9. shape \in [1..n -> Nat \ {0}] /\ Len(shape) = n
    BY <1>2, <1>4, <1>7, <1>8
  <1>10. PICK block : Factored(n, shape, block)
    BY <1>6, <1>9, FactorsAre
  <1>11. Dense(n, kinds, shape, block, 0, value)
    <2>1. 0 \in 0..n
      BY <1>6
    <2>2. \A d \in 0..n : \A v : Even(kinds, shape, d, v) => Dense(n, kinds, shape, block, d, v)
      BY <1>2, <1>6, <1>9, <1>10, DenseIs
    <2> QED BY <1>3, <2>1, <2>2
  <1>12. Len(s) = block[0] /\ block[0] \in Nat
    BY <1>10, <1>11 DEF Dense, Factored, s
  <1>13. block[0] <= MaxInt
    <2> DEFINE l == Len(s)
    <2>1. l \in Nat /\ l * elem <= MaxInt /\ elem \in Int /\ MaxInt \in Int
      BY <1>12, WidthAssumption DEF s
    <2> HIDE DEF l
    <2>2. l * 1 <= l * elem /\ l * 1 = l /\ l * elem \in Int
      BY <2>1, TimesMono, TimesInt
    <2> QED BY <1>12, <2>1, <2>2 DEF l
  <1>14. ShapeProduct(shape) # Failed
    BY <1>9, <1>10, <1>13, FactorsCount
  <1> QED BY <1>14 DEF Captured, shape

(* The property of the captures, whatever the types, the lengths of their  *)
(* slices, the scalars and their widths.                                   *)
THEOREM FaithfulCaptures == CapturesReadBack
  <1> SUFFICES ASSUME NEW kinds \in Types, NEW value \in Values(kinds)[0], NEW elem \in Widths,
                      NEW byPointer \in BOOLEAN, Len(Scalars(kinds)[0][value]) * elem <= MaxInt
               PROVE  /\ Slice \notin ToSet(Tail(kinds)) => ShapeDims(kinds)[0][value] # Failed
                      /\ ShapeDims(kinds)[0][value] # Failed /\ Scalars(kinds)[0][value] # <<>> =>
                           Captured(kinds, value)
                      /\ Captured(kinds, value) =>
                           ReadsBack(kinds, value, CaptureView(kinds, value, elem, byPointer))
    BY DEF CapturesReadBack
  <1> DEFINE n == Len(kinds)
  <1>1. kinds \in Seq(Nat \cup {Slice}) /\ kinds # <<>> /\ elem \in 1..MaxInt
    BY CaptureAssumption, LayoutAssumption
  <1>2. n \in Nat \ {0}
    BY <1>1
  <1> HIDE DEF n
  <1>3. Len(kinds) = n
    BY DEF n
  <1>4. value \in Nested(kinds)[0]
    <2>1. 0 \in 0..n /\ n \in Nat
      BY <1>2
    <2> QED BY <1>1, <1>3, <2>1, ValuesNested
  <1>5. Slice \notin ToSet(Tail(kinds)) => ShapeDims(kinds)[0][value] # Failed
    BY <1>1, <1>2, <1>3, FlatFound
  <1>6. Captured(kinds, value) =>
          ReadsBack(kinds, value, CaptureView(kinds, value, elem, byPointer))
    BY <1>1, <1>2, <1>3, <1>4, CaptureFound
  <1>7. ShapeDims(kinds)[0][value] # Failed /\ Scalars(kinds)[0][value] # <<>> =>
          Captured(kinds, value)
    BY <1>1, <1>2, <1>3, <1>4, CaptureCounted
  <1> QED BY <1>5, <1>6, <1>7

----------------------------------------------------------------------------
(* The store                                                               *)

(* TablesAreExact: of the tables of the store, exactly those are accepted  *)
(* whose elements lie in the buffer, and each element is read from its own *)
(* place; and the C arrays of the store are read as they were imported and *)
(* exported again.                                                         *)
THEOREM LayoutsStayExact == StoreSpec => []TablesAreExact
  <1>1. TablesAreExact
    BY ExactLayouts, SurvivingArrays DEF TablesAreExact
  <1> QED BY <1>1, PTL

(* CapturesAreRead: nested Go values that are captured, by pointer or as   *)
(* copies, are read from their buffers as they were, and all that have     *)
(* scalars and are not ragged are captured.                                *)
THEOREM CapturesStayRead == StoreSpec => []CapturesAreRead
  <1>1. CapturesAreRead
    BY FaithfulCaptures DEF CapturesAreRead
  <1> QED BY <1>1, PTL
=============================================================================
