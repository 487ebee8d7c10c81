--------------------------- MODULE ProxiesProofs ---------------------------
(***************************************************************************)
(* Proofs about Proxies and ArrowStore.                                    *)
(*                                                                         *)
(* For any guests, values, runtimes, jobs and handles: every reference of  *)
(* a handle is owned, so no proxy loses its handle to another proxy, and a *)
(* value has one handle.                                                   *)
(*                                                                         *)
(* For any names, leases, views, memory regions and capacities: the shared *)
(* store's references, tables, memory and named borrows balance.           *)
(***************************************************************************)
EXTENDS Proxies, ArrowStore, SequenceTheorems, FiniteSetTheorems, TLAPS

----------------------------------------------------------------------------
(* Sequences                                                               *)

(* A sequence without its first element.                                  *)
LEMMA Tailed ==
  ASSUME NEW S, NEW s \in Seq(S), s # << >>, NEW t, t = Tail(s)
  PROVE  /\ t \in Seq(S) /\ Len(t) = Len(s) - 1 /\ Head(s) = s[1] /\ Head(s) \in S
         /\ 1 \in DOMAIN s
         /\ \A j \in DOMAIN t : j + 1 \in DOMAIN s /\ t[j] = s[j + 1] /\ j \in Nat
  OBVIOUS

----------------------------------------------------------------------------
(* The invariant                                                           *)

Of(h) == {p \in open : p.id = h}

(* The references of a handle are owned while it is live, which it is as   *)
(* long as it has proxies; one that was never registered has none, unless  *)
(* a job goes by its number.                                               *)
Owned(h) == fate[h] = "sound" =>
  /\ h \in Live =>
       entries[h].refs = Cardinality(Of(h)) + queue[h] + (IF entries[h].adopted THEN 0 ELSE 1)
  /\ h \notin Live => Of(h) = {}
  /\ h >= nextID => queue[h] = 0

(* A live value is known by its handle.                                    *)
Known == \A h \in Live :
  entries[h].object # None /\ entries[h].object \notin crossed
    => bridged[entries[h].object] = h

Inv == TypeOK /\ IsFiniteSet(open) /\ Known /\ \A h \in Handle : Owned(h)

LEMMA InvInit == ASSUME Init PROVE Inv
  <1>1. Live = {} /\ open = {} /\ \A h : Of(h) = {}
    BY DEF Init, Live, Of
  <1>2. TypeOK
    <2>1. entries \in [Live -> Entry]
      BY <1>1 DEF Init, Live
    <2>2. nextID \in 1..(MaxHandles + 1) /\ Depth <= MaxDepth /\ stack \in Seq(Guests)
      BY ProxiesAssumption DEF Init, Depth
    <2>3. /\ bridged \in [Objects -> Handle \union {None}] /\ queue \in [Handle -> Nat]
          /\ fate \in [Handle -> Fate] /\ crossed \subseteq Objects
      BY DEF Init, Fate
    <2> QED BY <1>1, <2>1, <2>2, <2>3 DEF TypeOK
  <1>3. IsFiniteSet(open) /\ Known
    BY <1>1, FS_EmptySet DEF Known
  <1>4. \A h \in Handle : Owned(h)
    BY <1>1 DEF Init, Owned
  <1> QED BY <1>2, <1>3, <1>4 DEF Inv

----------------------------------------------------------------------------
(* Proxies of a handle                                                     *)

LEMMA OfFinite ==
  ASSUME IsFiniteSet(open), NEW h
  PROVE  /\ IsFiniteSet(Of(h)) /\ Cardinality(Of(h)) \in Nat
         /\ Cardinality(Of(h)) = 0 <=> Of(h) = {}
  <1>1. Of(h) \subseteq open
    BY DEF Of
  <1>2. IsFiniteSet(Of(h))
    BY <1>1, FS_Subset
  <1> QED BY <1>2, FS_CardinalityType, FS_EmptySet

LEMMA OneMore ==
  ASSUME IsFiniteSet(open), NEW p, p \notin open, open' = open \union {p}
  PROVE  /\ IsFiniteSet(open') /\ \A h : h # p.id => (Of(h))' = Of(h)
         /\ Cardinality((Of(p.id))') = Cardinality(Of(p.id)) + 1 /\ (Of(p.id))' # {}
  <1>1. IsFiniteSet(open')
    BY FS_AddElement
  <1>2. \A h : h # p.id => (Of(h))' = Of(h)
    BY DEF Of
  <1>3. (Of(p.id))' = Of(p.id) \union {p} /\ p \notin Of(p.id)
    BY DEF Of
  <1>4. IsFiniteSet(Of(p.id))
    BY OfFinite
  <1> QED BY <1>1, <1>2, <1>3, <1>4, FS_AddElement

LEMMA OneLess ==
  ASSUME IsFiniteSet(open), NEW p \in open, open' = open \ {p}
  PROVE  /\ IsFiniteSet(open') /\ \A h : h # p.id => (Of(h))' = Of(h)
         /\ Cardinality((Of(p.id))') = Cardinality(Of(p.id)) - 1
         /\ Cardinality(Of(p.id)) >= 1
  <1>1. IsFiniteSet(open')
    BY FS_RemoveElement
  <1>2. \A h : h # p.id => (Of(h))' = Of(h)
    BY DEF Of
  <1>3. (Of(p.id))' = Of(p.id) \ {p} /\ p \in Of(p.id)
    BY DEF Of
  <1>4. IsFiniteSet(Of(p.id)) /\ Cardinality(Of(p.id)) \in Nat /\ Cardinality(Of(p.id)) # 0
    BY <1>3, OfFinite
  <1>5. Cardinality((Of(p.id))') = Cardinality(Of(p.id)) - 1
    BY <1>3, <1>4, FS_RemoveElement
  <1>6. Cardinality(Of(p.id)) >= 1
    BY <1>4
  <1> QED BY <1>1, <1>2, <1>5, <1>6

----------------------------------------------------------------------------
(* Tables                                                                  *)

LEMMA Claims ==
  ASSUME NEW T, T \in [DOMAIN T -> Entry], NEW id, NEW transfer \in BOOLEAN
  PROVE  /\ Claimed(T, id, transfer) \in [DOMAIN T -> Entry]
         /\ \A h \in DOMAIN T :
              /\ Claimed(T, id, transfer)[h].object = T[h].object
              /\ h # id => Claimed(T, id, transfer)[h] = T[h]
              /\ h = id /\ ~transfer =>
                   /\ Claimed(T, id, transfer)[h].adopted = T[h].adopted
                   /\ Claimed(T, id, transfer)[h].refs = T[h].refs + 1
  <1>1. CASE id \notin DOMAIN T
    BY <1>1 DEF Claimed
  <1>2. CASE id \in DOMAIN T /\ transfer
    <2> DEFINE e == [T[id] EXCEPT !.adopted = TRUE]
    <2>1. T[id] \in Entry
      BY <1>2
    <2>2. e \in Entry /\ e.object = T[id].object /\ e.adopted = TRUE /\ e.refs = T[id].refs
          /\ T[id].refs \in Nat
      BY <2>1 DEF Entry
    <2>3. Claimed(T, id, transfer) = [T EXCEPT ![id] = e]
      BY <1>2 DEF Claimed
    <2> HIDE DEF e
    <2> QED BY <1>2, <2>2, <2>3
  <1>3. CASE id \in DOMAIN T /\ ~transfer
    <2> DEFINE e == [T[id] EXCEPT !.refs = @ + 1]
    <2>1. T[id] \in Entry
      BY <1>3
    <2>2. e \in Entry /\ e.object = T[id].object /\ e.adopted = T[id].adopted
          /\ e.refs = T[id].refs + 1 /\ T[id].adopted \in BOOLEAN
      BY <2>1 DEF Entry
    <2>3. Claimed(T, id, transfer) = [T EXCEPT ![id] = e]
      BY <1>3 DEF Claimed
    <2> HIDE DEF e
    <2> QED BY <1>3, <2>2, <2>3
  <1> QED BY <1>1, <1>2, <1>3

LEMMA Adopts ==
  ASSUME NEW T, T \in [DOMAIN T -> Entry], NEW id \in DOMAIN T
  PROVE  Claimed(T, id, TRUE)[id].adopted /\ Claimed(T, id, TRUE)[id].refs = T[id].refs
  <1> DEFINE e == [T[id] EXCEPT !.adopted = TRUE]
  <1>1. e.adopted /\ e \in Entry /\ e.refs = T[id].refs
    BY DEF Entry
  <1>2. Claimed(T, id, TRUE) = [T EXCEPT ![id] = e]
    BY DEF Claimed
  <1> HIDE DEF e
  <1> QED BY <1>1, <1>2

(* A table an operation leaves: the handles that do not go as they were,   *)
(* and perhaps a new one.                                                  *)
Sound(T) ==
  /\ T \in [DOMAIN T -> Entry] /\ DOMAIN T \subseteq 1..(nextID' - 1)
  /\ \A h \in DOMAIN T : T[h].refs > 0
Keeps(T, gone) ==
  /\ \A h \in DOMAIN T : \/ /\ h \in Live
                             /\ T[h].refs = entries[h].refs
                             /\ T[h].adopted = entries[h].adopted
                             /\ T[h].object = entries[h].object
                          \/ /\ h = nextID /\ nextID' = nextID + 1
                             /\ T[h].refs = 1 /\ ~T[h].adopted
  /\ \A h \in Live : h \in gone \/ h \in DOMAIN T
  /\ \A h \in DOMAIN T : h \notin gone

LEMMA Balanced ==
  ASSUME Inv, NEW T, NEW gone, Keeps(T, gone), NEW h \in Handle, h \notin gone,
         fate[h] = "sound"
  PROVE  /\ h \in DOMAIN T =>
              T[h].refs = Cardinality(Of(h)) + queue[h] + (IF T[h].adopted THEN 0 ELSE 1)
         /\ h \notin DOMAIN T => Of(h) = {}
  <1>1. h \notin DOMAIN T => Of(h) = {}
    BY DEF Inv, Owned, Keeps
  <1>2. CASE h \in DOMAIN T /\ h \in Live
    <2>1. h # nextID
      BY <1>2 DEF Inv, TypeOK
    <2>2. T[h].refs = entries[h].refs /\ T[h].adopted = entries[h].adopted
      BY <1>2, <2>1 DEF Keeps
    <2> QED BY <1>2, <2>2 DEF Inv, Owned
  <1>3. CASE h \in DOMAIN T /\ h \notin Live
    <2>1. h = nextID /\ T[h].refs = 1 /\ ~T[h].adopted
      BY <1>3 DEF Keeps
    <2>2. Of(h) = {} /\ queue[h] = 0
      BY <1>3, <2>1 DEF Inv, Owned, TypeOK
    <2> QED BY <2>1, <2>2, FS_EmptySet
  <1> QED BY <1>1, <1>2, <1>3

Same(T) == /\ entries' \in [DOMAIN T -> Entry] /\ DOMAIN entries' = DOMAIN T
           /\ \A h \in DOMAIN T : entries'[h].refs > 0 /\ entries'[h].object = T[h].object

(* What the guest's answer does to the table it is given.                  *)
LEMMA AnsweredTable ==
  ASSUME NEW p \in Proxy, NEW transfer \in BOOLEAN, NEW T, NEW gone, Sound(T),
         Answered(p, transfer, T, gone)
  PROVE  Same(T)
  <1>1. CASE Cached(p) # {}
    <2>1. entries' = T
      BY <1>1 DEF Answered
    <2> QED BY <2>1 DEF Sound, Same
  <1>2. CASE Cached(p) = {}
    <2>1. entries' = Claimed(T, p.id, transfer)
      BY <1>2 DEF Answered
    <2>2. \A h \in DOMAIN T : T[h].refs \in Nat
      BY DEF Sound, Entry
    <2>3. T \in [DOMAIN T -> Entry] /\ \A h \in DOMAIN T : T[h].refs > 0
      BY DEF Sound
    <2>4. /\ entries' \in [DOMAIN T -> Entry]
          /\ \A h \in DOMAIN T : entries'[h].object = T[h].object
      BY <2>1, <2>3, Claims
    <2>5. ASSUME NEW h \in DOMAIN T PROVE entries'[h].refs > 0
      <3>1. CASE h # p.id
        BY <2>1, <2>3, <3>1, Claims
      <3>2. CASE h = p.id /\ transfer
        BY <2>1, <2>3, <3>2, Adopts
      <3>3. CASE h = p.id /\ ~transfer
        BY <2>1, <2>2, <2>3, <3>3, Claims
      <3> QED BY <3>1, <3>2, <3>3
    <2> QED BY <2>4, <2>5 DEF Same
  <1> QED BY <1>1, <1>2

LEMMA AnsweredOwned ==
  ASSUME Inv, NEW p \in Proxy, NEW transfer \in BOOLEAN, NEW T, NEW gone, Sound(T),
         Keeps(T, gone), Answered(p, transfer, T, gone), queue' = queue,
         nextID' \in {nextID, nextID + 1}, transfer => p.id \in DOMAIN T
  PROVE  /\ \A h \in Handle : (Owned(h))'
         /\ IsFiniteSet(open') /\ open' \subseteq Proxy /\ fate' \in [Handle -> Fate]
  <1>1. /\ p.id \in Handle /\ open \subseteq Proxy /\ IsFiniteSet(open)
        /\ fate \in [Handle -> Fate] /\ nextID \in Nat
    BY DEF Inv, TypeOK, Proxy
  <1>2. /\ Ended(gone) \in [Handle -> Fate]
        /\ \A h \in Handle : Ended(gone)[h] = "sound" => h \notin gone /\ fate[h] = "sound"
    BY <1>1 DEF Ended, Fate
  <1>3. \A h \in Handle : fate[h] = "sound" /\ h >= nextID' => queue'[h] = 0
    BY <1>1 DEF Inv, Owned, Handle
  <1>4. CASE Cached(p) # {}
    <2>1. entries' = T /\ fate' = Ended(gone) /\ open' = open
      BY <1>4 DEF Answered
    <2>2. \A h : (Of(h))' = Of(h)
      BY <2>1 DEF Of
    <2>3. \A h \in Handle : (Owned(h))'
      BY <1>2, <1>3, <2>1, <2>2, Balanced DEF Owned, Live
    <2> QED BY <1>1, <1>2, <2>1, <2>3
  <1>5. CASE Cached(p) = {}
    <2> DEFINE comes == IF p.id \in gone /\ ~transfer THEN "ended" ELSE Fares(T, p, transfer)
    <2>1. /\ entries' = Claimed(T, p.id, transfer) /\ open' = open \union {p}
          /\ fate' = [Ended(gone) EXCEPT ![p.id] = comes]
      BY <1>5 DEF Answered
    <2>2. p \notin open
      BY <1>5 DEF Cached
    <2>3. comes \in Fate
      BY <1>1 DEF Fares, Fate
    <2>4. comes = "sound" => /\ p.id \in DOMAIN T /\ fate[p.id] = "sound"
                            /\ ~(transfer /\ T[p.id].adopted)
      BY DEF Fares
    <2> HIDE DEF comes
    <2>5. /\ fate' \in [Handle -> Fate] /\ fate'[p.id] = comes
          /\ \A h \in Handle : h # p.id => fate'[h] = Ended(gone)[h]
      BY <1>1, <1>2, <2>1, <2>3
    <2>6. /\ IsFiniteSet(open') /\ \A h : h # p.id => (Of(h))' = Of(h)
          /\ Cardinality((Of(p.id))') = Cardinality(Of(p.id)) + 1
      BY <1>1, <2>1, <2>2, OneMore
    <2>7. DOMAIN entries' = DOMAIN T
          /\ \A h \in DOMAIN T : h # p.id => entries'[h] = T[h]
      BY <2>1, Claims DEF Sound
    <2>8. ASSUME NEW h \in Handle, h # p.id PROVE (Owned(h))'
      BY <1>2, <1>3, <2>5, <2>6, <2>7, <2>8, Balanced DEF Owned, Live
    <2>9. (Owned(p.id))'
      <3> SUFFICES ASSUME fate'[p.id] = "sound" PROVE (Owned(p.id))'
        BY DEF Owned
      <3>1. /\ p.id \in DOMAIN T /\ fate[p.id] = "sound" /\ ~(transfer /\ T[p.id].adopted)
            /\ p.id \notin gone
        BY <2>4, <2>5 DEF Keeps
      <3>2. /\ T[p.id].refs = Cardinality(Of(p.id)) + queue[p.id]
                              + (IF T[p.id].adopted THEN 0 ELSE 1)
            /\ Cardinality(Of(p.id)) \in Nat /\ queue[p.id] \in Nat
        BY <1>1, <3>1, Balanced, OfFinite DEF Inv, TypeOK
      <3>3. CASE transfer
        <4>0. T \in [DOMAIN T -> Entry] /\ p.id \in DOMAIN T
          BY <3>1 DEF Sound
        <4>1. entries'[p.id].refs = T[p.id].refs
          BY <2>1, <3>3, <4>0, Adopts
        <4>3. entries'[p.id].adopted
          BY <2>1, <3>3, <4>0, Adopts
        <4>2. entries'[p.id].refs = Cardinality((Of(p.id))') + queue'[p.id] + 0
          BY <2>6, <3>1, <3>2, <3>3, <4>1
        <4> QED BY <1>1, <1>3, <2>7, <3>1, <4>2, <4>3 DEF Owned, Live
      <3>4. CASE ~transfer
        <4>1. /\ entries'[p.id].refs = T[p.id].refs + 1
              /\ entries'[p.id].adopted = T[p.id].adopted
          BY <2>1, <3>1, <3>4, Claims DEF Sound
        <4>2. entries'[p.id].refs = Cardinality((Of(p.id))') + queue'[p.id]
                                    + (IF entries'[p.id].adopted THEN 0 ELSE 1)
          BY <2>6, <3>2, <4>1
        <4> QED BY <1>1, <1>3, <2>7, <3>1, <4>2 DEF Owned, Live
      <3> QED BY <3>3, <3>4
    <2> QED BY <1>1, <2>1, <2>5, <2>6, <2>8, <2>9
  <1> QED BY <1>4, <1>5

LEMMA Registers ==
  ASSUME Inv, NEW o \in Objects \union {None}, NEW w \in Owners, nextID <= MaxHandles,
         nextID' = nextID + 1
  PROVE  /\ Sound(Registered(o, w)) /\ Keeps(Registered(o, w), {})
         /\ DOMAIN Registered(o, w) = Live \union {nextID}
         /\ nextID \notin Live /\ nextID \in Handle
         /\ Registered(o, w)[nextID].object = o
  <1> DEFINE e == [object |-> o, owner |-> w, refs |-> 1, escaped |-> FALSE,
                   scope |-> Depth, adopted |-> FALSE]
  <1>1. /\ nextID \in 1..MaxHandles /\ Live \subseteq 1..(nextID - 1)
        /\ entries \in [Live -> Entry] /\ \A h \in Live : entries[h].refs > 0
    BY ProxiesAssumption DEF Inv, TypeOK
  <1>2. e \in Entry
    <2>1. Depth \in 0..MaxDepth
      BY ProxiesAssumption DEF Inv, TypeOK, Depth
    <2> QED BY <2>1 DEF Entry
  <1>3. e.object = o /\ e.refs = 1 /\ ~e.adopted
    OBVIOUS
  <1>4. Registered(o, w) = [h \in Live \union {nextID} |-> IF h \in Live THEN entries[h] ELSE e]
    BY DEF Registered
  <1> HIDE DEF e
  <1>5. nextID \notin Live /\ nextID \in Handle
    BY <1>1 DEF Handle
  <1>6. Registered(o, w)[nextID] = e /\ \A h \in Live : Registered(o, w)[h] = entries[h]
    BY <1>4, <1>5
  <1>7. Registered(o, w) \in [Live \union {nextID} -> Entry]
    BY <1>1, <1>2, <1>4
  <1>8. Sound(Registered(o, w))
    BY <1>1, <1>3, <1>6, <1>7 DEF Sound
  <1>9. Keeps(Registered(o, w), {})
    BY <1>3, <1>4, <1>5, <1>6 DEF Keeps
  <1> QED BY <1>3, <1>4, <1>5, <1>6, <1>8, <1>9

LEMMA EntriesKept ==
  ASSUME Inv, nextID' = nextID PROVE Sound(entries) /\ Keeps(entries, {})
  BY DEF Inv, TypeOK, Sound, Keeps, Live

LEMMA NamedIs ==
  ASSUME Inv, NEW o \in Objects, NEW w \in Owners, NEW gone, Named(o, w, gone)
  PROVE  /\ nextID' \in {nextID, nextID + 1} /\ nextID' \in 1..(MaxHandles + 1)
         /\ IdOf(o, w) \in Handle /\ IdOf(o, w) \in DOMAIN Table(o, w)
         /\ Sound(Table(o, w)) /\ Keeps(Table(o, w), {})
         /\ bridged' \in [Objects -> Handle \union {None}] /\ crossed' \subseteq Objects
         /\ \A h \in DOMAIN Table(o, w) : h \notin Live =>
              ~Found(o, w) /\ h = nextID /\ Table(o, w)[h].object = o
  <1>1. /\ bridged \in [Objects -> Handle \union {None}] /\ crossed \subseteq Objects
        /\ nextID \in 1..(MaxHandles + 1) /\ MaxHandles \in Nat /\ Live \subseteq Handle
    BY ProxiesAssumption DEF Inv, TypeOK, Handle
  <1>2. crossed' \subseteq Objects
    BY <1>1 DEF Named
  <1>3. CASE Found(o, w)
    <2>1. nextID' = nextID /\ IdOf(o, w) = bridged[o] /\ Table(o, w) = entries
      BY <1>1, <1>3 DEF Named, IdOf, Table
    <2>2. bridged[o] \in Live /\ bridged[o] \in Handle
      BY <1>1, <1>3 DEF Found
    <2>3. Remembered(o, w) \in [Objects -> Handle \union {None}]
      BY <1>1, <2>1, <2>2 DEF Remembered
    <2>4. bridged' \in [Objects -> Handle \union {None}]
      BY <2>3 DEF Named, Forget
    <2> QED BY <1>1, <1>2, <2>1, <2>2, <2>4, EntriesKept DEF Live
  <1>4. CASE ~Found(o, w)
    <2>1. /\ nextID' = nextID + 1 /\ IdOf(o, w) = nextID /\ Table(o, w) = Registered(o, w)
          /\ nextID <= MaxHandles
      BY <1>1, <1>4 DEF Named, IdOf, Table, CanName
    <2>2. /\ Sound(Table(o, w)) /\ Keeps(Table(o, w), {})
          /\ DOMAIN Table(o, w) = Live \union {nextID}
          /\ nextID \notin Live /\ nextID \in Handle
          /\ Table(o, w)[nextID].object = o
      BY <2>1, Registers
    <2>3. Remembered(o, w) \in [Objects -> Handle \union {None}]
      BY <1>1, <2>1, <2>2 DEF Remembered
    <2>4. bridged' \in [Objects -> Handle \union {None}]
      BY <2>3 DEF Named, Forget
    <2>5. nextID' \in 1..(MaxHandles + 1)
      BY <1>1, <2>1
    <2> QED BY <1>2, <1>4, <2>1, <2>2, <2>4, <2>5
  <1> QED BY <1>3, <1>4

LEMMA NamedKnown ==
  ASSUME Inv, NEW o \in Objects, NEW w \in Owners, NEW gone, Named(o, w, gone),
         \A h \in DOMAIN entries' : /\ h \in DOMAIN Table(o, w) /\ h \notin gone
                                    /\ entries'[h].object = Table(o, w)[h].object,
         \A h \in DOMAIN entries' : entries'[h] \in Entry
  PROVE  Known'
  <1>1. /\ bridged \in [Objects -> Handle \union {None}] /\ crossed \subseteq crossed'
    BY DEF Inv, TypeOK, Named
  <1>2. bridged' = Forget(Remembered(o, w), gone)
    BY DEF Named
  <1>3. SUFFICES ASSUME NEW h \in DOMAIN entries', entries'[h].object # None,
                        entries'[h].object \notin crossed'
                 PROVE  bridged'[entries'[h].object] = h
    BY DEF Known, Live
  <1> DEFINE x == entries'[h].object
  <1>4. x \in Objects /\ x = Table(o, w)[h].object /\ h \in DOMAIN Table(o, w) /\ h \notin gone
    BY <1>3 DEF Entry
  <1>5. Remembered(o, w)[x] = h
    <2>1. CASE h \in Live
      <3>1. h # nextID
        BY <2>1 DEF Inv, TypeOK
      <3>2. x = entries[h].object
        BY <1>4, <2>1, <3>1, NamedIs DEF Keeps
      <3> HIDE DEF x
      <3>3. bridged[x] = h
        BY <1>1, <1>3, <2>1, <3>2 DEF Inv, Known, x
      <3>4. CASE x # o
        BY <1>1, <1>4, <3>3, <3>4 DEF Remembered
      <3>5. CASE x = o
        <4>1. Found(o, w)
          BY <1>3, <2>1, <3>3, <3>5 DEF Named, x
        <4> QED BY <1>1, <1>4, <3>3, <3>5, <4>1 DEF Remembered, IdOf
      <3> QED BY <3>4, <3>5
    <2>2. CASE h \notin Live
      <3>1. ~Found(o, w) /\ h = nextID /\ x = o
        BY <1>4, <2>2, NamedIs
      <3> HIDE DEF x
      <3> QED BY <1>1, <3>1 DEF Remembered, IdOf
    <2> QED BY <2>1, <2>2
  <1> HIDE DEF x
  <1>6. bridged'[x] = h
    BY <1>2, <1>4, <1>5 DEF Forget
  <1> QED BY <1>6 DEF x

(* What a step must leave to keep the invariant.                           *)
LEMMA InvFrom ==
  ASSUME Sound(entries'), nextID' \in 1..(MaxHandles + 1),
         bridged' \in [Objects -> Handle \union {None}], crossed' \subseteq Objects,
         stack' \in Seq(Guests), Len(stack') <= MaxDepth, open' \subseteq Proxy,
         queue' \in [Handle -> Nat], fate' \in [Handle -> Fate], IsFiniteSet(open'), Known',
         \A h \in Handle : (Owned(h))'
  PROVE  Inv'
  BY DEF Inv, TypeOK, Sound, Live, Depth

LEMMA InvKeep == ASSUME Inv, UNCHANGED <<stack, queue>>
                 PROVE  /\ stack' \in Seq(Guests) /\ Len(stack') <= MaxDepth
                        /\ queue' \in [Handle -> Nat]
  BY DEF Inv, TypeOK, Depth

(* A value is named for a guest that already had the call: Capture, Get.   *)
LEMMA InvHandOut ==
  ASSUME Inv, NEW g \in Guests, NEW o \in Objects, NEW w \in Owners, Named(o, w, {}),
         Answered(AHandle(g, IdOf(o, w)), FALSE, Table(o, w), {}), UNCHANGED <<stack, queue>>
  PROVE  Inv'
  <1> DEFINE p == AHandle(g, IdOf(o, w))
             T == Table(o, w)
  <1>1. /\ nextID' \in {nextID, nextID + 1} /\ nextID' \in 1..(MaxHandles + 1)
        /\ IdOf(o, w) \in Handle /\ Sound(T) /\ Keeps(T, {})
        /\ bridged' \in [Objects -> Handle \union {None}] /\ crossed' \subseteq Objects
    BY NamedIs
  <1>2. p \in Proxy
    BY <1>1 DEF AHandle, Proxy
  <1>3. Answered(p, FALSE, T, {}) /\ queue' = queue
    OBVIOUS
  <1> HIDE DEF p, T
  <1>4. Same(T)
    BY <1>1, <1>2, <1>3, AnsweredTable
  <1>5. /\ \A h \in Handle : (Owned(h))'
        /\ IsFiniteSet(open') /\ open' \subseteq Proxy /\ fate' \in [Handle -> Fate]
    BY <1>1, <1>2, <1>3, AnsweredOwned
  <1>6. Known'
    <2>1. \A h \in DOMAIN entries' : /\ h \in DOMAIN T /\ h \notin {}
                                    /\ entries'[h].object = T[h].object
      BY <1>4 DEF Same
    <2>2. \A h \in DOMAIN entries' : entries'[h] \in Entry
      BY <1>4 DEF Same
    <2> QED BY <2>1, <2>2, NamedKnown DEF T
  <1>7. Sound(entries')
    BY <1>1, <1>4 DEF Same, Sound
  <1> QED BY <1>1, <1>5, <1>6, <1>7, InvKeep, InvFrom

(* A descriptor that was there before: CaptureRef, CaptureJob.             *)
LEMMA InvDescriptor ==
  ASSUME Inv, NEW p \in Proxy, Answered(p, FALSE, entries, {}),
         UNCHANGED <<nextID, bridged, stack, queue, crossed>>
  PROVE  Inv'
  <1>1. Sound(entries) /\ Keeps(entries, {})
    BY EntriesKept
  <1>2. Same(entries)
    BY <1>1, AnsweredTable
  <1>3. queue' = queue /\ nextID' \in {nextID, nextID + 1}
    OBVIOUS
  <1>4. /\ \A h \in Handle : (Owned(h))'
        /\ IsFiniteSet(open') /\ open' \subseteq Proxy /\ fate' \in [Handle -> Fate]
    BY <1>1, <1>3, AnsweredOwned
  <1>5. Known' /\ Sound(entries')
    BY <1>1, <1>2 DEF Same, Sound, Known, Inv, Live
  <1>6. /\ nextID' \in 1..(MaxHandles + 1) /\ crossed' \subseteq Objects
        /\ bridged' \in [Objects -> Handle \union {None}]
    BY DEF Inv, TypeOK
  <1> QED BY <1>4, <1>5, <1>6, InvKeep, InvFrom

LEMMA InvOpenResource == ASSUME Inv, NEW w \in Owners, OpenResource(w) PROVE Inv'
  <1>1. /\ nextID <= MaxHandles /\ entries' = Registered(None, w) /\ nextID' = nextID + 1
        /\ UNCHANGED <<bridged, stack, open, queue, ghostVars>>
    BY DEF OpenResource
  <1> DEFINE T == Registered(None, w)
  <1>2. /\ Sound(T) /\ Keeps(T, {}) /\ DOMAIN T = Live \union {nextID} /\ nextID \notin Live
        /\ T[nextID].object = None
    BY <1>1, Registers
  <1> HIDE DEF T
  <1>3. entries' = T /\ fate' = fate /\ crossed' = crossed
    BY <1>1 DEF T, ghostVars
  <1>4. ASSUME NEW h \in Handle PROVE (Owned(h))'
    <2>1. (Of(h))' = Of(h)
      BY <1>1 DEF Of
    <2>2. h >= nextID' => h >= nextID
      BY <1>1 DEF Inv, TypeOK, Handle
    <2>3. fate[h] = "sound" /\ h >= nextID => queue[h] = 0
      BY DEF Inv, Owned
    <2> QED BY <1>1, <1>2, <1>3, <2>1, <2>2, <2>3, Balanced DEF Owned, Live
  <1>5. Known'
    <2> SUFFICES ASSUME NEW h \in DOMAIN T, T[h].object # None, T[h].object \notin crossed
                 PROVE  bridged[T[h].object] = h
      BY <1>1, <1>3 DEF Known, Live
    <2>1. h \in Live /\ h # nextID
      BY <1>2
    <2> QED BY <1>2, <2>1 DEF Keeps, Inv, Known
  <1>6. nextID' \in 1..(MaxHandles + 1)
    BY <1>1, ProxiesAssumption DEF Inv, TypeOK
  <1>7. /\ open' \subseteq Proxy /\ IsFiniteSet(open') /\ fate' \in [Handle -> Fate]
        /\ crossed' \subseteq Objects /\ bridged' \in [Objects -> Handle \union {None}]
    BY <1>1, <1>3 DEF Inv, TypeOK
  <1>8. Sound(entries')
    BY <1>2, <1>3
  <1>9. UNCHANGED <<stack, queue>>
    BY <1>1
  <1> QED BY <1>4, <1>5, <1>6, <1>7, <1>8, <1>9, InvKeep, InvFrom

LEMMA InvEnter == ASSUME Inv, NEW g \in Guests, Enter(g) PROVE Inv'
  <1>1. /\ Depth < MaxDepth /\ stack' = <<g>> \o stack
        /\ UNCHANGED <<tableVars, open, queue, ghostVars>>
    BY DEF Enter
  <1>2. stack \in Seq(Guests) /\ Len(stack) < MaxDepth
    BY <1>1 DEF Inv, TypeOK, Depth
  <1>3. stack' \in Seq(Guests) /\ Len(stack') = Len(stack) + 1 /\ Len(stack) \in Nat
    BY <1>1, <1>2
  <1>4. Depth' <= MaxDepth
    BY <1>2, <1>3, ProxiesAssumption DEF Depth
  <1>5. TypeOK'
    BY <1>1, <1>3, <1>4 DEF Inv, TypeOK, tableVars, ghostVars, Live
  <1>6. Known' /\ IsFiniteSet(open') /\ \A h \in Handle : (Owned(h))'
    BY <1>1 DEF Inv, Known, Owned, Of, Live, tableVars, ghostVars
  <1> QED BY <1>5, <1>6 DEF Inv

(* Escaping changes none of what the invariant speaks of, and popping a    *)
(* scope spares what has escaped.                                          *)
LEMMA Escapes ==
  ASSUME NEW T, T \in [DOMAIN T -> Entry], NEW id
  PROVE  /\ Escaped(T, id) \in [DOMAIN T -> Entry]
         /\ \A h \in DOMAIN T : /\ Escaped(T, id)[h].refs = T[h].refs
                               /\ Escaped(T, id)[h].adopted = T[h].adopted
                               /\ Escaped(T, id)[h].object = T[h].object
         /\ id \in DOMAIN T => Escaped(T, id)[id].escaped
  <1>1. \A h \in DOMAIN T : T[h] \in Entry
    OBVIOUS
  <1>2. ASSUME NEW h \in DOMAIN T
        PROVE  /\ [T[h] EXCEPT !.escaped = @ \/ h = id] \in Entry
               /\ [T[h] EXCEPT !.escaped = @ \/ h = id].refs = T[h].refs
               /\ [T[h] EXCEPT !.escaped = @ \/ h = id].adopted = T[h].adopted
               /\ [T[h] EXCEPT !.escaped = @ \/ h = id].object = T[h].object
               /\ h = id => [T[h] EXCEPT !.escaped = @ \/ h = id].escaped
    BY <1>1 DEF Entry
  <1> QED BY <1>2 DEF Escaped

LEMMA Leaves ==
  ASSUME NEW T, NEW id, Sound(T), Keeps(T, {})
  PROVE  LET S == Escaped(T, id)
             gone == Scoped(S, Depth)
             U == Without(S, gone)
         IN /\ Sound(U) /\ Keeps(U, gone)
            /\ id \in DOMAIN T => id \in DOMAIN U
            /\ DOMAIN U \subseteq DOMAIN T
            /\ \A h \in DOMAIN U : U[h].object = T[h].object /\ h \notin gone
  <1> DEFINE S == Escaped(T, id)
             gone == Scoped(S, Depth)
             U == Without(S, gone)
  <1>1. T \in [DOMAIN T -> Entry] /\ DOMAIN T \subseteq 1..(nextID' - 1)
        /\ \A h \in DOMAIN T : T[h].refs > 0
    BY DEF Sound
  <1>2. /\ S \in [DOMAIN T -> Entry]
        /\ \A h \in DOMAIN T : /\ S[h].refs = T[h].refs /\ S[h].adopted = T[h].adopted
                              /\ S[h].object = T[h].object
        /\ id \in DOMAIN T => S[id].escaped
    BY <1>1, Escapes
  <1> HIDE DEF S
  <1>3. gone \subseteq DOMAIN T /\ id \notin gone
    BY <1>2 DEF Scoped
  <1> HIDE DEF gone
  <1>4. U = [h \in DOMAIN T \ gone |-> S[h]]
    BY <1>2 DEF Without
  <1> HIDE DEF U
  <1>5. U \in [DOMAIN U -> Entry] /\ DOMAIN U = DOMAIN T \ gone
        /\ \A h \in DOMAIN U : U[h] = S[h]
    BY <1>2, <1>4
  <1>6. Sound(U)
    BY <1>1, <1>2, <1>5 DEF Sound
  <1>7. Keeps(U, gone)
    BY <1>2, <1>5 DEF Keeps
  <1>8. id \in DOMAIN T => id \in DOMAIN U
    BY <1>3, <1>5
  <1> QED BY <1>2, <1>3, <1>5, <1>6, <1>7, <1>8 DEF S, gone, U

LEMMA InvReturn == ASSUME Inv, NEW o \in Objects, Return(o) PROVE Inv'
  <1> DEFINE id == IdOf(o, "go")
             T == Table(o, "go")
             S == Escaped(T, id)
             gone == Scoped(S, Depth)
             U == Without(S, gone)
             p == AHandle(Head(stack), id)
  <1>1. /\ stack # << >> /\ Named(o, "go", gone) /\ stack' = Tail(stack)
        /\ Answered(p, TRUE, U, gone) /\ UNCHANGED queue
    BY DEF Return, Leave
  <1>2. stack' \in Seq(Guests) /\ Len(stack') <= MaxDepth /\ Head(stack) \in Guests
    <2>1. stack \in Seq(Guests) /\ Len(stack) <= MaxDepth
      BY DEF Inv, TypeOK, Depth
    <2>2. stack' \in Seq(Guests) /\ Len(stack') = Len(stack) - 1 /\ Head(stack) \in Guests
      BY <1>1, <2>1, Tailed
    <2> QED BY <2>1, <2>2, ProxiesAssumption
  <1>3. "go" \in Owners
    BY ProxiesAssumption
  <1>4. /\ nextID' \in {nextID, nextID + 1} /\ nextID' \in 1..(MaxHandles + 1)
        /\ id \in Handle /\ id \in DOMAIN T /\ Sound(T) /\ Keeps(T, {})
        /\ bridged' \in [Objects -> Handle \union {None}] /\ crossed' \subseteq Objects
    BY <1>1, <1>3, NamedIs
  <1>5. p \in Proxy
    BY <1>2, <1>4 DEF AHandle, Proxy
  <1>6. p.id = id
    BY DEF AHandle
  <1> HIDE DEF p, T, id
  <1>7. /\ Sound(U) /\ Keeps(U, gone) /\ id \in DOMAIN U /\ DOMAIN U \subseteq DOMAIN T
        /\ \A h \in DOMAIN U : U[h].object = T[h].object /\ h \notin gone
    BY <1>4, Leaves
  <1> HIDE DEF S, gone, U
  <1>8. Same(U)
    BY <1>1, <1>5, <1>7, AnsweredTable
  <1>9. /\ \A h \in Handle : (Owned(h))'
        /\ IsFiniteSet(open') /\ open' \subseteq Proxy /\ fate' \in [Handle -> Fate]
    BY <1>1, <1>4, <1>5, <1>6, <1>7, AnsweredOwned
  <1>10. Known'
    <2>1. \A h \in DOMAIN entries' : /\ h \in DOMAIN T /\ h \notin gone
                                    /\ entries'[h].object = T[h].object
      BY <1>7, <1>8 DEF Same
    <2>2. \A h \in DOMAIN entries' : entries'[h] \in Entry
      BY <1>8 DEF Same
    <2> QED BY <1>1, <1>3, <2>1, <2>2, NamedKnown DEF T
  <1>11. Sound(entries')
    BY <1>7, <1>8 DEF Same, Sound
  <1>12. queue' \in [Handle -> Nat]
    BY <1>1 DEF Inv, TypeOK
  <1> QED BY <1>2, <1>4, <1>9, <1>10, <1>11, <1>12, InvFrom

LEMMA InvReturnMarker == ASSUME Inv, NEW id \in Handle, ReturnMarker(id) PROVE Inv'
  <1> DEFINE S == Escaped(entries, id)
             gone == Scoped(S, Depth)
             U == Without(S, gone)
             p == AHandle(Head(stack), id)
             transfer == id \in Live
  <1>1. /\ stack # << >> /\ stack' = Tail(stack) /\ bridged' = Forget(bridged, Scoped(S, Depth))
        /\ Answered(p, transfer, U, gone) /\ UNCHANGED <<nextID, queue, crossed>>
    BY DEF ReturnMarker, Leave
  <1>2. stack' \in Seq(Guests) /\ Len(stack') <= MaxDepth /\ Head(stack) \in Guests
    <2>1. stack \in Seq(Guests) /\ Len(stack) <= MaxDepth
      BY DEF Inv, TypeOK, Depth
    <2>2. stack' \in Seq(Guests) /\ Len(stack') = Len(stack) - 1 /\ Head(stack) \in Guests
      BY <1>1, <2>1, Tailed
    <2> QED BY <2>1, <2>2, ProxiesAssumption
  <1>3. Sound(entries) /\ Keeps(entries, {}) /\ nextID' \in {nextID, nextID + 1}
    BY <1>1, EntriesKept
  <1>4. p \in Proxy /\ p.id = id /\ transfer \in BOOLEAN
    BY <1>2 DEF AHandle, Proxy
  <1>5. transfer <=> id \in DOMAIN entries
    BY DEF Live
  <1> HIDE DEF p, transfer
  <1>6. /\ Sound(U) /\ Keeps(U, gone)
        /\ id \in DOMAIN entries => id \in DOMAIN U
        /\ DOMAIN U \subseteq DOMAIN entries
        /\ \A h \in DOMAIN U : U[h].object = entries[h].object /\ h \notin gone
    BY <1>3, Leaves
  <1> HIDE DEF S, gone, U
  <1>7. Same(U)
    BY <1>1, <1>4, <1>6, AnsweredTable
  <1>8. /\ \A h \in Handle : (Owned(h))'
        /\ IsFiniteSet(open') /\ open' \subseteq Proxy /\ fate' \in [Handle -> Fate]
    <2>1. queue' = queue /\ (transfer => p.id \in DOMAIN U)
      BY <1>1, <1>4, <1>5, <1>6
    <2> QED BY <1>1, <1>3, <1>4, <1>6, <2>1, AnsweredOwned
  <1>9. Known' /\ bridged' \in [Objects -> Handle \union {None}]
    <2>1. bridged' = Forget(bridged, gone) /\ crossed' = crossed
      BY <1>1 DEF gone
    <2>2. bridged' \in [Objects -> Handle \union {None}]
      BY <2>1 DEF Inv, TypeOK, Forget
    <2> SUFFICES ASSUME NEW h \in DOMAIN entries', entries'[h].object # None,
                        entries'[h].object \notin crossed
                 PROVE  bridged'[entries'[h].object] = h
      BY <2>1, <2>2 DEF Known, Live
    <2>3. h \in Live /\ h \notin gone /\ entries'[h].object = entries[h].object
          /\ entries'[h].object \in Objects
      BY <1>6, <1>7 DEF Same, Live, Entry
    <2>4. bridged[entries'[h].object] = h
      BY <2>3 DEF Inv, Known
    <2> QED BY <2>1, <2>3, <2>4 DEF Forget
  <1>10. Sound(entries')
    BY <1>6, <1>7 DEF Same, Sound
  <1>11. /\ queue' \in [Handle -> Nat] /\ nextID' \in 1..(MaxHandles + 1)
         /\ crossed' \subseteq Objects
    BY <1>1 DEF Inv, TypeOK
  <1> QED BY <1>2, <1>8, <1>9, <1>10, <1>11, InvFrom

(* Handles leave the table, and no proxies do: a scope, a close, the end   *)
(* of a run or of a worker.                                                *)
LEMMA InvEnds ==
  ASSUME Inv, NEW gone, entries' = Without(entries, gone), fate' = Ended(gone),
         bridged' \in [Objects -> Handle \union {None}], crossed' \subseteq Objects,
         UNCHANGED <<nextID, open, queue>>, stack' \in Seq(Guests), Len(stack') <= MaxDepth,
         \A h \in Live : /\ h \notin gone /\ entries[h].object # None
                         /\ entries[h].object \notin crossed'
                         => bridged'[entries[h].object] = h
  PROVE  Inv'
  <1>1. /\ entries \in [Live -> Entry] /\ Live \subseteq 1..(nextID - 1) /\ open \subseteq Proxy
        /\ \A h \in Live : entries[h].refs > 0
        /\ fate \in [Handle -> Fate] /\ nextID \in 1..(MaxHandles + 1)
        /\ queue \in [Handle -> Nat] /\ IsFiniteSet(open)
    BY DEF Inv, TypeOK
  <1>2. /\ entries' \in [Live \ gone -> Entry] /\ DOMAIN entries' = Live \ gone
        /\ \A h \in Live \ gone : entries'[h] = entries[h]
    BY <1>1 DEF Without, Live
  <1>3. fate' \in [Handle -> Fate]
        /\ \A h \in Handle : fate'[h] = "sound" => h \notin gone /\ fate[h] = "sound"
    BY <1>1 DEF Ended, Fate
  <1>4. Sound(entries')
    BY <1>1, <1>2 DEF Sound
  <1>5. ASSUME NEW h \in Handle PROVE (Owned(h))'
    <2>1. (Of(h))' = Of(h) /\ queue' = queue /\ nextID' = nextID
      BY DEF Of
    <2> QED BY <1>2, <1>3, <2>1 DEF Inv, Owned, Live
  <1>6. Known'
    BY <1>2 DEF Known, Live
  <1> QED BY <1>1, <1>3, <1>4, <1>5, <1>6, InvFrom

LEMMA EndIs ==
  ASSUME Inv, NEW gone, End(gone), UNCHANGED <<nextID, open, queue, crossed>>,
         stack' \in Seq(Guests), Len(stack') <= MaxDepth
  PROVE  Inv'
  <1>1. /\ bridged \in [Objects -> Handle \union {None}] /\ bridged' = Forget(bridged, gone)
        /\ entries' = Without(entries, gone) /\ fate' = Ended(gone) /\ crossed' = crossed
        /\ crossed \subseteq Objects
    BY DEF Inv, TypeOK, End
  <1>2. bridged' \in [Objects -> Handle \union {None}]
    BY <1>1 DEF Forget
  <1>3. ASSUME NEW h \in Live, h \notin gone, entries[h].object # None,
               entries[h].object \notin crossed'
        PROVE  bridged'[entries[h].object] = h
    <2>1. bridged[entries[h].object] = h
      BY <1>1, <1>3 DEF Inv, Known
    <2>2. entries[h].object \in Objects
      BY <1>3 DEF Inv, TypeOK, Entry
    <2> QED BY <1>1, <1>3, <2>1, <2>2 DEF Forget
  <1> QED BY <1>1, <1>2, <1>3, InvEnds

LEMMA InvEndings ==
  ASSUME Inv, ReturnNothing \/ (\E h \in Handle : Finish(h)) \/ DrainWorker PROVE Inv'
  <1>1. stack \in Seq(Guests) /\ Len(stack) <= MaxDepth
    BY DEF Inv, TypeOK, Depth
  <1>2. CASE ReturnNothing
    <2>1. stack' \in Seq(Guests) /\ Len(stack') = Len(stack) - 1
      BY <1>1, <1>2, Tailed DEF ReturnNothing
    <2>2. Len(stack') <= MaxDepth
      BY <1>1, <2>1, ProxiesAssumption
    <2> QED BY <1>2, <2>1, <2>2, EndIs DEF ReturnNothing
  <1>3. ASSUME NEW h \in Handle, Finish(h) PROVE Inv'
    BY <1>1, <1>3, EndIs DEF Finish
  <1>4. CASE DrainWorker
    BY <1>1, <1>4, EndIs DEF DrainWorker
  <1> QED BY <1>2, <1>3, <1>4

LEMMA InvEndRun == ASSUME Inv, EndRun PROVE Inv'
  <1> DEFINE gone == Scoped(entries, 0)
  <1>1. /\ entries' = Without(entries, gone) /\ fate' = Ended(gone)
        /\ crossed' = crossed \union ({entries[h].object : h \in Live \ gone} \ {None})
        /\ bridged' = [o \in Objects |-> None] /\ UNCHANGED <<nextID, stack, open, queue>>
    BY DEF EndRun
  <1> HIDE DEF gone
  <1>2. stack' \in Seq(Guests) /\ Len(stack') <= MaxDepth
    BY <1>1 DEF Inv, TypeOK, Depth
  <1>3. \A h \in Live : entries[h].object \in Objects \union {None}
    BY DEF Inv, TypeOK, Entry
  <1>4. crossed' \subseteq Objects
    BY <1>1, <1>3 DEF Inv, TypeOK
  <1>5. bridged' \in [Objects -> Handle \union {None}]
    BY <1>1
  <1>6. \A h \in Live : h \notin gone /\ entries[h].object # None => entries[h].object \in crossed'
    BY <1>1
  <1> QED BY <1>1, <1>2, <1>4, <1>5, <1>6, InvEnds

----------------------------------------------------------------------------
(* Releases                                                                *)

LEMMA Lessens ==
  ASSUME Inv, NEW n \in [Handle -> Nat], entries' = Less(entries, n)
  PROVE  /\ entries' \in [DOMAIN entries' -> Entry]
         /\ \A h \in Live : h \in Handle /\ n[h] \in Nat /\ entries[h].refs \in Nat
         /\ DOMAIN entries' = {h \in Live : entries[h].refs > n[h]}
         /\ \A h \in DOMAIN entries' : /\ entries'[h].refs = entries[h].refs - n[h]
                                       /\ entries'[h].refs > 0
                                       /\ entries'[h].adopted = entries[h].adopted
                                       /\ entries'[h].object = entries[h].object
  <1>1. /\ entries \in [Live -> Entry] /\ Live \subseteq 1..(nextID - 1)
        /\ nextID \in 1..(MaxHandles + 1)
    BY DEF Inv, TypeOK
  <1>2. \A h \in Live : /\ h \in Handle /\ n[h] \in Nat /\ entries[h] \in Entry
                        /\ entries[h].refs \in Nat
    BY <1>1, ProxiesAssumption DEF Handle, Entry
  <1> DEFINE D == {h \in Live : entries[h].refs > n[h]}
  <1>3. entries' = [h \in D |-> [entries[h] EXCEPT !.refs = @ - n[h]]]
    BY DEF Less, Live
  <1>4. ASSUME NEW h \in D
        PROVE  /\ [entries[h] EXCEPT !.refs = @ - n[h]] \in Entry
               /\ [entries[h] EXCEPT !.refs = @ - n[h]].refs = entries[h].refs - n[h]
               /\ [entries[h] EXCEPT !.refs = @ - n[h]].adopted = entries[h].adopted
               /\ [entries[h] EXCEPT !.refs = @ - n[h]].object = entries[h].object
    <2>1. entries[h].refs - n[h] \in Nat /\ entries[h] \in Entry
      BY <1>2
    <2> QED BY <2>1 DEF Entry
  <1>5. ASSUME NEW h \in D PROVE entries[h].refs - n[h] > 0
    BY <1>2
  <1> HIDE DEF D
  <1>6. DOMAIN entries' = D /\ entries' \in [D -> Entry]
    BY <1>3, <1>4
  <1>7. \A h \in D : /\ entries'[h].refs = entries[h].refs - n[h]
                     /\ entries'[h].adopted = entries[h].adopted
                     /\ entries'[h].object = entries[h].object
    BY <1>3, <1>4
  <1> QED BY <1>2, <1>5, <1>6, <1>7 DEF D

LEMMA LessKnown ==
  ASSUME Inv, NEW n \in [Handle -> Nat], entries' = Less(entries, n),
         bridged' = Forget(bridged, Gone(n)), crossed' = crossed
  PROVE  Known' /\ bridged' \in [Objects -> Handle \union {None}]
  <1>1. bridged' \in [Objects -> Handle \union {None}]
    BY DEF Inv, TypeOK, Forget
  <1>2. ASSUME NEW h \in DOMAIN entries', entries'[h].object # None,
               entries'[h].object \notin crossed
        PROVE  bridged'[entries'[h].object] = h
    <2>1. /\ h \in Live /\ entries[h].refs > n[h] /\ entries'[h].object = entries[h].object
          /\ n[h] \in Nat /\ entries[h].refs \in Nat
      BY Lessens
    <2>2. h \notin Gone(n)
      BY <2>1 DEF Gone
    <2>3. bridged[entries'[h].object] = h
      BY <1>2, <2>1 DEF Inv, Known
    <2>4. entries'[h].object \in Objects
      BY <1>2, <2>1 DEF Inv, TypeOK, Entry
    <2> QED BY <2>2, <2>3, <2>4 DEF Forget
  <1> QED BY <1>1, <1>2 DEF Known, Live

LEMMA Below == ASSUME Inv, NEW h \in Live PROVE ~(h >= nextID)
  <1>1. h \in 1..(nextID - 1) /\ nextID \in Nat
    BY DEF Inv, TypeOK
  <1> QED BY <1>1

LEMMA InvDrain == ASSUME Inv, Drain PROVE Inv'
  <1>1. /\ entries' = Less(entries, queue) /\ bridged' = Forget(bridged, Gone(queue))
        /\ queue' = [h \in Handle |-> 0] /\ crossed' = crossed /\ fate' = fate
        /\ UNCHANGED <<nextID, stack, open>>
    BY DEF Drain, ghostVars
  <1>2. queue \in [Handle -> Nat] /\ IsFiniteSet(open)
    BY DEF Inv, TypeOK
  <1>3. /\ entries' \in [DOMAIN entries' -> Entry]
        /\ DOMAIN entries' = {h \in Live : entries[h].refs > queue[h]}
        /\ \A h \in Live : entries[h].refs \in Nat
        /\ \A h \in DOMAIN entries' : /\ entries'[h].refs = entries[h].refs - queue[h]
                                      /\ entries'[h].refs > 0
                                      /\ entries'[h].adopted = entries[h].adopted
    BY <1>1, <1>2, Lessens
  <1>4. ASSUME NEW h \in Handle PROVE (Owned(h))'
    <2>1. (Of(h))' = Of(h)
      BY <1>1 DEF Of
    <2>2. Cardinality(Of(h)) \in Nat /\ (Cardinality(Of(h)) = 0 <=> Of(h) = {})
      BY <1>2, OfFinite
    <2>3. queue[h] \in Nat /\ queue'[h] = 0
      BY <1>1, <1>2
    <2>4. CASE h \in DOMAIN entries' /\ fate[h] = "sound"
      <3>1. entries[h].refs = Cardinality(Of(h)) + queue[h] + (IF entries[h].adopted THEN 0 ELSE 1)
        BY <1>3, <2>4 DEF Inv, Owned
      <3>2. entries'[h].refs = Cardinality(Of(h)) + (IF entries'[h].adopted THEN 0 ELSE 1)
        BY <1>3, <2>2, <2>3, <2>4, <3>1
      <3> QED BY <2>1, <2>2, <2>3, <2>4, <3>2 DEF Owned, Live
    <2>5. CASE h \notin DOMAIN entries' /\ fate[h] = "sound"
      <3>1. Of(h) = {}
        <4>1. CASE h \in Live
          <5>1. ~(entries[h].refs > queue[h])
            BY <1>3, <2>5, <4>1
          <5>2. entries[h].refs = Cardinality(Of(h)) + queue[h] + (IF entries[h].adopted THEN 0 ELSE 1)
            BY <2>5, <4>1 DEF Inv, Owned
          <5>3. entries[h].refs \in Nat
            BY <1>3, <4>1
          <5> QED BY <2>2, <2>3, <5>1, <5>2, <5>3
        <4>2. CASE h \notin Live
          BY <2>5, <4>2 DEF Inv, Owned
        <4> QED BY <4>1, <4>2
      <3> QED BY <2>1, <2>3, <2>5, <3>1 DEF Owned, Live
    <2>6. CASE fate[h] # "sound"
      BY <1>1, <2>6 DEF Owned
    <2> QED BY <2>4, <2>5, <2>6
  <1>5. Known' /\ bridged' \in [Objects -> Handle \union {None}]
    BY <1>1, <1>2, LessKnown
  <1>6. Sound(entries')
    BY <1>1, <1>3 DEF Sound, Inv, TypeOK, Live
  <1>7. /\ stack' \in Seq(Guests) /\ Len(stack') <= MaxDepth /\ queue' \in [Handle -> Nat]
        /\ nextID' \in 1..(MaxHandles + 1) /\ crossed' \subseteq Objects /\ open' \subseteq Proxy
        /\ IsFiniteSet(open') /\ fate' \in [Handle -> Fate]
    BY <1>1 DEF Inv, TypeOK, Depth
  <1> QED BY <1>4, <1>5, <1>6, <1>7, InvFrom

LEMMA InvClose == ASSUME Inv, NEW p \in open, Close(p) PROVE Inv'
  <1> DEFINE n == Once(p.id)
  <1>1. /\ entries' = Less(entries, n) /\ bridged' = Forget(bridged, Gone(n)) /\ p.id \in Live
        /\ open' = open \ {p} /\ UNCHANGED <<nextID, stack, queue>>
        /\ crossed' = crossed /\ fate' = fate
    BY DEF Close, ghostVars
  <1>2. n \in [Handle -> Nat] /\ \A h \in Handle : n[h] = IF h = p.id THEN 1 ELSE 0
    BY DEF Once
  <1>3. queue \in [Handle -> Nat] /\ IsFiniteSet(open) /\ open \subseteq Proxy
    BY DEF Inv, TypeOK
  <1> HIDE DEF n
  <1>4. /\ entries' \in [DOMAIN entries' -> Entry]
        /\ DOMAIN entries' = {h \in Live : entries[h].refs > n[h]}
        /\ \A h \in Live : entries[h].refs \in Nat
        /\ \A h \in DOMAIN entries' : /\ entries'[h].refs = entries[h].refs - n[h]
                                      /\ entries'[h].refs > 0
                                      /\ entries'[h].adopted = entries[h].adopted
    BY <1>1, <1>2, Lessens
  <1>5. /\ IsFiniteSet(open') /\ \A h : h # p.id => (Of(h))' = Of(h)
        /\ Cardinality((Of(p.id))') = Cardinality(Of(p.id)) - 1
        /\ Cardinality(Of(p.id)) >= 1
    BY <1>1, <1>3, OneLess
  <1>6. p.id \in Handle
    BY <1>3 DEF Proxy
  <1>7. ASSUME NEW h \in Handle, h # p.id PROVE (Owned(h))'
    <2>1. (Of(h))' = Of(h) /\ n[h] = 0 /\ queue' = queue /\ nextID' = nextID /\ fate' = fate
      BY <1>1, <1>2, <1>5, <1>7
    <2>2. h \in Live => entries[h].refs > 0
      BY DEF Inv, TypeOK
    <2>3. h \in Live <=> h \in DOMAIN entries'
      BY <1>4, <2>1, <2>2
    <2>4. h \in Live => entries'[h].refs = entries[h].refs /\ entries'[h].adopted = entries[h].adopted
      BY <1>4, <2>1, <2>3
    <2> QED BY <2>1, <2>3, <2>4 DEF Inv, Owned, Live
  <1>8. (Owned(p.id))'
    <2> SUFFICES ASSUME fate[p.id] = "sound" PROVE (Owned(p.id))'
      BY <1>1 DEF Owned
    <2>1. /\ entries[p.id].refs = Cardinality(Of(p.id)) + queue[p.id]
                                  + (IF entries[p.id].adopted THEN 0 ELSE 1)
          /\ queue[p.id] \in Nat /\ Cardinality(Of(p.id)) \in Nat /\ n[p.id] = 1
      BY <1>1, <1>2, <1>3, <1>6, OfFinite DEF Inv, Owned
    <2>2. CASE p.id \in DOMAIN entries'
      <3>1. entries'[p.id].refs = entries[p.id].refs - 1
            /\ entries'[p.id].adopted = entries[p.id].adopted
        BY <1>4, <2>1, <2>2
      <3>2. entries'[p.id].refs = Cardinality((Of(p.id))') + queue[p.id]
                                  + (IF entries'[p.id].adopted THEN 0 ELSE 1)
        BY <1>5, <2>1, <3>1
      <3>3. nextID' = nextID /\ queue' = queue /\ ~(p.id >= nextID)
        BY <1>1, Below
      <3> QED BY <2>2, <3>2, <3>3 DEF Owned, Live
    <2>3. CASE p.id \notin DOMAIN entries'
      <3>1. ~(entries[p.id].refs > 1)
        BY <1>1, <1>4, <2>1, <2>3
      <3>2. Cardinality((Of(p.id))') = 0
        BY <1>5, <2>1, <3>1
      <3>3. (Of(p.id))' \subseteq open'
        BY DEF Of
      <3>4. (Of(p.id))' = {}
        BY <1>5, <3>2, <3>3, FS_Subset, FS_EmptySet
      <3>5. nextID' = nextID /\ ~(p.id >= nextID)
        BY <1>1, Below
      <3> QED BY <2>3, <3>4, <3>5 DEF Owned, Live
    <2> QED BY <2>2, <2>3
  <1>9. Known' /\ bridged' \in [Objects -> Handle \union {None}]
    BY <1>1, <1>2, LessKnown
  <1>10. Sound(entries')
    BY <1>1, <1>4 DEF Sound, Inv, TypeOK, Live
  <1>11. /\ stack' \in Seq(Guests) /\ Len(stack') <= MaxDepth /\ queue' \in [Handle -> Nat]
         /\ nextID' \in 1..(MaxHandles + 1) /\ crossed' \subseteq Objects /\ open' \subseteq Proxy
         /\ fate' \in [Handle -> Fate]
    BY <1>1 DEF Inv, TypeOK, Depth
  <1> QED BY <1>5, <1>7, <1>8, <1>9, <1>10, <1>11, InvFrom

LEMMA InvCollect == ASSUME Inv, NEW p \in open, Collect(p) PROVE Inv'
  <1>1. /\ open' = open \ {p} /\ UNCHANGED <<tableVars, stack, ghostVars>>
        /\ queue' = IF p.id \in Live THEN [queue EXCEPT ![p.id] = @ + 1] ELSE queue
    BY DEF Collect
  <1>2. queue \in [Handle -> Nat] /\ IsFiniteSet(open) /\ open \subseteq Proxy
    BY DEF Inv, TypeOK
  <1>3. p.id \in Handle
    BY <1>2 DEF Proxy
  <1>4. /\ IsFiniteSet(open') /\ \A h : h # p.id => (Of(h))' = Of(h)
        /\ Cardinality((Of(p.id))') = Cardinality(Of(p.id)) - 1
        /\ Cardinality(Of(p.id)) >= 1
    BY <1>1, <1>2, OneLess
  <1>5. queue' \in [Handle -> Nat] /\ \A h \in Handle : h # p.id => queue'[h] = queue[h]
    BY <1>1, <1>2, <1>3
  <1>6. Live' = Live /\ entries' = entries /\ nextID' = nextID /\ fate' = fate
    BY <1>1 DEF tableVars, ghostVars, Live
  <1>7. ASSUME NEW h \in Handle, h # p.id PROVE (Owned(h))'
    BY <1>4, <1>5, <1>6, <1>7 DEF Inv, Owned
  <1>8. (Owned(p.id))'
    <2> SUFFICES ASSUME fate[p.id] = "sound" PROVE (Owned(p.id))'
      BY <1>6 DEF Owned
    <2>1. p.id \in Live
      <3>1. p \in Of(p.id)
        BY DEF Of
      <3> QED BY <1>3, <3>1 DEF Inv, Owned
    <2>2. /\ entries[p.id].refs = Cardinality(Of(p.id)) + queue[p.id]
                                  + (IF entries[p.id].adopted THEN 0 ELSE 1)
          /\ queue[p.id] \in Nat /\ queue'[p.id] = queue[p.id] + 1
          /\ Cardinality(Of(p.id)) \in Nat
      BY <1>1, <1>2, <1>3, <2>1, OfFinite DEF Inv, Owned
    <2>3. entries'[p.id].refs = Cardinality((Of(p.id))') + queue'[p.id]
                                + (IF entries'[p.id].adopted THEN 0 ELSE 1)
      BY <1>4, <1>6, <2>2
    <2>4. ~(p.id >= nextID')
      BY <1>6, <2>1, Below
    <2> QED BY <1>6, <2>1, <2>3, <2>4 DEF Owned
  <1>9. TypeOK'
    BY <1>1, <1>5 DEF Inv, TypeOK, tableVars, ghostVars, Live, Depth
  <1>10. Known'
    BY <1>1 DEF Inv, Known, Live, tableVars, ghostVars
  <1> QED BY <1>4, <1>7, <1>8, <1>9, <1>10 DEF Inv

----------------------------------------------------------------------------
(* What follows                                                            *)

LEMMA InvNext == ASSUME Inv, [Next]_vars PROVE Inv'
  <1>1. ASSUME NEW g \in Guests, NEW o \in Objects, Capture(g, o) PROVE Inv'
    BY <1>1, InvHandOut, ProxiesAssumption DEF Capture
  <1>2. ASSUME NEW w \in Owners, OpenResource(w) PROVE Inv'
    BY <1>2, InvOpenResource
  <1>3. ASSUME NEW g \in Guests, NEW h \in Handle, CaptureRef(g, h) PROVE Inv'
    <2>1. AHandle(g, h) \in Proxy
      BY DEF AHandle, Proxy
    <2> QED BY <1>3, <2>1, InvDescriptor DEF CaptureRef
  <1>4. ASSUME NEW g \in JobGuests, NEW j \in Jobs, CaptureJob(g, j) PROVE Inv'
    <2>1. [guest |-> g, of |-> "job", id |-> j] \in Proxy
      BY ProxiesAssumption DEF Proxy, Handle
    <2> QED BY <1>4, <2>1, InvDescriptor DEF CaptureJob
  <1>5. ASSUME NEW g \in Guests, Enter(g) PROVE Inv'
    BY <1>5, InvEnter
  <1>6. ASSUME NEW o \in Objects, Return(o) PROVE Inv'
    BY <1>6, InvReturn
  <1>7. ASSUME NEW h \in Handle, ReturnMarker(h) PROVE Inv'
    BY <1>7, InvReturnMarker
  <1>8. CASE ReturnNothing \/ (\E h \in Handle : Finish(h)) \/ DrainWorker
    BY <1>8, InvEndings
  <1>9. CASE Drain
    BY <1>9, InvDrain
  <1>10. CASE EndRun
    BY <1>10, InvEndRun
  <1>11. ASSUME NEW p \in open, NEW o \in Objects, Get(p, o) PROVE Inv'
    <2> DEFINE w == entries[p.id].owner
    <2>1. w \in Owners /\ p.guest \in Guests
      BY <1>11 DEF Get, Inv, TypeOK, Entry, Proxy
    <2>2. /\ Named(o, w, {}) /\ UNCHANGED <<stack, queue>>
          /\ Answered(AHandle(p.guest, IdOf(o, w)), FALSE, Table(o, w), {})
      BY <1>11 DEF Get
    <2> HIDE DEF w
    <2> QED BY <2>1, <2>2, InvHandOut
  <1>12. ASSUME NEW p \in open, Close(p) \/ Collect(p) PROVE Inv'
    BY <1>12, InvClose, InvCollect
  <1>13. CASE UNCHANGED vars
    <2>1. TypeOK' /\ IsFiniteSet(open') /\ Known'
      BY <1>13 DEF vars, tableVars, ghostVars, Inv, TypeOK, Known, Live, Depth
    <2>2. \A h \in Handle : (Owned(h))'
      BY <1>13 DEF vars, tableVars, ghostVars, Inv, Owned, Of, Live
    <2> QED BY <2>1, <2>2 DEF Inv
  <1> QED BY <1>1, <1>2, <1>3, <1>4, <1>5, <1>6, <1>7, <1>8, <1>9, <1>10, <1>11, <1>12, <1>13
          DEF Next

LEMMA Invariance == Spec => []Inv
  BY InvInit, InvNext, PTL DEF Spec

(* Every variable keeps its type, whatever guests and collectors do.       *)
THEOREM TypeCorrect == Spec => []TypeOK
  <1>1. Inv => TypeOK
    BY DEF Inv
  <1> QED BY <1>1, Invariance, PTL

(* A handle has exactly the references that its proxies, the releases on   *)
(* their way and its registration will give up: retain, adopt, close,      *)
(* finalizer, drain and scope balance, for any number of guests.           *)
THEOREM ReferencesStayOwned == Spec => []ReferencesAreOwned
  <1>1. ASSUME Inv, NEW h \in Live, fate[h] = "sound"
        PROVE  entries[h].refs = Holders(h) + (IF entries[h].adopted THEN 0 ELSE 1)
    <2>1. h \in Handle
      BY <1>1, ProxiesAssumption DEF Inv, TypeOK, Handle
    <2> QED BY <1>1, <2>1 DEF Inv, Owned, Of, Holders
  <1>2. Inv => ReferencesAreOwned
    BY <1>1 DEF ReferencesAreOwned
  <1> QED BY <1>2, Invariance, PTL

(* No proxy loses its handle to another proxy, to a collector or to the    *)
(* end of the function that returned it.                                   *)
THEOREM OwnedProxiesStayLive == Spec => []OwnedProxiesAreLive
  <1>1. ASSUME Inv, NEW p \in open, fate[p.id] = "sound" PROVE p.id \in Live
    <2>1. p \in Of(p.id) /\ p.id \in Handle
      BY <1>1 DEF Of, Inv, TypeOK, Proxy
    <2> QED BY <1>1, <2>1 DEF Inv, Owned
  <1>2. Inv => OwnedProxiesAreLive
    BY <1>1 DEF OwnedProxiesAreLive
  <1> QED BY <1>2, Invariance, PTL

(* A value has one handle, however it is reached.                          *)
THEOREM IdentityStays == Spec => []IdentityIsKept
  <1>1. Inv => IdentityIsKept
    BY DEF Inv, Known, IdentityIsKept
  <1> QED BY <1>1, Invariance, PTL

----------------------------------------------------------------------------
(* The Arrow store: counting                                               *)

(* Two sets that differ at most in x.                                      *)
LEMMA CountMove ==
  ASSUME NEW S, IsFiniteSet(S), NEW T, NEW x,
         \A y : y # x => (y \in T <=> y \in S)
  PROVE  /\ IsFiniteSet(T) /\ Cardinality(S) \in Nat /\ Cardinality(T) \in Nat
         /\ Cardinality(T) = Cardinality(S) + One(x \in T) - One(x \in S)
  <1>0. Cardinality(S) \in Nat
    BY FS_CardinalityType
  <1>1. CASE x \in T
    <2>1. T = S \cup {x}
      BY <1>1
    <2>2. /\ IsFiniteSet(T)
          /\ Cardinality(T) = IF x \in S THEN Cardinality(S) ELSE Cardinality(S) + 1
      BY <2>1, FS_AddElement
    <2>3. Cardinality(T) \in Nat
      BY <2>2, FS_CardinalityType
    <2> QED BY <1>0, <1>1, <2>2, <2>3 DEF One
  <1>2. CASE x \notin T
    <2>1. T = S \ {x}
      BY <1>2
    <2>2. /\ IsFiniteSet(T)
          /\ Cardinality(T) = IF x \in S THEN Cardinality(S) - 1 ELSE Cardinality(S)
      BY <2>1, FS_RemoveElement
    <2>3. Cardinality(T) \in Nat
      BY <2>2, FS_CardinalityType
    <2> QED BY <1>0, <1>2, <2>2, <2>3 DEF One
  <1> QED BY <1>1, <1>2

(* A queue with one element more: its length, its places, its elements.    *)
LEMMA Enqueued ==
  ASSUME NEW S, NEW q \in Seq(S), NEW e \in S, NEW r, r = Append(q, e)
  PROVE  /\ r \in Seq(S) /\ Len(r) = Len(q) + 1 /\ r # << >> /\ r[Len(r)] = e
         /\ DOMAIN r = 1..Len(r) /\ DOMAIN q = 1..Len(q) /\ Len(q) \in Nat
         /\ \A i \in DOMAIN q : r[i] = q[i]
  OBVIOUS

(* The places of a queue that hold x can be counted.                       *)
LEMMA PlacesFinite ==
  ASSUME NEW S, NEW q \in Seq(S), NEW x
  PROVE  IsFiniteSet(Places(q, x)) /\ Cardinality(Places(q, x)) \in Nat
  <1>1. IsFiniteSet(1..Len(q))
    BY FS_Interval
  <1>2. Places(q, x) \in SUBSET (1..Len(q))
    BY DEF Places
  <1> QED BY <1>1, <1>2, FS_Subset, FS_CardinalityType

(* Appending e adds a place that holds it.                                 *)
LEMMA PlacesAppend ==
  ASSUME NEW S, NEW q \in Seq(S), NEW e \in S, NEW x
  PROVE  Cardinality(Places(Append(q, e), x)) = Cardinality(Places(q, x)) + One(e = x)
  <1> DEFINE r == Append(q, e)
  <1>1. /\ r \in Seq(S) /\ Len(r) = Len(q) + 1 /\ r # << >> /\ r[Len(r)] = e
        /\ DOMAIN r = 1..Len(r) /\ DOMAIN q = 1..Len(q) /\ Len(q) \in Nat
        /\ \A i \in DOMAIN q : r[i] = q[i]
    BY Enqueued
  <1> HIDE DEF r
  <1>2. \A y : y # Len(r) => (y \in Places(r, x) <=> y \in Places(q, x))
    BY <1>1 DEF Places
  <1>3. (Len(r) \in Places(r, x) <=> e = x) /\ Len(r) \notin Places(q, x)
    BY <1>1 DEF Places
  <1>4. Cardinality(Places(r, x)) = Cardinality(Places(q, x))
          + One(Len(r) \in Places(r, x)) - One(Len(r) \in Places(q, x))
    BY <1>2, PlacesFinite, CountMove
  <1>5. Cardinality(Places(r, x)) = Cardinality(Places(q, x)) + One(e = x)
    BY <1>3, <1>4, PlacesFinite DEF One
  <1> QED BY <1>5 DEF r

(* A set that a function maps one to one onto another has as many members. *)
LEMMA SameCount ==
  ASSUME NEW A, NEW B, IsFiniteSet(A), NEW f \in [A -> B],
         \A i, k \in A : f[i] = f[k] => i = k, \A k \in B : \E i \in A : f[i] = k
  PROVE  IsFiniteSet(B) /\ Cardinality(B) = Cardinality(A)
  <1>1. ExistsBijection(A, B)
    BY DEF ExistsBijection, Bijection, Injection, Surjection, IsInjective
  <1> QED BY <1>1, FS_Bijection

(* Taking the head takes a place that holds it.                            *)
LEMMA PlacesTail ==
  ASSUME NEW S, NEW q \in Seq(S), q # << >>, NEW x
  PROVE  Cardinality(Places(Tail(q), x)) = Cardinality(Places(q, x)) - One(Head(q) = x)
  <1> DEFINE r == Tail(q)
             A == Places(r, x)
             B == Places(q, x) \ {1}
             f == [i \in A |-> i + 1]
  <1>1. /\ r \in Seq(S) /\ Len(r) = Len(q) - 1 /\ q[1] = Head(q) /\ Len(q) \in Nat
        /\ Len(q) > 0 /\ DOMAIN q = 1..Len(q) /\ DOMAIN r = 1..(Len(q) - 1)
        /\ \A i \in 1..(Len(q) - 1) : r[i] = q[i + 1]
    OBVIOUS
  <1> HIDE DEF r
  <1>2. \A i \in A : i \in 1..(Len(q) - 1) /\ q[i + 1] = x
    BY <1>1 DEF Places
  <1>3. f \in [A -> B]
    BY <1>1, <1>2 DEF Places
  <1>4. \A i, k \in A : f[i] = f[k] => i = k
    BY <1>2
  <1>5. ASSUME NEW k \in B PROVE \E i \in A : f[i] = k
    <2>1. k \in 2..Len(q) /\ q[k] = x
      BY <1>1 DEF Places
    <2>2. k - 1 \in 1..(Len(q) - 1) /\ r[k - 1] = q[k]
      BY <1>1, <2>1
    <2>3. k - 1 \in A /\ f[k - 1] = k
      BY <1>1, <2>1, <2>2 DEF Places
    <2> QED BY <2>3
  <1>6. IsFiniteSet(A)
    BY <1>1, PlacesFinite
  <1> HIDE DEF A, B, f
  <1>7. Cardinality(B) = Cardinality(A)
    BY <1>3, <1>4, <1>5, <1>6, SameCount
  <1> USE DEF A, B
  <1>8. Cardinality(B) = Cardinality(Places(q, x)) + One(1 \in B) - One(1 \in Places(q, x))
    BY PlacesFinite, CountMove
  <1>9. (1 \in Places(q, x) <=> Head(q) = x) /\ 1 \notin B
    BY <1>1 DEF Places
  <1>10. Cardinality(Places(q, x)) \in Nat
    BY PlacesFinite
  <1> HIDE DEF A, B
  <1>11. Cardinality(A) = Cardinality(Places(q, x)) - One(Head(q) = x)
    BY <1>7, <1>8, <1>9, <1>10 DEF One
  <1> QED BY <1>11 DEF A, r

----------------------------------------------------------------------------
(* The Arrow store: the invariant                                          *)

Distinct(s) == \A i, j \in DOMAIN s : s[i] = s[j] => i = j

(* What is kept in a place, and where the drain is.                        *)
KeptOK(k) == /\ k.kind = "none" => k = Nothing
             /\ k.kind # "none" => k.name \in Names /\ k.buf \in Buffer
SlotsInv == /\ \A h \in Slots : KeptOK(holder[h])
            /\ drain = "release" <=> hand # Nil
            /\ Distinct(order)

(* References, counted.                                                    *)
CountsInv == ReferencesConserved /\ \A b \in Buffer : IsFiniteSet(NamedOf(b))

(* Which Buffers have an owner, a name, a tombstone.                       *)
TablesInv ==
  /\ owned = {buffers[n] : n \in {x \in Names : buffers[x] # Nil}}
  /\ \A n, o \in Names : n # o /\ buffers[n] # Nil => buffers[n] # buffers[o]
  /\ detached = {b \in Buffer : refs[b] > 0 /\ b \notin owned}
  /\ Distinct(tombstones)
  /\ \A i \in DOMAIN tombstones : buffers[tombstones[i]] = Nil

(* A Buffer that is referenced has a memory of its own, and the callback   *)
(* of this memory if it is external; one that was never made has nothing.  *)
MemoryInv ==
  /\ \A b \in Buffer : b > made => refs[b] = 0
  /\ \A b \in Buffer : refs[b] > 0 => memory[b] \in 1..made
  /\ \A b, c \in Buffer : refs[b] > 0 /\ refs[c] > 0 /\ memory[b] = memory[c] => b = c
  /\ hooked = {b \in Buffer : refs[b] > 0 /\ memory[b] \in External}

(* A lease shows the memory that it was taken of.                          *)
LeasesInv ==
  \A h \in Slots : holder[h].kind = "lease" => memory[holder[h].buf] = holder[h].mem

StoreInv == /\ StoreTypeOK /\ SlotsInv /\ CountsInv /\ TablesInv /\ MemoryInv
            /\ ReleasedOnceUnused /\ LeasesInv /\ NamedBorrowsBalance

----------------------------------------------------------------------------
(* The Arrow store: leases, views and named borrows                        *)

(* The sets of places are finite.                                          *)
LEMMA SlotsFinite ==
  /\ \A kind, b : IsFiniteSet(Holding(kind, b)) /\ Cardinality(Holding(kind, b)) \in Nat
  /\ \A n : IsFiniteSet(Viewing(n)) /\ Cardinality(Viewing(n)) \in Nat
  <1>1. \A kind, b : Holding(kind, b) \in SUBSET Slots
    BY DEF Holding
  <1>2. \A n : Viewing(n) \in SUBSET Slots
    BY DEF Viewing
  <1>3. \A S \in SUBSET Slots : IsFiniteSet(S) /\ Cardinality(S) \in Nat
    BY ArrowStoreAssumption, FS_Subset, FS_CardinalityType
  <1> QED BY <1>1, <1>2, <1>3

Views(k, n) == k.kind \in {"view", "spill"} /\ k.name = n
Leases(k, b) == k.kind = "lease" /\ k.buf = b

(* A place that is used otherwise moves the counts of places with it.      *)
LEMMA SlotMoves ==
  ASSUME StoreTypeOK, NEW h \in Slots, NEW k \in Kept, holder' = [holder EXCEPT ![h] = k]
  PROVE  /\ holder' \in [Slots -> Kept] /\ holder'[h] = k
         /\ \A o \in Slots : o # h => holder'[o] = holder[o]
         /\ \A b : Cardinality(Holding("lease", b)') = Cardinality(Holding("lease", b))
                     + One(Leases(k, b)) - One(Leases(holder[h], b))
         /\ \A n : Cardinality(Viewing(n)') = Cardinality(Viewing(n))
                     + One(Views(k, n)) - One(Views(holder[h], n))
  <1>1. /\ holder' \in [Slots -> Kept] /\ holder'[h] = k
        /\ \A o \in Slots : o # h => holder'[o] = holder[o]
    BY DEF StoreTypeOK
  <1>2. ASSUME NEW b
        PROVE  Cardinality(Holding("lease", b)') = Cardinality(Holding("lease", b))
                     + One(Leases(k, b)) - One(Leases(holder[h], b))
    <2>1. \A y : y # h => (y \in Holding("lease", b)' <=> y \in Holding("lease", b))
      BY <1>1 DEF Holding
    <2>2. /\ h \in Holding("lease", b)' <=> Leases(k, b)
          /\ h \in Holding("lease", b) <=> Leases(holder[h], b)
      BY <1>1 DEF Holding, Leases
    <2>3. Cardinality(Holding("lease", b)') = Cardinality(Holding("lease", b))
                     + One(h \in Holding("lease", b)') - One(h \in Holding("lease", b))
      BY <2>1, SlotsFinite, CountMove
    <2> QED BY <2>2, <2>3 DEF One
  <1>3. ASSUME NEW n
        PROVE  Cardinality(Viewing(n)') = Cardinality(Viewing(n))
                     + One(Views(k, n)) - One(Views(holder[h], n))
    <2>1. \A y : y # h => (y \in Viewing(n)' <=> y \in Viewing(n))
      BY <1>1 DEF Viewing
    <2>2. /\ h \in Viewing(n)' <=> Views(k, n)
          /\ h \in Viewing(n) <=> Views(holder[h], n)
      BY <1>1 DEF Viewing, Views
    <2>3. Cardinality(Viewing(n)') = Cardinality(Viewing(n))
                     + One(h \in Viewing(n)') - One(h \in Viewing(n))
      BY <2>1, SlotsFinite, CountMove
    <2> QED BY <2>2, <2>3 DEF One
  <1> QED BY <1>1, <1>2, <1>3

(* The named borrows of b are pairs of a name and a place in its queue.    *)
NamedIn(borrows, b) ==
  {p \in Names \X Nat : p[2] \in DOMAIN borrows[p[1]] /\ borrows[p[1]][p[2]] = b}

LEMMA NamedOfIs ==
  ASSUME NEW borrows \in [Names -> Seq(Buffer)], NEW b
  PROVE  UNION {{<<n, i>> : i \in Places(borrows[n], b)} : n \in Names} = NamedIn(borrows, b)
  <1>1. \A n \in Names : \A i : i \in Places(borrows[n], b) <=>
          i \in Nat /\ i \in DOMAIN borrows[n] /\ borrows[n][i] = b
    BY DEF Places
  <1>2. \A n, i : <<n, i>>[1] = n /\ <<n, i>>[2] = i
    OBVIOUS
  <1> QED BY <1>1, <1>2 DEF NamedIn

(* A borrow of b at the end of the queue of n.                             *)
WithBorrow(borrows, n, b) == [borrows EXCEPT ![n] = Append(@, b)]
LEMMA NamedAppend ==
  ASSUME NEW borrows \in [Names -> Seq(Buffer)], NEW n \in Names, NEW b \in Buffer, NEW c,
         IsFiniteSet(NamedIn(borrows, c))
  PROVE  /\ IsFiniteSet(NamedIn(WithBorrow(borrows, n, b), c))
         /\ Cardinality(NamedIn(WithBorrow(borrows, n, b), c))
              = Cardinality(NamedIn(borrows, c)) + One(b = c)
  <1> DEFINE after == [borrows EXCEPT ![n] = Append(@, b)]
             x == <<n, Len(borrows[n]) + 1>>
  <1>1. /\ after[n] \in Seq(Buffer) /\ Len(after[n]) = Len(borrows[n]) + 1
        /\ after[n][Len(after[n])] = b /\ Len(borrows[n]) \in Nat
        /\ DOMAIN after[n] = 1..Len(after[n]) /\ DOMAIN borrows[n] = 1..Len(borrows[n])
        /\ \A i \in DOMAIN borrows[n] : after[n][i] = borrows[n][i]
    <2>1. after[n] = Append(borrows[n], b) /\ borrows[n] \in Seq(Buffer)
      OBVIOUS
    <2> QED BY <2>1, Enqueued
  <1>2. \A o \in Names : o # n => after[o] = borrows[o]
    OBVIOUS
  <1>3. \A y : y # x => (y \in NamedIn(after, c) <=> y \in NamedIn(borrows, c))
    <2> SUFFICES ASSUME NEW o \in Names, NEW i \in Nat, <<o, i>> # x
                 PROVE  <<o, i>> \in NamedIn(after, c) <=> <<o, i>> \in NamedIn(borrows, c)
      BY DEF NamedIn
    <2>1. CASE o # n
      BY <1>2, <2>1 DEF NamedIn
    <2>2. CASE o = n
      <3>1. i # Len(borrows[n]) + 1
        BY <2>2
      <3> QED BY <1>1, <2>2, <3>1 DEF NamedIn
    <2> QED BY <2>1, <2>2
  <1>4. (x \in NamedIn(after, c) <=> b = c) /\ x \notin NamedIn(borrows, c)
    BY <1>1 DEF NamedIn
  <1> HIDE DEF x, after
  <1>5. /\ IsFiniteSet(NamedIn(after, c)) /\ Cardinality(NamedIn(borrows, c)) \in Nat
        /\ Cardinality(NamedIn(after, c)) = Cardinality(NamedIn(borrows, c))
             + One(x \in NamedIn(after, c)) - One(x \in NamedIn(borrows, c))
    BY <1>3, CountMove
  <1>6. Cardinality(NamedIn(after, c)) = Cardinality(NamedIn(borrows, c)) + One(b = c)
    BY <1>4, <1>5 DEF One
  <1> QED BY <1>5, <1>6 DEF WithBorrow, after

(* The oldest borrow of n goes.                                            *)
WithoutOldest(borrows, n) == [borrows EXCEPT ![n] = Tail(@)]
LEMMA NamedTail ==
  ASSUME NEW borrows \in [Names -> Seq(Buffer)], NEW n \in Names, borrows[n] # << >>, NEW c,
         IsFiniteSet(NamedIn(borrows, c))
  PROVE  /\ IsFiniteSet(NamedIn(WithoutOldest(borrows, n), c))
         /\ Cardinality(NamedIn(WithoutOldest(borrows, n), c))
              = Cardinality(NamedIn(borrows, c)) - One(Head(borrows[n]) = c)
  <1> DEFINE after == [borrows EXCEPT ![n] = Tail(@)]
             A == NamedIn(after, c)
             B == NamedIn(borrows, c) \ {<<n, 1>>}
             f == [p \in B |-> IF p[1] = n THEN <<n, p[2] - 1>> ELSE p]
  <1>1. /\ Len(borrows[n]) \in Nat /\ Len(borrows[n]) > 0
        /\ DOMAIN borrows[n] = 1..Len(borrows[n])
        /\ DOMAIN after[n] = 1..(Len(borrows[n]) - 1) /\ borrows[n][1] = Head(borrows[n])
        /\ \A i \in DOMAIN after[n] : i + 1 \in DOMAIN borrows[n]
                                      /\ after[n][i] = borrows[n][i + 1]
    <2>1. after[n] = Tail(borrows[n]) /\ borrows[n] \in Seq(Buffer)
      OBVIOUS
    <2> QED BY <2>1
  <1>2. \A o \in Names : o # n => after[o] = borrows[o]
    OBVIOUS
  <1>3. ASSUME NEW p \in B PROVE f[p] \in A
    <2>1. PICK o \in Names, i \in Nat : p = <<o, i>>
      BY DEF NamedIn
    <2>2. CASE o # n
      BY <1>2, <2>1, <2>2 DEF NamedIn
    <2>3. CASE o = n
      <3>1. i \in 2..Len(borrows[n]) /\ borrows[n][i] = c
        BY <1>1, <2>1, <2>3 DEF NamedIn
      <3>2. i - 1 \in DOMAIN after[n] /\ after[n][i - 1] = borrows[n][(i - 1) + 1]
        BY <1>1, <3>1
      <3>3. f[p] = <<n, i - 1>> /\ after[n][i - 1] = c /\ i - 1 \in Nat
        BY <2>1, <2>3, <3>1, <3>2
      <3> QED BY <3>2, <3>3 DEF NamedIn
    <2> QED BY <2>2, <2>3
  <1>4. ASSUME NEW p \in B, NEW r \in B, f[p] = f[r] PROVE p = r
    <2>1. PICK o \in Names, i \in Nat : p = <<o, i>>
      BY DEF NamedIn
    <2>2. PICK u \in Names, k \in Nat : r = <<u, k>>
      BY DEF NamedIn
    <2>3. /\ f[p] = IF o = n THEN <<n, i - 1>> ELSE <<o, i>>
          /\ f[r] = IF u = n THEN <<n, k - 1>> ELSE <<u, k>>
      BY <2>1, <2>2
    <2> QED BY <1>4, <2>1, <2>2, <2>3
  <1>5. ASSUME NEW k \in A PROVE \E p \in B : f[p] = k
    <2>1. PICK o \in Names, i \in Nat : k = <<o, i>>
      BY DEF NamedIn
    <2>2. CASE o # n
      <3>1. k \in B /\ f[k] = k
        BY <1>2, <2>1, <2>2 DEF NamedIn
      <3> QED BY <3>1
    <2>3. CASE o = n
      <3>1. i \in DOMAIN after[n] /\ after[n][i] = c
        BY <2>1, <2>3 DEF NamedIn
      <3>2. i + 1 \in DOMAIN borrows[n] /\ borrows[n][i + 1] = c /\ i + 1 # 1
        BY <1>1, <3>1
      <3>3. <<n, i + 1>> \in B
        BY <3>2 DEF NamedIn
      <3>4. f[<<n, i + 1>>] = <<n, (i + 1) - 1>> /\ (i + 1) - 1 = i
        BY <3>3
      <3> QED BY <2>1, <2>3, <3>3, <3>4
    <2> QED BY <2>2, <2>3
  <1>6. /\ IsFiniteSet(B) /\ Cardinality(B) = Cardinality(NamedIn(borrows, c))
             + One(<<n, 1>> \in B) - One(<<n, 1>> \in NamedIn(borrows, c))
        /\ Cardinality(NamedIn(borrows, c)) \in Nat
    BY CountMove
  <1>7. (<<n, 1>> \in NamedIn(borrows, c) <=> Head(borrows[n]) = c) /\ <<n, 1>> \notin B
    BY <1>1 DEF NamedIn
  <1>8. f \in [B -> A]
    BY <1>3
  <1> HIDE DEF A, B, f
  <1>9. IsFiniteSet(A) /\ Cardinality(A) = Cardinality(B)
    BY <1>4, <1>5, <1>6, <1>8, SameCount
  <1>10. Cardinality(A) = Cardinality(NamedIn(borrows, c)) - One(Head(borrows[n]) = c)
    BY <1>6, <1>7, <1>9 DEF One
  <1> QED BY <1>9, <1>10 DEF A, WithoutOldest

----------------------------------------------------------------------------
(* The Arrow store: tombstones                                             *)

(* A sequence without one of its elements.                                 *)
LEMMA WithoutOne ==
  ASSUME NEW S, NEW s \in Seq(S), NEW k \in 1..Len(s), NEW t, t = RemoveAt(s, k)
  PROVE  /\ t \in Seq(S) /\ Len(t) = Len(s) - 1 /\ DOMAIN t = 1..(Len(s) - 1)
         /\ \A i \in DOMAIN t : /\ i < k => t[i] = s[i]
                                /\ i >= k => t[i] = s[i + 1] /\ i + 1 \in 1..Len(s)
  <1> DEFINE u == SubSeq(s, 1, k - 1)
             v == SubSeq(s, k + 1, Len(s))
  <1>1. Len(s) \in Nat /\ DOMAIN s = 1..Len(s)
    OBVIOUS
  <1>4. t = u \o v
    BY DEF RemoveAt
  <1> HIDE DEF u, v
  <1>2. /\ u \in Seq(S) /\ Len(u) = k - 1 /\ \A i \in 1..(k - 1) : u[i] = s[i]
    <2>1. /\ u \in Seq(S) /\ Len(u) = IF 1 <= k - 1 THEN (k - 1) - 1 + 1 ELSE 0
          /\ \A i \in 1..((k - 1) - 1 + 1) : u[i] = s[1 + i - 1]
      BY <1>1, SubSeqProperties DEF u
    <2>2. (k - 1) - 1 + 1 = k - 1 /\ \A i \in 1..(k - 1) : 1 + i - 1 = i
      BY <1>1
    <2> QED BY <1>1, <2>1, <2>2
  <1>3. /\ v \in Seq(S) /\ Len(v) = Len(s) - k
        /\ \A i \in 1..(Len(s) - k) : v[i] = s[i + k]
    <2>1. /\ v \in Seq(S)
          /\ Len(v) = IF k + 1 <= Len(s) THEN Len(s) - (k + 1) + 1 ELSE 0
          /\ \A i \in 1..(Len(s) - (k + 1) + 1) : v[i] = s[(k + 1) + i - 1]
      BY <1>1, SubSeqProperties DEF v
    <2>2. Len(s) - (k + 1) + 1 = Len(s) - k
          /\ \A i \in 1..(Len(s) - k) : (k + 1) + i - 1 = i + k
      BY <1>1
    <2>a. \A m \in Nat : \A j \in 1..m :
            (IF j + 1 <= m THEN m - (j + 1) + 1 ELSE 0) = m - j
      OBVIOUS
    <2>3. Len(v) = Len(s) - k
      BY <1>1, <2>1, <2>a
    <2>4. ASSUME NEW i \in 1..(Len(s) - k) PROVE v[i] = s[i + k]
      <3>1. v[i] = s[(k + 1) + i - 1]
        BY <2>1, <2>2
      <3> QED BY <2>2, <3>1
    <2> QED BY <2>1, <2>3, <2>4
  <1>5. /\ t \in Seq(S) /\ Len(t) = Len(u) + Len(v) /\ DOMAIN t = 1..Len(t)
        /\ \A i \in DOMAIN t :
             t[i] = IF i <= Len(u) THEN u[i] ELSE v[i - Len(u)]
    <2>1. /\ u \o v \in Seq(S) /\ Len(u \o v) = Len(u) + Len(v)
          /\ \A i \in 1..(Len(u) + Len(v)) :
               (u \o v)[i] = IF i <= Len(u) THEN u[i] ELSE v[i - Len(u)]
      BY <1>2, <1>3, ConcatProperties
    <2>2. DOMAIN t = 1..Len(t) /\ Len(t) = Len(u) + Len(v)
      BY <1>4, <2>1
    <2> QED BY <1>4, <2>1, <2>2
  <1>6. Len(t) = Len(s) - 1
    BY <1>1, <1>2, <1>3, <1>5
  <1>7. ASSUME NEW i \in DOMAIN t, i < k PROVE t[i] = s[i]
    <2>1. i \in 1..(k - 1)
      BY <1>1, <1>5, <1>6, <1>7
    <2>2. t[i] = u[i]
      BY <1>1, <1>2, <1>5, <2>1
    <2> QED BY <1>2, <2>1, <2>2
  <1>8. ASSUME NEW i \in DOMAIN t, i >= k PROVE t[i] = s[i + 1] /\ i + 1 \in 1..Len(s)
    <2>1. i \in 1..(Len(s) - 1) /\ t[i] = v[i - (k - 1)]
      BY <1>1, <1>2, <1>5, <1>6, <1>8
    <2>2. i - (k - 1) \in 1..(Len(s) - k) /\ (i - (k - 1)) + k = i + 1
      BY <1>1, <1>8, <2>1
    <2> QED BY <1>1, <1>3, <2>1, <2>2
  <1> QED BY <1>5, <1>6, <1>7, <1>8

(* Where the name of a tombstone stands.                                   *)
LEMMA FirstIs ==
  ASSUME NEW s, Distinct(s), DOMAIN s = 1..Len(s), Len(s) \in Nat,
         NEW k \in 1..Len(s), NEW e, s[k] = e
  PROVE  RemoveFirst(s, e) = RemoveAt(s, k)
  <1> DEFINE I == {i \in 1..Len(s) : s[i] = e}
  <1>1. I = {k}
    BY DEF Distinct
  <1>2. Min(I) = k
    BY <1>1 DEF Min
  <1> HIDE DEF I
  <1>3. RemoveFirst(s, e) = RemoveAt(s, IF I # {} THEN Min(I) ELSE 0)
    BY DEF RemoveFirst, SelectInSeq, I
  <1> QED BY <1>1, <1>2, <1>3

LEMMA Forgets ==
  ASSUME NEW n \in Names, tombstones \in Seq(Names), Distinct(tombstones), NEW t,
         t = ForgetReleased(n)
  PROVE  /\ t \in Seq(Names) /\ Len(t) <= Len(tombstones) /\ Distinct(t)
         /\ \A i \in DOMAIN t : /\ t[i] # n
                                /\ \E j \in DOMAIN tombstones : t[i] = tombstones[j]
  <1>1. DOMAIN tombstones = 1..Len(tombstones) /\ Len(tombstones) \in Nat
    OBVIOUS
  <1>2. CASE \E i \in 1..Len(tombstones) : tombstones[i] = n
    <2>1. PICK k \in 1..Len(tombstones) : tombstones[k] = n
      BY <1>2
    <2>2. RemoveFirst(tombstones, n) = RemoveAt(tombstones, k)
      BY <1>1, <2>1, FirstIs
    <2>3. t = RemoveAt(tombstones, k)
      BY <2>2 DEF ForgetReleased
    <2>4. /\ t \in Seq(Names) /\ Len(t) = Len(tombstones) - 1
          /\ DOMAIN t = 1..(Len(tombstones) - 1)
          /\ \A i \in DOMAIN t :
               /\ i < k => t[i] = tombstones[i]
               /\ i >= k => t[i] = tombstones[i + 1] /\ i + 1 \in 1..Len(tombstones)
      BY <2>3, WithoutOne
    <2>5. ASSUME NEW i \in DOMAIN t
          PROVE  \E j \in DOMAIN tombstones :
                   j # k /\ t[i] = tombstones[j] /\ j = IF i < k THEN i ELSE i + 1
      <3>1. i \in 1..(Len(tombstones) - 1)
        BY <2>4
      <3>2. CASE i < k
        BY <1>1, <2>4, <3>1, <3>2
      <3>3. CASE ~(i < k)
        BY <1>1, <2>4, <3>1, <3>3
      <3> QED BY <3>2, <3>3
    <2>6. \A i \in DOMAIN t : t[i] # n
      BY <1>1, <2>1, <2>5 DEF Distinct
    <2>7. Distinct(t)
      <3> SUFFICES ASSUME NEW i \in DOMAIN t, NEW j \in DOMAIN t, t[i] = t[j] PROVE i = j
        BY DEF Distinct
      <3>1. (IF i < k THEN i ELSE i + 1) = (IF j < k THEN j ELSE j + 1)
        BY <2>5 DEF Distinct
      <3> QED BY <2>4, <3>1
    <2> QED BY <1>1, <2>4, <2>5, <2>6, <2>7
  <1>3. CASE ~\E i \in 1..Len(tombstones) : tombstones[i] = n
    <2>1. t = tombstones
      BY <1>3 DEF ForgetReleased, RemoveFirst
    <2> QED BY <1>1, <1>3, <2>1
  <1> QED BY <1>2, <1>3

LEMMA Marks ==
  ASSUME NEW n \in Names, tombstones \in Seq(Names), Distinct(tombstones),
         Len(tombstones) <= MaxTombstones, NEW t, t = MarkReleased(n)
  PROVE  /\ t \in Seq(Names) /\ Len(t) <= MaxTombstones /\ Distinct(t)
         /\ \A i \in DOMAIN t :
              t[i] = n \/ \E j \in DOMAIN tombstones : t[i] = tombstones[j]
  <1>1. DOMAIN tombstones = 1..Len(tombstones) /\ Len(tombstones) \in Nat
    OBVIOUS
  <1>2. CASE n \in ToSet(tombstones)
    BY <1>2 DEF MarkReleased
  <1>3. CASE n \notin ToSet(tombstones)
    <2> DEFINE all == Append(tombstones, n)
    <2>1. /\ all \in Seq(Names) /\ Len(all) = Len(tombstones) + 1 /\ all[Len(all)] = n
          /\ DOMAIN all = 1..Len(all) /\ \A i \in DOMAIN tombstones : all[i] = tombstones[i]
      BY Enqueued
    <2>2. \A i \in DOMAIN tombstones : tombstones[i] # n
      BY <1>3 DEF ToSet
    <2>3. t = IF Len(all) > MaxTombstones THEN Tail(all) ELSE all
      BY <1>3 DEF MarkReleased
    <2> HIDE DEF all
    <2>4. Distinct(all) /\ \A i \in DOMAIN all :
            all[i] = n \/ \E j \in DOMAIN tombstones : all[i] = tombstones[j]
      BY <1>1, <2>1, <2>2 DEF Distinct
    <2>5. CASE Len(all) > MaxTombstones
      <3>1. t = Tail(all) /\ all # << >>
        BY <1>1, <2>1, <2>3, <2>5
      <3>2. /\ t \in Seq(Names) /\ Len(t) = Len(all) - 1 /\ DOMAIN t \in SUBSET Nat
            /\ \A j \in DOMAIN t : j + 1 \in DOMAIN all /\ t[j] = all[j + 1]
        BY <2>1, <3>1, Tailed
      <3>3. Distinct(t)
        <4> SUFFICES ASSUME NEW i \in DOMAIN t, NEW j \in DOMAIN t, t[i] = t[j] PROVE i = j
          BY DEF Distinct
        <4>1. i + 1 = j + 1
          BY <2>4, <3>2 DEF Distinct
        <4> QED BY <3>2, <4>1
      <3>4. Len(t) <= MaxTombstones
        BY <1>1, <2>1, <3>2, ArrowStoreAssumption
      <3> QED BY <2>4, <3>2, <3>3, <3>4
    <2>6. CASE ~(Len(all) > MaxTombstones)
      BY <1>1, <2>1, <2>3, <2>4, <2>6, ArrowStoreAssumption
    <2> QED BY <2>5, <2>6
  <1> QED BY <1>2, <1>3

----------------------------------------------------------------------------
(* The Arrow store: memory and references                                  *)

(* What the invariant says of one Buffer.                                  *)
LEMMA BufferIs ==
  ASSUME StoreInv, NEW b \in Buffer
  PROVE  /\ refs[b] \in Nat /\ borrowRefs[b] \in Nat
         /\ refs[b] = One(b \in owned) + borrowRefs[b]
         /\ borrowRefs[b] = Cardinality(Holding("lease", b)) + Cardinality(NamedOf(b))
         /\ IsFiniteSet(NamedOf(b)) /\ Cardinality(NamedOf(b)) \in Nat
         /\ Cardinality(Holding("lease", b)) \in Nat
  <1>1. refs[b] \in Nat /\ borrowRefs[b] \in Nat
    BY DEF StoreInv, StoreTypeOK
  <1>2. /\ refs[b] = One(b \in owned) + borrowRefs[b]
        /\ borrowRefs[b] = Cardinality(Holding("lease", b)) + Cardinality(NamedOf(b))
        /\ IsFiniteSet(NamedOf(b))
    BY DEF StoreInv, CountsInv, ReferencesConserved
  <1> QED BY <1>1, <1>2, SlotsFinite, FS_CardinalityType

(* Nobody leases a Buffer without borrows, and its owner is the name's.    *)
LEMMA UnborrowedIs ==
  ASSUME StoreInv, NEW b \in Buffer, borrowRefs[b] = 0
  PROVE  \A h \in Slots : ~(holder[h].kind = "lease" /\ holder[h].buf = b)
  <1>1. Cardinality(Holding("lease", b)) = 0
    BY BufferIs
  <1>2. Holding("lease", b) = {}
    BY <1>1, SlotsFinite, FS_EmptySet
  <1> QED BY <1>2 DEF Holding

(* A Buffer with an owner is bound to a name, and is referenced.           *)
LEMMA BoundIs ==
  ASSUME StoreInv, NEW n \in Names, buffers[n] # Nil
  PROVE  /\ buffers[n] \in Buffer /\ buffers[n] \in owned /\ refs[buffers[n]] > 0
         /\ \A o \in Names : o # n => buffers[o] # buffers[n]
         /\ buffers[n] \notin detached
         /\ memory[buffers[n]] \in 1..made /\ memory[buffers[n]] \in Memory
  <1>1. buffers[n] \in Buffer
    BY DEF StoreInv, StoreTypeOK
  <1>2. buffers[n] \in owned /\ \A o \in Names : o # n => buffers[o] # buffers[n]
    BY DEF StoreInv, TablesInv
  <1>3. refs[buffers[n]] > 0
    BY <1>1, <1>2, BufferIs DEF One
  <1>4. buffers[n] \notin detached
    BY <1>2 DEF StoreInv, TablesInv
  <1>5. memory[buffers[n]] \in 1..made /\ made \in 0..MaxMemory
    BY <1>1, <1>3 DEF StoreInv, MemoryInv, StoreTypeOK
  <1>6. memory[buffers[n]] \in Memory
    BY <1>5, ArrowStoreAssumption DEF Memory
  <1> QED BY <1>1, <1>2, <1>3, <1>4, <1>5, <1>6

(* The memory that comes next, and its Buffer, have nothing yet.           *)
LEMMA FreshIs ==
  ASSUME StoreInv, made < MaxMemory, NEW m, m = made + 1
  PROVE  /\ m \in Buffer /\ m \in Memory /\ m # Nil /\ m \in 0..MaxMemory /\ made \in Nat
         /\ refs[m] = 0 /\ borrowRefs[m] = 0 /\ m \notin owned /\ m \notin detached
         /\ m \notin hooked /\ freed[m] = 0 /\ ~Backed(m)
         /\ \A b \in Buffer : refs[b] > 0 => b # m /\ memory[b] # m
         /\ \A n \in Names : buffers[n] # m
         /\ \A x \in Memory : x <= m <=> x <= made \/ x = m
  <1>1. made \in Nat /\ made < m /\ m \in Buffer /\ m \in Memory /\ m # Nil
        /\ m \in 0..MaxMemory /\ \A x \in Memory : x <= m <=> x <= made \/ x = m
    BY ArrowStoreAssumption DEF StoreInv, StoreTypeOK, Buffer, Memory, Nil
  <1>2. refs[m] = 0
    BY <1>1 DEF StoreInv, MemoryInv
  <1>3. borrowRefs[m] = 0 /\ m \notin owned
    BY <1>1, <1>2, BufferIs DEF One
  <1>4. m \notin detached /\ m \notin hooked
    BY <1>2 DEF StoreInv, TablesInv, MemoryInv
  <1>5. \A b \in Buffer : refs[b] > 0 => b # m /\ memory[b] # m
    BY <1>1, <1>2 DEF StoreInv, MemoryInv
  <1>6. ~Backed(m)
    BY <1>5 DEF Backed
  <1>7. freed[m] = 0
    BY <1>1, <1>6 DEF StoreInv, ReleasedOnceUnused, One
  <1>8. \A n \in Names : buffers[n] # m
    BY <1>1, <1>3, BoundIs
  <1> QED BY <1>1, <1>2, <1>3, <1>4, <1>5, <1>6, <1>7, <1>8

MemoryTypes == /\ hooked' \subseteq Buffer /\ freed' \in [Memory -> Nat]
               /\ memory' \in [Buffer -> Memory \cup {Nil}]

(* The same Buffers are referenced, and have what they had.                *)
LEMMA MemoryStays ==
  ASSUME StoreInv, UNCHANGED <<made, memory, hooked, freed>>,
         \A b \in Buffer : refs'[b] > 0 <=> refs[b] > 0, refs' \in [Buffer -> Nat]
  PROVE  MemoryInv' /\ ReleasedOnceUnused' /\ MemoryTypes
  <1>1. \A b \in Buffer : refs[b] \in Nat /\ refs'[b] \in Nat
    BY DEF StoreInv, StoreTypeOK
  <1>2. MemoryInv'
    BY <1>1 DEF StoreInv, MemoryInv
  <1>3. \A m : Backed(m)' <=> Backed(m)
    BY DEF Backed
  <1>4. ReleasedOnceUnused'
    BY <1>3 DEF StoreInv, ReleasedOnceUnused, One
  <1> QED BY <1>2, <1>4 DEF MemoryTypes, StoreInv, StoreTypeOK

(* Memory m comes into the store with a Buffer of its own.                 *)
LEMMA MemoryComes ==
  ASSUME StoreInv, made < MaxMemory, NEW m, m = made + 1, made' = m, NEW n, Publish(n, m),
         \A b \in Buffer : b # m => (refs'[b] > 0 <=> refs[b] > 0), refs'[m] > 0,
         refs' \in [Buffer -> Nat]
  PROVE  MemoryInv' /\ ReleasedOnceUnused' /\ MemoryTypes
  <1>1. /\ memory' = [memory EXCEPT ![m] = m] /\ freed' = freed
        /\ hooked' = IF m \in External THEN hooked \cup {m} ELSE hooked
    BY DEF Publish
  <1>2. /\ m \in Buffer /\ m \in Memory /\ made \in Nat /\ m \notin hooked
        /\ refs[m] = 0 /\ freed[m] = 0 /\ ~Backed(m)
        /\ \A b \in Buffer : refs[b] > 0 => b # m /\ memory[b] # m
        /\ \A x \in Memory : x <= m <=> x <= made \/ x = m
    BY FreshIs
  <1>3. /\ memory \in [Buffer -> Memory \cup {Nil}] /\ hooked \subseteq Buffer
        /\ freed \in [Memory -> Nat]
        /\ \A b \in Buffer : refs[b] \in Nat /\ refs'[b] \in Nat
    BY DEF StoreInv, StoreTypeOK
  <1>4. /\ memory' \in [Buffer -> Memory \cup {Nil}] /\ memory'[m] = m
        /\ \A b \in Buffer : b # m => memory'[b] = memory[b]
    BY <1>1, <1>2, <1>3
  <1>5. MemoryTypes
    BY <1>1, <1>2, <1>3, <1>4 DEF MemoryTypes
  <1>6. MemoryInv'
    <2>1. ASSUME NEW b \in Buffer, b > made' PROVE refs'[b] = 0
      <3>1. b # m /\ b > made
        BY <1>2, <2>1 DEF Buffer, Memory
      <3>2. refs[b] = 0
        BY <3>1 DEF StoreInv, MemoryInv
      <3> QED BY <1>3, <3>1, <3>2
    <2>2. ASSUME NEW b \in Buffer, refs'[b] > 0 PROVE memory'[b] \in 1..made'
      <3>1. CASE b = m
        BY <1>2, <1>4, <3>1
      <3>2. CASE b # m
        <4>1. memory[b] \in 1..made
          BY <2>2, <3>2 DEF StoreInv, MemoryInv
        <4> QED BY <1>2, <1>4, <3>2, <4>1
      <3> QED BY <3>1, <3>2
    <2>3. ASSUME NEW b \in Buffer, NEW c \in Buffer, refs'[b] > 0, refs'[c] > 0,
                 memory'[b] = memory'[c]
          PROVE  b = c
      BY <1>2, <1>4, <2>3 DEF StoreInv, MemoryInv
    <2>4. hooked' = {b \in Buffer : refs'[b] > 0 /\ memory'[b] \in External}
      <3>1. hooked = {b \in Buffer : refs[b] > 0 /\ memory[b] \in External}
        BY DEF StoreInv, MemoryInv
      <3>2. ASSUME NEW b \in Buffer
            PROVE  b \in hooked' <=> refs'[b] > 0 /\ memory'[b] \in External
        BY <1>1, <1>2, <1>4, <3>1
      <3> QED BY <1>5, <3>2 DEF MemoryTypes
    <2> QED BY <2>1, <2>2, <2>3, <2>4 DEF MemoryInv
  <1>7. ReleasedOnceUnused'
    <2> SUFFICES ASSUME NEW x \in Memory
                 PROVE  freed'[x] = One(x \in External /\ x <= made' /\ ~Backed(x)')
      BY DEF ReleasedOnceUnused
    <2>1. freed[x] = One(x \in External /\ x <= made /\ ~Backed(x))
      BY DEF StoreInv, ReleasedOnceUnused
    <2>2. CASE x = m
      BY <1>1, <1>2, <1>4, <2>2 DEF Backed, One
    <2>3. CASE x # m
      <3>1. Backed(x)' <=> Backed(x)
        BY <1>2, <1>4, <2>3 DEF Backed
      <3> QED BY <1>1, <1>2, <2>1, <2>3, <3>1 DEF One
    <2> QED BY <2>2, <2>3
  <1> QED BY <1>5, <1>6, <1>7

(* A reference of b goes, and with the last one its memory.                *)
LEMMA MemoryGoes ==
  ASSUME StoreInv, NEW b \in Buffer, refs[b] > 0, refs' = [refs EXCEPT ![b] = @ - 1],
         TakeRelease(b), UNCHANGED <<made, memory>>
  PROVE  /\ MemoryInv' /\ ReleasedOnceUnused' /\ MemoryTypes
         /\ refs' \in [Buffer -> Nat] /\ refs'[b] = refs[b] - 1
         /\ \A c \in Buffer : c # b => refs'[c] = refs[c]
  <1>1. /\ memory \in [Buffer -> Memory \cup {Nil}] /\ hooked \subseteq Buffer
        /\ freed \in [Memory -> Nat] /\ refs \in [Buffer -> Nat] /\ made \in 0..MaxMemory
    BY DEF StoreInv, StoreTypeOK
  <1>2. /\ refs' \in [Buffer -> Nat] /\ refs'[b] = refs[b] - 1
        /\ \A c \in Buffer : c # b => refs'[c] = refs[c]
    BY <1>1
  <1>3. hooked = {c \in Buffer : refs[c] > 0 /\ memory[c] \in External}
    BY DEF StoreInv, MemoryInv
  <1>4. memory[b] \in 1..made /\ memory[b] \in Memory
    <2>1. memory[b] \in 1..made
      BY DEF StoreInv, MemoryInv
    <2> QED BY <1>1, <2>1, ArrowStoreAssumption DEF Memory
  <1>5. CASE refs[b] = 1
    <2>1. refs'[b] = 0
      BY <1>2, <1>5
    <2>2. /\ hooked' = hooked \ {b}
          /\ freed' = IF b \in hooked THEN [freed EXCEPT ![memory[b]] = @ + 1] ELSE freed
      BY <2>1 DEF TakeRelease
    <2>3. MemoryTypes
      BY <1>1, <1>4, <2>2 DEF MemoryTypes
    <2>4. MemoryInv'
      <3>1. \A c \in Buffer : c > made' => refs'[c] = 0
        BY <1>2, <2>1 DEF StoreInv, MemoryInv
      <3>2. \A c \in Buffer : refs'[c] > 0 => refs[c] > 0 /\ c # b
        BY <1>2, <2>1
      <3>3. hooked' = {c \in Buffer : refs'[c] > 0 /\ memory'[c] \in External}
        BY <1>2, <1>3, <2>1, <2>2
      <3> QED BY <3>1, <3>2, <3>3 DEF StoreInv, MemoryInv
    <2>5. ReleasedOnceUnused'
      <3> SUFFICES ASSUME NEW x \in Memory
                   PROVE  freed'[x] = One(x \in External /\ x <= made' /\ ~Backed(x)')
        BY DEF ReleasedOnceUnused
      <3>1. freed[x] = One(x \in External /\ x <= made /\ ~Backed(x))
        BY DEF StoreInv, ReleasedOnceUnused
      <3>2. CASE x = memory[b]
        <4>1. Backed(x) /\ freed[x] = 0
          BY <3>1, <3>2 DEF Backed, One
        <4>2. ~Backed(x)'
          <5>1. \A c \in Buffer : refs[c] > 0 /\ memory[c] = memory[b] => c = b
            BY DEF StoreInv, MemoryInv
          <5> QED BY <1>2, <2>1, <3>2, <5>1 DEF Backed
        <4>3. freed'[x] = IF x \in External THEN 1 ELSE 0
          BY <1>1, <1>3, <2>2, <3>2, <4>1
        <4>4. x <= made'
          BY <1>4, <3>2
        <4> QED BY <4>2, <4>3, <4>4 DEF One
      <3>3. CASE x # memory[b]
        <4>1. Backed(x)' <=> Backed(x)
          BY <1>2, <2>1, <3>3 DEF Backed
        <4>2. freed'[x] = freed[x]
          BY <1>1, <2>2, <3>3
        <4> QED BY <3>1, <4>1, <4>2 DEF One
      <3> QED BY <3>2, <3>3
    <2> QED BY <1>2, <2>3, <2>4, <2>5
  <1>6. CASE refs[b] # 1
    <2>1. refs'[b] > 0 /\ \A c \in Buffer : refs'[c] > 0 <=> refs[c] > 0
      BY <1>1, <1>2, <1>6
    <2>2. UNCHANGED <<hooked, freed>>
      BY <1>2, <2>1 DEF TakeRelease
    <2> QED BY <1>2, <2>1, <2>2, MemoryStays
  <1> QED BY <1>5, <1>6

(* The counts stand when nobody takes or gives back a borrow.              *)
LEMMA CountsStand ==
  ASSUME StoreInv, UNCHANGED <<holder, namedBorrows>>,
         \A b \in Buffer : /\ borrowRefs'[b] = borrowRefs[b]
                           /\ refs'[b] = One(b \in owned') + borrowRefs[b]
  PROVE  CountsInv'
  <1>1. \A b : Holding("lease", b)' = Holding("lease", b) /\ NamedOf(b)' = NamedOf(b)
    BY DEF Holding, NamedOf, Places
  <1>2. \A b \in Buffer :
          /\ refs'[b] = One(b \in owned') + borrowRefs'[b]
          /\ borrowRefs'[b] = Cardinality(Holding("lease", b)') + Cardinality(NamedOf(b)')
          /\ IsFiniteSet(NamedOf(b)')
    BY <1>1 DEF StoreInv, CountsInv, ReferencesConserved
  <1> QED BY <1>2 DEF CountsInv, ReferencesConserved, One

(* What is kept, queued and drained stands when only Buffers change.       *)
LEMMA KeptStands ==
  ASSUME StoreInv, UNCHANGED <<namedBorrows, deferVars, drainVars, holder>>
  PROVE  /\ SlotsInv' /\ NamedBorrowsBalance'
         /\ namedBorrows' \in [Names -> Seq(Buffer)] /\ holder' \in [Slots -> Kept]
         /\ deferred' \in Seq(Names) /\ Len(deferred') <= QueueCapacity
         /\ order' \in Seq(Names) /\ Len(order') <= MaxOverflow
         /\ counts' \in [Names -> Nat] /\ lost' \in [Names -> Nat]
         /\ drain' \in {"queue", "overflow", "release"} /\ hand' \in Names \cup {Nil}
  <1>1. SlotsInv'
    BY DEF StoreInv, SlotsInv, deferVars, drainVars, KeptOK, Distinct
  <1>2. ASSUME NEW n \in Names PROVE Coming(n)'
    <2>1. Coming(n)
      BY DEF StoreInv, NamedBorrowsBalance
    <2>2. Viewing(n)' = Viewing(n) /\ Places(deferred, n)' = Places(deferred, n)
      BY DEF Viewing, Places, deferVars
    <2>3. ToSet(order)' = ToSet(order)
      BY DEF ToSet, deferVars
    <2> QED BY <2>1, <2>2, <2>3 DEF Coming, deferVars, drainVars, One
  <1> QED BY <1>1, <1>2 DEF NamedBorrowsBalance, StoreInv, StoreTypeOK, deferVars, drainVars

(* Leases keep their memory as long as no leased Buffer gets another.      *)
LEMMA LeasesStand ==
  ASSUME StoreInv, UNCHANGED holder,
         \A b \in Buffer : borrowRefs[b] > 0 => memory'[b] = memory[b]
  PROVE  LeasesInv'
  <1> SUFFICES ASSUME NEW h \in Slots, holder[h].kind = "lease"
               PROVE  memory'[holder[h].buf] = holder[h].mem
    BY DEF LeasesInv
  <1>1. holder[h].buf \in Buffer
    BY DEF StoreInv, SlotsInv, KeptOK
  <1>2. borrowRefs[holder[h].buf] # 0
    BY <1>1, UnborrowedIs
  <1>3. borrowRefs[holder[h].buf] > 0
    BY <1>1, <1>2, BufferIs
  <1> QED BY <1>1, <1>3 DEF StoreInv, LeasesInv

(* The tombstone of a name goes when it is bound again, in the same or in  *)
(* a new Buffer.                                                           *)
LEMMA TombstonesAfterSet ==
  ASSUME StoreInv, NEW n \in Names, tombstones' = ForgetReleased(n),
         \A o \in Names : o # n => buffers'[o] = buffers[o]
  PROVE  /\ tombstones' \in Seq(Names) /\ Len(tombstones') <= MaxTombstones
         /\ Distinct(tombstones')
         /\ \A i \in DOMAIN tombstones' : buffers'[tombstones'[i]] = Nil
  <1>1. /\ tombstones \in Seq(Names) /\ Len(tombstones) <= MaxTombstones
        /\ Distinct(tombstones) /\ \A i \in DOMAIN tombstones : buffers[tombstones[i]] = Nil
    BY DEF StoreInv, StoreTypeOK, TablesInv
  <1>2. PICK t : t = ForgetReleased(n)
    OBVIOUS
  <1>3. /\ t \in Seq(Names) /\ Len(t) <= Len(tombstones) /\ Distinct(t)
        /\ \A i \in DOMAIN t : /\ t[i] # n
                               /\ \E j \in DOMAIN tombstones : t[i] = tombstones[j]
    BY <1>1, <1>2, Forgets
  <1>4. tombstones' = t
    BY <1>2
  <1>5. Len(t) <= MaxTombstones
    <2>1. Len(t) \in Nat /\ Len(tombstones) \in Nat
      BY <1>1, <1>3
    <2> QED BY <1>1, <1>3, <2>1, ArrowStoreAssumption
  <1>6. ASSUME NEW i \in DOMAIN t PROVE buffers'[t[i]] = Nil
    <2>1. t[i] \in Names /\ t[i] # n
      BY <1>3
    <2>2. buffers[t[i]] = Nil
      <3>1. PICK j \in DOMAIN tombstones : t[i] = tombstones[j]
        BY <1>3
      <3> QED BY <1>1, <3>1
    <2> QED BY <2>1, <2>2
  <1> QED BY <1>3, <1>4, <1>5, <1>6

(* A new Buffer m is bound to n: it is the only one with this owner.       *)
LEMMA TablesAfterBind ==
  ASSUME StoreInv, NEW n \in Names, NEW m \in Buffer, m \notin owned, m # Nil,
         buffers' = [buffers EXCEPT ![n] = m],
         owned' = (owned \ {buffers[n]}) \cup {m}, tombstones' = ForgetReleased(n),
         detached' = {b \in Buffer : refs'[b] > 0 /\ b \notin owned'}
  PROVE  TablesInv' /\ buffers' \in [Names -> Buffer \cup {Nil}] /\ owned' \subseteq Buffer
         /\ detached' \subseteq Buffer
         /\ tombstones' \in Seq(Names) /\ Len(tombstones') <= MaxTombstones
  <1>1. /\ buffers \in [Names -> Buffer \cup {Nil}]
        /\ \A o, p \in Names : o # p /\ buffers[o] # Nil => buffers[o] # buffers[p]
        /\ \A b : b \in owned <=> \E o \in Names : buffers[o] # Nil /\ b = buffers[o]
        /\ owned \subseteq Buffer
    BY DEF StoreInv, StoreTypeOK, TablesInv
  <1>2. /\ buffers' \in [Names -> Buffer \cup {Nil}] /\ buffers'[n] = m
        /\ \A o \in Names : o # n => buffers'[o] = buffers[o]
    BY <1>1
  <1>3. owned' = {buffers'[o] : o \in {x \in Names : buffers'[x] # Nil}}
    <2>1. ASSUME NEW b PROVE b \in owned' <=> \E o \in Names : buffers'[o] # Nil /\ b = buffers'[o]
      <3>1. CASE b = m
        BY <1>2, <3>1
      <3>2. CASE b # m
        BY <1>1, <1>2, <3>2
      <3> QED BY <3>1, <3>2
    <2> QED BY <2>1
  <1>4. \A o, p \in Names : o # p /\ buffers'[o] # Nil => buffers'[o] # buffers'[p]
    BY <1>1, <1>2
  <1>5. /\ tombstones' \in Seq(Names) /\ Len(tombstones') <= MaxTombstones
        /\ Distinct(tombstones')
        /\ \A i \in DOMAIN tombstones' : buffers'[tombstones'[i]] = Nil
    BY <1>2, TombstonesAfterSet
  <1>6. owned' \subseteq Buffer
    BY <1>1
  <1>7. TablesInv'
    BY <1>3, <1>4, <1>5 DEF TablesInv, Distinct
  <1> QED BY <1>2, <1>5, <1>6, <1>7

(* What is left to show once each part of the invariant is known.          *)
LEMMA Assembled ==
  ASSUME made' \in 0..MaxMemory, buffers' \in [Names -> Buffer \cup {Nil}],
         refs' \in [Buffer -> Nat], borrowRefs' \in [Buffer -> Nat], owned' \subseteq Buffer,
         MemoryTypes, detached' \subseteq Buffer, tombstones' \in Seq(Names),
         Len(tombstones') <= MaxTombstones,
         namedBorrows' \in [Names -> Seq(Buffer)], holder' \in [Slots -> Kept],
         deferred' \in Seq(Names), Len(deferred') <= QueueCapacity,
         order' \in Seq(Names), Len(order') <= MaxOverflow,
         counts' \in [Names -> Nat], lost' \in [Names -> Nat],
         drain' \in {"queue", "overflow", "release"}, hand' \in Names \cup {Nil},
         SlotsInv', CountsInv', TablesInv', MemoryInv', ReleasedOnceUnused', LeasesInv',
         NamedBorrowsBalance'
  PROVE  StoreInv'
  <1>1. StoreTypeOK'
    BY DEF StoreTypeOK, MemoryTypes
  <1> QED BY <1>1 DEF StoreInv

----------------------------------------------------------------------------
(* The Arrow store: setting and freeing names                              *)

LEMMA CreateKeeps ==
  ASSUME StoreInv, NEW n \in Names, made < MaxMemory, NEW m, m = made + 1, made' = m,
         Create(n, m), tombstones' = ForgetReleased(n),
         UNCHANGED <<namedBorrows, deferVars, drainVars, holder>>
  PROVE  StoreInv'
  <1>1. /\ buffers[n] = Nil /\ buffers' = [buffers EXCEPT ![n] = m] /\ Publish(n, m)
        /\ refs' = [refs EXCEPT ![m] = 1] /\ owned' = owned \cup {m} /\ detached' = detached
        /\ borrowRefs' = borrowRefs /\ memory' = [memory EXCEPT ![m] = m]
    BY DEF Create, Publish
  <1>2. /\ m \in Buffer /\ m # Nil /\ m \in 0..MaxMemory /\ refs[m] = 0 /\ borrowRefs[m] = 0
        /\ m \notin owned /\ m \notin detached
        /\ \A b \in Buffer : refs[b] > 0 => b # m
    BY FreshIs
  <1>3. /\ refs \in [Buffer -> Nat] /\ owned \subseteq Buffer /\ Nil \notin Buffer
        /\ borrowRefs \in [Buffer -> Nat] /\ memory \in [Buffer -> Memory \cup {Nil}]
        /\ detached = {b \in Buffer : refs[b] > 0 /\ b \notin owned}
    BY DEF StoreInv, StoreTypeOK, TablesInv, Buffer, Memory, Nil
  <1>4. /\ refs' \in [Buffer -> Nat] /\ refs'[m] = 1
        /\ \A b \in Buffer : b # m => refs'[b] = refs[b]
    BY <1>1, <1>2, <1>3
  <1>5. MemoryInv' /\ ReleasedOnceUnused' /\ MemoryTypes
    BY <1>1, <1>4, MemoryComes
  <1>6. CountsInv'
    <2>1. ASSUME NEW b \in Buffer PROVE refs'[b] = One(b \in owned') + borrowRefs[b]
      <3>1. refs[b] = One(b \in owned) + borrowRefs[b] /\ borrowRefs[b] \in Nat
        BY BufferIs
      <3> QED BY <1>1, <1>2, <1>4, <3>1 DEF One
    <2> QED BY <1>1, <2>1, CountsStand
  <1>7. TablesInv' /\ buffers' \in [Names -> Buffer \cup {Nil}] /\ owned' \subseteq Buffer
        /\ detached' \subseteq Buffer
        /\ tombstones' \in Seq(Names) /\ Len(tombstones') <= MaxTombstones
    <2>1. owned' = (owned \ {buffers[n]}) \cup {m}
      BY <1>1, <1>3
    <2>2. detached' = {b \in Buffer : refs'[b] > 0 /\ b \notin owned'}
      <3>1. \A b \in Buffer : b \in detached <=> refs'[b] > 0 /\ b \notin owned'
        BY <1>1, <1>2, <1>3, <1>4
      <3> QED BY <1>1, <1>3, <3>1
    <2> QED BY <1>1, <1>2, <2>1, <2>2, TablesAfterBind
  <1>8. LeasesInv'
    <2>1. \A b \in Buffer : borrowRefs[b] > 0 => memory'[b] = memory[b]
      BY <1>1, <1>2, <1>3
    <2> QED BY <2>1, LeasesStand
  <1> QED BY <1>1, <1>2, <1>3, <1>4, <1>5, <1>6, <1>7, <1>8, KeptStands, Assembled

LEMMA DetachKeeps ==
  ASSUME StoreInv, NEW n \in Names, made < MaxMemory, NEW m, m = made + 1, made' = m,
         Detach(n, m), tombstones' = ForgetReleased(n),
         UNCHANGED <<namedBorrows, deferVars, drainVars, holder>>
  PROVE  StoreInv'
  <1> DEFINE b == buffers[n]
  <1>1. /\ b # Nil /\ refs[b] > 1 /\ buffers' = [buffers EXCEPT ![n] = m] /\ Publish(n, m)
        /\ refs' = [refs EXCEPT ![b] = @ - 1, ![m] = 1] /\ owned' = (owned \ {b}) \cup {m}
        /\ detached' = detached \cup {b}
        /\ borrowRefs' = borrowRefs /\ memory' = [memory EXCEPT ![m] = m]
    BY DEF Detach, Publish, Shared
  <1>2. /\ m \in Buffer /\ m # Nil /\ m \in 0..MaxMemory /\ refs[m] = 0 /\ borrowRefs[m] = 0
        /\ m \notin owned /\ m \notin detached
        /\ \A c \in Buffer : refs[c] > 0 => c # m
    BY FreshIs
  <1>3. /\ refs \in [Buffer -> Nat] /\ owned \subseteq Buffer
        /\ borrowRefs \in [Buffer -> Nat] /\ memory \in [Buffer -> Memory \cup {Nil}]
        /\ detached = {c \in Buffer : refs[c] > 0 /\ c \notin owned}
    BY DEF StoreInv, StoreTypeOK, TablesInv
  <1>4. b \in Buffer /\ b \in owned /\ b # m /\ refs[b] > 0
    BY <1>1, <1>2, BoundIs
  <1> HIDE DEF b
  <1>5. /\ refs' \in [Buffer -> Nat] /\ refs'[m] = 1 /\ refs'[b] = refs[b] - 1
        /\ \A c \in Buffer : c # m /\ c # b => refs'[c] = refs[c]
    BY <1>1, <1>2, <1>3, <1>4
  <1>6. \A c \in Buffer : c # m => (refs'[c] > 0 <=> refs[c] > 0)
    BY <1>1, <1>3, <1>5
  <1>7. MemoryInv' /\ ReleasedOnceUnused' /\ MemoryTypes
    BY <1>1, <1>5, <1>6, MemoryComes
  <1>8. CountsInv'
    <2>1. ASSUME NEW c \in Buffer PROVE refs'[c] = One(c \in owned') + borrowRefs[c]
      <3>1. refs[c] = One(c \in owned) + borrowRefs[c] /\ borrowRefs[c] \in Nat
        BY BufferIs
      <3> QED BY <1>1, <1>2, <1>4, <1>5, <3>1 DEF One
    <2> QED BY <1>1, <2>1, CountsStand
  <1>9. TablesInv' /\ buffers' \in [Names -> Buffer \cup {Nil}] /\ owned' \subseteq Buffer
        /\ detached' \subseteq Buffer
        /\ tombstones' \in Seq(Names) /\ Len(tombstones') <= MaxTombstones
    <2>1. detached' = {c \in Buffer : refs'[c] > 0 /\ c \notin owned'}
      <3>1. \A c \in Buffer : c \in detached' <=> refs'[c] > 0 /\ c \notin owned'
        BY <1>1, <1>2, <1>3, <1>4, <1>6
      <3>2. detached' \subseteq Buffer
        BY <1>1, <1>3, <1>4
      <3> QED BY <3>1, <3>2
    <2> QED BY <1>1, <1>2, <2>1, TablesAfterBind DEF b
  <1>10. LeasesInv'
    <2>1. \A c \in Buffer : borrowRefs[c] > 0 => memory'[c] = memory[c]
      BY <1>1, <1>2, <1>3
    <2> QED BY <2>1, LeasesStand
  <1> QED BY <1>1, <1>2, <1>3, <1>5, <1>7, <1>8, <1>9, <1>10, KeptStands, Assembled

(* A Buffer that nobody borrows gets new memory in the place of its own.   *)
LEMMA RefillKeeps ==
  ASSUME StoreInv, NEW n \in Names, made < MaxMemory, NEW m, m = made + 1, made' = m,
         Refill(n, m), tombstones' = ForgetReleased(n),
         UNCHANGED <<namedBorrows, deferVars, drainVars, holder>>
  PROVE  StoreInv'
  <1> DEFINE b == buffers[n]
  <1>1. /\ b # Nil /\ ~(refs[b] > 1) /\ memory' = [memory EXCEPT ![b] = m]
        /\ freed' = IF b \in hooked THEN [freed EXCEPT ![memory[b]] = @ + 1] ELSE freed
        /\ hooked' = IF m \in External THEN hooked \cup {b} ELSE hooked \ {b}
        /\ refs' = [refs EXCEPT ![b] = 1] /\ borrowRefs' = [borrowRefs EXCEPT ![b] = 0]
        /\ owned' = owned \cup {b} /\ UNCHANGED <<buffers, detached>>
    BY DEF Refill, Shared
  <1>2. /\ m \in Buffer /\ m \in Memory /\ m # Nil /\ m \in 0..MaxMemory /\ freed[m] = 0
        /\ ~Backed(m) /\ made \in Nat
        /\ \A c \in Buffer : refs[c] > 0 => memory[c] # m
        /\ \A x \in Memory : x <= m <=> x <= made \/ x = m
    BY FreshIs
  <1>3. /\ refs \in [Buffer -> Nat] /\ owned \subseteq Buffer /\ hooked \subseteq Buffer
        /\ borrowRefs \in [Buffer -> Nat] /\ memory \in [Buffer -> Memory \cup {Nil}]
        /\ freed \in [Memory -> Nat] /\ detached \subseteq Buffer
        /\ buffers \in [Names -> Buffer \cup {Nil}]
    BY DEF StoreInv, StoreTypeOK, TablesInv
  <1>4. b \in Buffer /\ b \in owned /\ refs[b] > 0 /\ memory[b] \in 1..made
        /\ memory[b] \in Memory
    BY <1>1, BoundIs
  <1> HIDE DEF b
  <1>5. refs[b] = 1 /\ borrowRefs[b] = 0
    <2>1. refs[b] = 1
      BY <1>1, <1>3, <1>4
    <2>2. refs[b] = One(b \in owned) + borrowRefs[b] /\ borrowRefs[b] \in Nat
      BY <1>4, BufferIs
    <2> QED BY <1>4, <2>1, <2>2 DEF One
  <1>6. refs' = refs /\ borrowRefs' = borrowRefs /\ owned' = owned
    BY <1>1, <1>3, <1>4, <1>5
  <1>7. /\ memory'[b] = m /\ \A c \in Buffer : c # b => memory'[c] = memory[c]
        /\ memory' \in [Buffer -> Memory \cup {Nil}]
    BY <1>1, <1>2, <1>3, <1>4
  <1>8. MemoryTypes
    <2>1. hooked' \subseteq Buffer
      BY <1>1, <1>3, <1>4
    <2>2. freed' \in [Memory -> Nat]
      BY <1>1, <1>3, <1>4
    <2> QED BY <1>7, <2>1, <2>2 DEF MemoryTypes
  <1>9. MemoryInv'
    <2>1. \A c \in Buffer : c > made' => refs'[c] = 0
      <3>1. \A c \in Buffer : c > m => c > made
        BY <1>2 DEF Buffer, Memory
      <3> QED BY <1>6, <3>1 DEF StoreInv, MemoryInv
    <2>2. ASSUME NEW c \in Buffer, refs'[c] > 0 PROVE memory'[c] \in 1..made'
      <3>1. CASE c = b
        BY <1>2, <1>7, <3>1
      <3>2. CASE c # b
        <4>1. memory[c] \in 1..made
          BY <1>6, <2>2 DEF StoreInv, MemoryInv
        <4> QED BY <1>2, <1>7, <3>2, <4>1
      <3> QED BY <3>1, <3>2
    <2>3. \A c, d \in Buffer :
            refs'[c] > 0 /\ refs'[d] > 0 /\ memory'[c] = memory'[d] => c = d
      BY <1>2, <1>6, <1>7 DEF StoreInv, MemoryInv
    <2>4. hooked' = {c \in Buffer : refs'[c] > 0 /\ memory'[c] \in External}
      <3>1. hooked = {c \in Buffer : refs[c] > 0 /\ memory[c] \in External}
        BY DEF StoreInv, MemoryInv
      <3>2. ASSUME NEW c \in Buffer
            PROVE  c \in hooked' <=> refs'[c] > 0 /\ memory'[c] \in External
        BY <1>1, <1>4, <1>6, <1>7, <3>1
      <3> QED BY <1>8, <3>2 DEF MemoryTypes
    <2> QED BY <2>1, <2>2, <2>3, <2>4 DEF MemoryInv
  <1>10. ReleasedOnceUnused'
    <2> SUFFICES ASSUME NEW x \in Memory
                 PROVE  freed'[x] = One(x \in External /\ x <= made' /\ ~Backed(x)')
      BY DEF ReleasedOnceUnused
    <2>1. freed[x] = One(x \in External /\ x <= made /\ ~Backed(x))
      BY DEF StoreInv, ReleasedOnceUnused
    <2>2. memory[b] # m
      BY <1>2, <1>4
    <2>3. CASE x = memory[b]
      <3>1. Backed(x) /\ freed[x] = 0
        BY <1>4, <2>1, <2>3 DEF Backed, One
      <3>2. ~Backed(x)'
        <4>1. \A c \in Buffer : refs[c] > 0 /\ memory[c] = memory[b] => c = b
          BY <1>4 DEF StoreInv, MemoryInv
        <4> QED BY <1>6, <1>7, <2>2, <2>3, <4>1 DEF Backed
      <3>3. b \in hooked <=> x \in External
        BY <1>4, <2>3 DEF StoreInv, MemoryInv
      <3>4. freed'[x] = IF x \in External THEN 1 ELSE 0
        BY <1>1, <1>3, <1>4, <2>3, <3>1, <3>3
      <3>5. x <= made'
        BY <1>2, <1>4, <2>3
      <3> QED BY <3>2, <3>4, <3>5 DEF One
    <2>4. CASE x = m
      <3>1. Backed(x)'
        BY <1>4, <1>6, <1>7, <2>4 DEF Backed
      <3>2. freed'[x] = 0
        BY <1>1, <1>2, <1>3, <2>2, <2>4
      <3> QED BY <3>1, <3>2 DEF One
    <2>5. CASE x # m /\ x # memory[b]
      <3>1. Backed(x)' <=> Backed(x)
        BY <1>6, <1>7, <2>5 DEF Backed
      <3>2. freed'[x] = freed[x]
        BY <1>1, <1>3, <2>5
      <3> QED BY <1>2, <2>1, <2>5, <3>1, <3>2 DEF One
    <2> QED BY <2>3, <2>4, <2>5
  <1>11. CountsInv'
    <2>1. \A c \in Buffer : refs'[c] = One(c \in owned') + borrowRefs[c]
      BY <1>6, BufferIs
    <2> QED BY <1>6, <2>1, CountsStand
  <1>12. TablesInv' /\ tombstones' \in Seq(Names) /\ Len(tombstones') <= MaxTombstones
    <2>1. /\ tombstones' \in Seq(Names) /\ Len(tombstones') <= MaxTombstones
          /\ Distinct(tombstones')
          /\ \A i \in DOMAIN tombstones' : buffers'[tombstones'[i]] = Nil
      BY <1>1, TombstonesAfterSet
    <2>2. /\ owned = {buffers[o] : o \in {x \in Names : buffers[x] # Nil}}
          /\ \A o, p \in Names : o # p /\ buffers[o] # Nil => buffers[o] # buffers[p]
          /\ detached = {c \in Buffer : refs[c] > 0 /\ c \notin owned}
      BY DEF StoreInv, TablesInv
    <2>3. UNCHANGED <<buffers, detached, owned, refs>>
      BY <1>1, <1>6
    <2>4. Distinct(tombstones)'
      BY <2>1 DEF Distinct
    <2>5. TablesInv'
      BY <2>1, <2>2, <2>3, <2>4 DEF TablesInv
    <2> QED BY <2>1, <2>5
  <1>13. LeasesInv'
    <2>1. \A c \in Buffer : borrowRefs[c] > 0 => memory'[c] = memory[c]
      BY <1>5, <1>7
    <2> QED BY <2>1, LeasesStand
  <1> QED BY <1>1, <1>2, <1>3, <1>6, <1>8, <1>9, <1>10, <1>11, <1>12, <1>13, KeptStands, Assembled

LEMMA SetKeeps == ASSUME StoreInv, NEW n \in Names, Set(n) PROVE StoreInv'
  <1>1. /\ made < MaxMemory /\ made' = made + 1 /\ tombstones' = ForgetReleased(n)
        /\ UNCHANGED <<namedBorrows, deferVars, drainVars, holder>>
        /\ Create(n, made') \/ Detach(n, made') \/ Refill(n, made')
    BY DEF Set
  <1>2. PICK m : m = made + 1 /\ made' = m
    BY <1>1
  <1>3. Create(n, m) \/ Detach(n, m) \/ Refill(n, m)
    BY <1>1, <1>2
  <1> QED BY <1>1, <1>2, <1>3, CreateKeeps, DetachKeeps, RefillKeeps

LEMMA AllocateKeeps == ASSUME StoreInv, NEW n \in Names, Allocate(n) PROVE StoreInv'
  <1>1. /\ made < MaxMemory /\ made' = made + 1 /\ tombstones' = ForgetReleased(n)
        /\ UNCHANGED <<namedBorrows, deferVars, drainVars, holder>> /\ Create(n, made')
    BY DEF Allocate
  <1>2. PICK m : m = made + 1 /\ made' = m
    BY <1>1
  <1>3. Create(n, m)
    BY <1>1, <1>2
  <1> QED BY <1>1, <1>2, <1>3, CreateKeeps

(* Memory that is refused goes back at once.                               *)
LEMMA SetRejectedKeeps == ASSUME StoreInv, SetRejected PROVE StoreInv'
  <1>1. /\ made < MaxMemory /\ made' = made + 1 /\ made' \in External
        /\ freed' = [freed EXCEPT ![made'] = @ + 1]
        /\ UNCHANGED <<refs, borrowRefs, owned, memory, hooked, buffers, tombstones,
                       namedBorrows, detached, deferVars, drainVars, holder>>
    BY DEF SetRejected
  <1>2. PICK m : m = made + 1 /\ made' = m
    BY <1>1
  <1>3. /\ m \in Memory /\ m \in 0..MaxMemory /\ freed[m] = 0 /\ ~Backed(m) /\ made \in Nat
        /\ \A x \in Memory : x <= m <=> x <= made \/ x = m
    BY <1>1, <1>2, FreshIs
  <1>4. /\ freed \in [Memory -> Nat] /\ hooked \subseteq Buffer
        /\ memory \in [Buffer -> Memory \cup {Nil}]
        /\ \A b \in Buffer : refs[b] = One(b \in owned) + borrowRefs[b]
    BY BufferIs DEF StoreInv, StoreTypeOK
  <1>5. freed' = [freed EXCEPT ![m] = @ + 1] /\ m \in External
    BY <1>1, <1>2
  <1>6. MemoryTypes
    BY <1>1, <1>3, <1>4, <1>5 DEF MemoryTypes
  <1>7. MemoryInv'
    <2>1. \A b \in Buffer : b > made' => refs'[b] = 0
      <3>1. \A b \in Buffer : b > m => b > made
        BY <1>2, <1>3 DEF Buffer, Memory
      <3> QED BY <1>1, <1>2, <3>1 DEF StoreInv, MemoryInv
    <2>2. \A b \in Buffer : refs'[b] > 0 => memory'[b] \in 1..made'
      <3>1. \A x : x \in 1..made => x \in 1..m
        BY <1>2, <1>3
      <3> QED BY <1>1, <1>2, <3>1 DEF StoreInv, MemoryInv
    <2> QED BY <1>1, <2>1, <2>2 DEF StoreInv, MemoryInv
  <1>8. ReleasedOnceUnused'
    <2> SUFFICES ASSUME NEW x \in Memory
                 PROVE  freed'[x] = One(x \in External /\ x <= made' /\ ~Backed(x)')
      BY DEF ReleasedOnceUnused
    <2>1. freed[x] = One(x \in External /\ x <= made /\ ~Backed(x))
      BY DEF StoreInv, ReleasedOnceUnused
    <2>2. Backed(x)' <=> Backed(x)
      BY <1>1 DEF Backed
    <2> QED BY <1>2, <1>3, <1>4, <1>5, <2>1, <2>2 DEF One
  <1>9. CountsInv' /\ LeasesInv'
    BY <1>1, <1>4, CountsStand, LeasesStand
  <1>10. TablesInv'
    BY <1>1 DEF StoreInv, TablesInv, Distinct
  <1> QED BY <1>1, <1>2, <1>3, <1>6, <1>7, <1>8, <1>9, <1>10, KeptStands, Assembled
          DEF StoreInv, StoreTypeOK

(* The owner gives up its Buffer, and the name is not bound any more.      *)
LEMMA FreeKeeps == ASSUME StoreInv, NEW n \in Names, Free(n) PROVE StoreInv'
  <1> DEFINE b == buffers[n]
  <1>1. /\ b # Nil /\ refs' = [refs EXCEPT ![b] = IF b \in owned THEN @ - 1 ELSE @]
        /\ owned' = owned \ {b} /\ TakeRelease(b) /\ buffers' = [buffers EXCEPT ![n] = Nil]
        /\ tombstones' = MarkReleased(n)
        /\ detached' = IF refs'[b] <= 0 THEN detached \ {b} ELSE detached \cup {b}
        /\ UNCHANGED <<made, borrowRefs, memory, namedBorrows, deferVars, drainVars, holder>>
    BY DEF Free
  <1>2. /\ b \in Buffer /\ b \in owned /\ refs[b] > 0 /\ b \notin detached
        /\ \A o \in Names : o # n => buffers[o] # b
    BY <1>1, BoundIs
  <1>3. /\ refs \in [Buffer -> Nat] /\ owned \subseteq Buffer /\ made \in 0..MaxMemory
        /\ borrowRefs \in [Buffer -> Nat] /\ buffers \in [Names -> Buffer \cup {Nil}]
        /\ tombstones \in Seq(Names) /\ Len(tombstones) <= MaxTombstones
        /\ Distinct(tombstones) /\ \A i \in DOMAIN tombstones : buffers[tombstones[i]] = Nil
        /\ detached = {c \in Buffer : refs[c] > 0 /\ c \notin owned}
        /\ \A o, p \in Names : o # p /\ buffers[o] # Nil => buffers[o] # buffers[p]
        /\ \A c : c \in owned <=> \E o \in Names : buffers[o] # Nil /\ c = buffers[o]
    BY DEF StoreInv, StoreTypeOK, TablesInv
  <1> HIDE DEF b
  <1>4. refs' = [refs EXCEPT ![b] = @ - 1]
    BY <1>1, <1>2
  <1>5. /\ MemoryInv' /\ ReleasedOnceUnused' /\ MemoryTypes
        /\ refs' \in [Buffer -> Nat] /\ refs'[b] = refs[b] - 1
        /\ \A c \in Buffer : c # b => refs'[c] = refs[c]
    BY <1>1, <1>2, <1>4, MemoryGoes
  <1>6. CountsInv'
    <2>1. ASSUME NEW c \in Buffer PROVE refs'[c] = One(c \in owned') + borrowRefs[c]
      <3>1. refs[c] = One(c \in owned) + borrowRefs[c] /\ borrowRefs[c] \in Nat
        BY BufferIs
      <3> QED BY <1>1, <1>2, <1>5, <3>1 DEF One
    <2> QED BY <1>1, <2>1, CountsStand
  <1>7. /\ buffers' \in [Names -> Buffer \cup {Nil}] /\ buffers'[n] = Nil
        /\ \A o \in Names : o # n => buffers'[o] = buffers[o]
    BY <1>1, <1>3
  <1>8. owned' \subseteq Buffer /\ detached' \subseteq Buffer
    BY <1>1, <1>2, <1>3
  <1>9. PICK t : t = MarkReleased(n)
    OBVIOUS
  <1>10. /\ t \in Seq(Names) /\ Len(t) <= MaxTombstones /\ Distinct(t)
         /\ \A i \in DOMAIN t :
              t[i] = n \/ \E j \in DOMAIN tombstones : t[i] = tombstones[j]
    BY <1>3, <1>9, Marks
  <1>11. tombstones' = t
    BY <1>1, <1>9
  <1>12. TablesInv'
    <2>1. owned' = {buffers'[o] : o \in {x \in Names : buffers'[x] # Nil}}
      <3>1. ASSUME NEW c
            PROVE  c \in owned' <=> \E o \in Names : buffers'[o] # Nil /\ c = buffers'[o]
        <4>1. CASE c = b
          BY <1>1, <1>2, <1>7, <4>1
        <4>2. CASE c # b
          <5>1. c \in owned' <=> \E o \in Names : buffers[o] # Nil /\ c = buffers[o]
            BY <1>1, <1>3, <4>2
          <5>2. \A o \in Names : c = buffers[o] => o # n
            BY <4>2 DEF b
          <5>3. \A o \in Names : buffers'[o] # Nil => o # n
            BY <1>7
          <5> QED BY <1>7, <5>1, <5>2, <5>3
        <4> QED BY <4>1, <4>2
      <3> QED BY <3>1
    <2>2. \A o, p \in Names : o # p /\ buffers'[o] # Nil => buffers'[o] # buffers'[p]
      BY <1>3, <1>7
    <2>3. detached' = {c \in Buffer : refs'[c] > 0 /\ c \notin owned'}
      <3>1. ASSUME NEW c \in Buffer
            PROVE  c \in detached' <=> refs'[c] > 0 /\ c \notin owned'
        <4>1. CASE c = b
          <5>1. refs'[b] \in Nat
            BY <1>2, <1>5
          <5> QED BY <1>1, <1>2, <4>1, <5>1
        <4>2. CASE c # b
          BY <1>1, <1>3, <1>5, <4>2
        <4> QED BY <4>1, <4>2
      <3> QED BY <1>8, <3>1
    <2>4. \A i \in DOMAIN t : buffers'[t[i]] = Nil
      <3> TAKE i \in DOMAIN t
      <3>1. t[i] \in Names
        BY <1>10
      <3> QED BY <1>3, <1>7, <1>10, <3>1
    <2>5. Distinct(tombstones)' /\ \A i \in DOMAIN tombstones' : buffers'[tombstones'[i]] = Nil
      BY <1>10, <1>11, <2>4 DEF Distinct
    <2> QED BY <2>1, <2>2, <2>3, <2>5 DEF TablesInv
  <1>13. LeasesInv'
    BY <1>1, LeasesStand
  <1> QED BY <1>1, <1>3, <1>5, <1>6, <1>7, <1>8, <1>10, <1>11, <1>12, <1>13, KeptStands, Assembled

----------------------------------------------------------------------------
(* The Arrow store: borrows                                                *)

(* A reference for a borrow that was counted goes: of what the Buffers     *)
(* are, only the count of its borrows is still to be shown.                *)
LEMMA ReleaseIs ==
  ASSUME StoreInv, NEW n \in Names, NEW b \in Buffer, borrowRefs[b] > 0, ReleaseBuffer(n, b),
         UNCHANGED <<made, tombstones>>
  PROVE  /\ MemoryInv' /\ ReleasedOnceUnused' /\ MemoryTypes /\ TablesInv'
         /\ buffers' \in [Names -> Buffer \cup {Nil}] /\ detached' \subseteq Buffer
         /\ refs' \in [Buffer -> Nat] /\ borrowRefs' \in [Buffer -> Nat]
         /\ borrowRefs'[b] = borrowRefs[b] - 1
         /\ \A c \in Buffer : c # b => borrowRefs'[c] = borrowRefs[c]
         /\ \A c \in Buffer : refs'[c] = One(c \in owned') + borrowRefs'[c]
         /\ owned' = owned /\ memory' = memory
  <1>1. /\ refs \in [Buffer -> Nat] /\ borrowRefs \in [Buffer -> Nat]
        /\ refs[b] = One(b \in owned) + borrowRefs[b]
        /\ buffers \in [Names -> Buffer \cup {Nil}]
    BY BufferIs DEF StoreInv, StoreTypeOK
  <1>2. refs[b] > 0
    BY <1>1 DEF One
  <1>3. /\ refs' = [refs EXCEPT ![b] = @ - 1] /\ borrowRefs' = [borrowRefs EXCEPT ![b] = @ - 1]
        /\ TakeRelease(b) /\ UNCHANGED <<owned, memory>>
        /\ refs'[b] <= 0 => /\ buffers' = IF buffers[n] = b THEN [buffers EXCEPT ![n] = Nil]
                                          ELSE buffers
                            /\ detached' = detached \ {b}
        /\ ~(refs'[b] <= 0) => UNCHANGED <<buffers, detached>>
    BY <1>2 DEF ReleaseBuffer
  <1>4. /\ MemoryInv' /\ ReleasedOnceUnused' /\ MemoryTypes
        /\ refs' \in [Buffer -> Nat] /\ refs'[b] = refs[b] - 1
        /\ \A c \in Buffer : c # b => refs'[c] = refs[c]
    BY <1>2, <1>3, MemoryGoes
  <1>5. /\ borrowRefs' \in [Buffer -> Nat] /\ borrowRefs'[b] = borrowRefs[b] - 1
        /\ \A c \in Buffer : c # b => borrowRefs'[c] = borrowRefs[c]
    BY <1>1, <1>3
  <1>6. ASSUME NEW c \in Buffer PROVE refs'[c] = One(c \in owned') + borrowRefs'[c]
    <2>1. refs[c] = One(c \in owned) + borrowRefs[c] /\ borrowRefs[c] \in Nat
      BY BufferIs
    <2> QED BY <1>3, <1>4, <1>5, <2>1 DEF One
  <1>7. buffers' = buffers
    <2>1. CASE refs'[b] <= 0
      <3>1. b \notin owned
        BY <1>1, <1>4, <2>1 DEF One
      <3>2. buffers[n] # b
        <4>1. b # Nil
          BY DEF Buffer, Memory, Nil
        <4> QED BY <3>1, <4>1, BoundIs
      <3> QED BY <1>3, <2>1, <3>2
    <2>2. CASE ~(refs'[b] <= 0)
      BY <1>3, <2>2
    <2> QED BY <2>1, <2>2
  <1>8. /\ owned = {buffers[o] : o \in {x \in Names : buffers[x] # Nil}}
        /\ \A o, p \in Names : o # p /\ buffers[o] # Nil => buffers[o] # buffers[p]
        /\ detached = {c \in Buffer : refs[c] > 0 /\ c \notin owned}
        /\ Distinct(tombstones) /\ \A i \in DOMAIN tombstones : buffers[tombstones[i]] = Nil
    BY DEF StoreInv, TablesInv
  <1>9. detached' = {c \in Buffer : refs'[c] > 0 /\ c \notin owned'} /\ detached' \subseteq Buffer
    <2>1. CASE refs'[b] <= 0
      <3>1. detached' = detached \ {b} /\ ~(refs'[b] > 0)
        BY <1>1, <1>3, <1>4, <2>1
      <3>2. \A c \in Buffer : c \in detached' <=> refs'[c] > 0 /\ c \notin owned'
        BY <1>3, <1>4, <1>8, <3>1
      <3> QED BY <1>8, <3>1, <3>2
    <2>2. CASE ~(refs'[b] <= 0)
      <3>1. detached' = detached /\ refs'[b] > 0
        BY <1>1, <1>3, <1>4, <2>2
      <3>2. \A c \in Buffer : c \in detached' <=> refs'[c] > 0 /\ c \notin owned'
        BY <1>2, <1>3, <1>4, <1>8, <3>1
      <3> QED BY <1>8, <3>1, <3>2
    <2> QED BY <2>1, <2>2
  <1>10. TablesInv'
    <2>1. UNCHANGED <<buffers, owned, tombstones>>
      BY <1>3, <1>7
    <2>2. Distinct(tombstones)'
      BY <1>8, <2>1 DEF Distinct
    <2> QED BY <1>8, <1>9, <2>1, <2>2 DEF TablesInv
  <1> QED BY <1>1, <1>3, <1>4, <1>5, <1>6, <1>7, <1>9, <1>10

(* The pairs that are counted, before and after a step.                    *)
LEMMA NamedNow ==
  /\ namedBorrows \in [Names -> Seq(Buffer)] =>
       \A b : NamedOf(b) = NamedIn(namedBorrows, b)
  /\ namedBorrows' \in [Names -> Seq(Buffer)] =>
       \A b : NamedOf(b)' = NamedIn(namedBorrows', b)
  <1>1. ASSUME namedBorrows \in [Names -> Seq(Buffer)], NEW b
        PROVE  NamedOf(b) = NamedIn(namedBorrows, b)
    BY <1>1, NamedOfIs DEF NamedOf
  <1>2. ASSUME namedBorrows' \in [Names -> Seq(Buffer)], NEW b
        PROVE  NamedOf(b)' = NamedIn(namedBorrows', b)
    <2>1. PICK borrows \in [Names -> Seq(Buffer)] : borrows = namedBorrows'
      BY <1>2
    <2>2. NamedOf(b)' = UNION {{<<n, i>> : i \in Places(borrows[n], b)} : n \in Names}
      BY <2>1 DEF NamedOf, Places
    <2> QED BY <2>1, <2>2, NamedOfIs
  <1> QED BY <1>1, <1>2

(* A borrow of b by name or by lease changes its count by one.             *)
LEMMA CountsAfter ==
  ASSUME StoreInv, NEW b \in Buffer,
         \A c \in Buffer :
           /\ refs'[c] = One(c \in owned') + borrowRefs'[c]
           /\ borrowRefs'[c] = Cardinality(Holding("lease", c)') + Cardinality(NamedOf(c)')
           /\ IsFiniteSet(NamedOf(c)')
  PROVE  CountsInv'
  BY DEF CountsInv, ReferencesConserved, One

LEMMA BorrowKeeps ==
  ASSUME StoreInv, NEW h \in Slots, NEW n \in Names, NEW kind \in {"lease", "view"},
         Borrow(h, n, kind)
  PROVE  StoreInv'
  <1> DEFINE b == buffers[n]
             k == [kind |-> kind, name |-> n, buf |-> b, mem |-> memory[b]]
  <1>1. /\ holder[h].kind = "none" /\ b # Nil
        /\ refs' = [refs EXCEPT ![b] = @ + 1] /\ borrowRefs' = [borrowRefs EXCEPT ![b] = @ + 1]
        /\ namedBorrows' = IF kind = "view" THEN [namedBorrows EXCEPT ![n] = Append(@, b)]
                           ELSE namedBorrows
        /\ holder' = [holder EXCEPT ![h] = k]
        /\ UNCHANGED <<owned, memory, hooked, freed, nameVars, deferVars, drainVars, detached>>
    BY DEF Borrow
  <1>2. /\ b \in Buffer /\ b \in owned /\ refs[b] > 0 /\ memory[b] \in Memory
    BY <1>1, BoundIs
  <1>3. /\ k \in Kept /\ KeptOK(k) /\ k.kind = kind /\ k.name = n /\ k.buf = b
        /\ k.mem = memory[b]
    BY <1>2 DEF Kept, KeptOK
  <1>4. /\ refs \in [Buffer -> Nat] /\ borrowRefs \in [Buffer -> Nat]
        /\ namedBorrows \in [Names -> Seq(Buffer)] /\ holder \in [Slots -> Kept]
        /\ holder[h] = Nothing
    BY <1>1 DEF StoreInv, StoreTypeOK, SlotsInv, KeptOK
  <1> HIDE DEF b, k
  <1>5. /\ refs' \in [Buffer -> Nat] /\ borrowRefs' \in [Buffer -> Nat]
        /\ refs'[b] = refs[b] + 1 /\ borrowRefs'[b] = borrowRefs[b] + 1
        /\ \A c \in Buffer : c # b => refs'[c] = refs[c] /\ borrowRefs'[c] = borrowRefs[c]
    BY <1>1, <1>2, <1>4
  <1>a. ASSUME NEW c \in Buffer PROVE refs'[c] > 0 <=> refs[c] > 0
    <2>1. CASE c = b
      <3>1. refs[b] \in Nat /\ refs[b] + 1 > 0
        BY <1>2, <1>4
      <3> QED BY <1>2, <1>5, <2>1, <3>1
    <2>2. CASE c # b
      BY <1>5, <2>2
    <2> QED BY <2>1, <2>2
  <1>6. /\ holder' \in [Slots -> Kept] /\ holder'[h] = k
        /\ \A o \in Slots : o # h => holder'[o] = holder[o]
        /\ \A c : Cardinality(Holding("lease", c)') = Cardinality(Holding("lease", c))
                    + One(Leases(k, c)) - One(Leases(holder[h], c))
        /\ \A o : Cardinality(Viewing(o)') = Cardinality(Viewing(o))
                    + One(Views(k, o)) - One(Views(holder[h], o))
    BY <1>1, <1>3, SlotMoves DEF StoreInv
  <1>7. /\ \A c : ~Leases(holder[h], c) /\ (Leases(k, c) <=> kind = "lease" /\ b = c)
        /\ \A o : ~Views(holder[h], o) /\ (Views(k, o) <=> kind = "view" /\ n = o)
    BY <1>3, <1>4 DEF Nothing, Leases, Views
  <1>8. namedBorrows' \in [Names -> Seq(Buffer)]
    <2>1. CASE kind = "view"
      <3>1. Append(namedBorrows[n], b) \in Seq(Buffer)
        BY <1>2, <1>4, Enqueued
      <3> QED BY <1>1, <1>4, <2>1, <3>1
    <2>2. CASE kind # "view"
      BY <1>1, <1>4, <2>2
    <2> QED BY <2>1, <2>2
  <1>9. ASSUME NEW c \in Buffer
        PROVE  /\ IsFiniteSet(NamedOf(c)') /\ Cardinality(NamedOf(c)') \in Nat
               /\ Cardinality(NamedOf(c)') = Cardinality(NamedOf(c)) + One(kind = "view" /\ b = c)
    <2>1. IsFiniteSet(NamedOf(c)) /\ NamedOf(c) = NamedIn(namedBorrows, c)
          /\ NamedOf(c)' = NamedIn(namedBorrows', c) /\ Cardinality(NamedOf(c)) \in Nat
      BY <1>4, <1>8, NamedNow, BufferIs
    <2>2. CASE kind = "view"
      <3>1. namedBorrows' = [namedBorrows EXCEPT ![n] = Append(@, b)]
        BY <1>1, <2>2
      <3>2. IsFiniteSet(NamedIn(namedBorrows, c))
        BY <2>1
      <3>3. /\ IsFiniteSet(NamedIn(WithBorrow(namedBorrows, n, b), c))
            /\ Cardinality(NamedIn(WithBorrow(namedBorrows, n, b), c))
                 = Cardinality(NamedIn(namedBorrows, c)) + One(b = c)
        BY <1>2, <1>4, <3>2, NamedAppend DEF One
      <3>4. NamedOf(c)' = NamedIn(WithBorrow(namedBorrows, n, b), c)
        BY <2>1, <3>1 DEF WithBorrow
      <3> QED BY <2>1, <2>2, <3>3, <3>4, FS_CardinalityType DEF One
    <2>3. CASE kind # "view"
      <3>1. namedBorrows' = namedBorrows
        BY <1>1, <2>3
      <3> QED BY <2>1, <2>3, <3>1 DEF One
    <2> QED BY <2>2, <2>3
  <1>10. CountsInv'
    <2>1. ASSUME NEW c \in Buffer
          PROVE  /\ refs'[c] = One(c \in owned') + borrowRefs'[c]
                 /\ borrowRefs'[c] = Cardinality(Holding("lease", c)') + Cardinality(NamedOf(c)')
                 /\ IsFiniteSet(NamedOf(c)')
      <3>1. /\ refs[c] = One(c \in owned) + borrowRefs[c] /\ borrowRefs[c] \in Nat
            /\ borrowRefs[c] = Cardinality(Holding("lease", c)) + Cardinality(NamedOf(c))
            /\ Cardinality(Holding("lease", c)) \in Nat /\ Cardinality(NamedOf(c)) \in Nat
        BY BufferIs
      <3>2. refs'[c] = refs[c] + One(b = c) /\ borrowRefs'[c] = borrowRefs[c] + One(b = c)
        BY <1>2, <1>5, <3>1 DEF One
      <3>3. Cardinality(Holding("lease", c)')
              = Cardinality(Holding("lease", c)) + One(kind = "lease" /\ b = c)
        BY <1>6, <1>7, <3>1 DEF One
      <3>4. /\ Cardinality(NamedOf(c)') = Cardinality(NamedOf(c)) + One(kind = "view" /\ b = c)
            /\ IsFiniteSet(NamedOf(c)')
        BY <1>9
      <3>5. owned' = owned
        BY <1>1
      <3> QED BY <3>1, <3>2, <3>3, <3>4, <3>5 DEF One
    <2> QED BY <1>2, <2>1, CountsAfter
  <1>11. MemoryInv' /\ ReleasedOnceUnused' /\ MemoryTypes
    <2>1. \A c \in Buffer : refs'[c] > 0 <=> refs[c] > 0
      BY <1>a
    <2>2. UNCHANGED <<made, memory, hooked, freed>>
      BY <1>1 DEF nameVars
    <2> QED BY <1>5, <2>1, <2>2, MemoryStays
  <1>12. TablesInv' /\ buffers' = buffers /\ tombstones' = tombstones /\ made' = made
    <2>1. UNCHANGED <<made, buffers, tombstones, owned, detached>>
      BY <1>1 DEF nameVars
    <2>2. /\ owned = {buffers[o] : o \in {x \in Names : buffers[x] # Nil}}
          /\ \A o, p \in Names : o # p /\ buffers[o] # Nil => buffers[o] # buffers[p]
          /\ detached = {c \in Buffer : refs[c] > 0 /\ c \notin owned}
          /\ Distinct(tombstones) /\ \A i \in DOMAIN tombstones : buffers[tombstones[i]] = Nil
      BY DEF StoreInv, TablesInv
    <2>3. Distinct(tombstones)'
      BY <2>1, <2>2 DEF Distinct
    <2>4. detached' = {c \in Buffer : refs'[c] > 0 /\ c \notin owned'}
      <3> QED BY <1>a, <2>1, <2>2
    <2> QED BY <2>1, <2>2, <2>3, <2>4 DEF TablesInv
  <1>13. LeasesInv'
    <2> SUFFICES ASSUME NEW o \in Slots, holder'[o].kind = "lease"
                 PROVE  memory'[holder'[o].buf] = holder'[o].mem
      BY DEF LeasesInv
    <2>1. memory' = memory
      BY <1>1
    <2>2. CASE o = h
      BY <1>3, <1>6, <2>1, <2>2
    <2>3. CASE o # h
      BY <1>6, <2>1, <2>3 DEF StoreInv, LeasesInv
    <2> QED BY <2>2, <2>3
  <1>14. SlotsInv'
    <2>1. \A o \in Slots : KeptOK(holder'[o])
      BY <1>3, <1>6 DEF StoreInv, SlotsInv
    <2>2. UNCHANGED <<order, drain, hand>>
      BY <1>1 DEF deferVars, drainVars
    <2> QED BY <2>1, <2>2 DEF StoreInv, SlotsInv, Distinct, KeptOK
  <1>15. NamedBorrowsBalance'
    <2> SUFFICES ASSUME NEW o \in Names PROVE Coming(o)'
      BY DEF NamedBorrowsBalance
    <2>1. Coming(o)
      BY DEF StoreInv, NamedBorrowsBalance
    <2>2. UNCHANGED <<deferred, order, counts, lost, hand>>
      BY <1>1 DEF deferVars, drainVars
    <2>3. Cardinality(Viewing(o)') = Cardinality(Viewing(o)) + One(kind = "view" /\ n = o)
      BY <1>6, <1>7, SlotsFinite DEF One
    <2>4. Len(namedBorrows'[o]) = Len(namedBorrows[o]) + One(kind = "view" /\ n = o)
      <3>1. CASE kind = "view" /\ n = o
        <4>1. namedBorrows'[o] = Append(namedBorrows[o], b) /\ namedBorrows[o] \in Seq(Buffer)
          BY <1>1, <1>4, <3>1
        <4> QED BY <1>2, <3>1, <4>1, Enqueued DEF One
      <3>2. CASE ~(kind = "view" /\ n = o)
        <4>1. namedBorrows'[o] = namedBorrows[o] /\ Len(namedBorrows[o]) \in Nat
          BY <1>1, <1>4, <3>2
        <4>2. One(kind = "view" /\ n = o) = 0 /\ \A i \in Nat : i = i + 0
          BY <3>2 DEF One
        <4> QED BY <4>1, <4>2
      <3> QED BY <3>1, <3>2
    <2>5. /\ Cardinality(Viewing(o)) \in Nat /\ Cardinality(Places(deferred, o)) \in Nat
          /\ counts[o] \in Nat /\ lost[o] \in Nat /\ Len(namedBorrows[o]) \in Nat
      BY <1>4, SlotsFinite, PlacesFinite DEF StoreInv, StoreTypeOK
    <2>6. Places(deferred, o)' = Places(deferred, o) /\ ToSet(order)' = ToSet(order)
          /\ One(hand = o)' = One(hand = o)
      BY <2>2 DEF Places, ToSet, One
    <2>7. /\ Cardinality(Viewing(o)) + Cardinality(Places(deferred, o)) + counts[o]
              + One(hand = o) + lost[o] = Len(namedBorrows[o])
          /\ counts[o] > 0 <=> o \in ToSet(order)
      BY <2>1 DEF Coming
    <2>8. One(hand = o) \in Nat /\ One(kind = "view" /\ n = o) \in Nat
      BY DEF One
    <2>9. (Cardinality(Viewing(o)) + One(kind = "view" /\ n = o))
             + Cardinality(Places(deferred, o)) + counts[o] + One(hand = o) + lost[o]
             = Len(namedBorrows[o]) + One(kind = "view" /\ n = o)
      <3>1. PICK v \in Nat, p \in Nat, c \in Nat, g \in Nat, l \in Nat, x \in Nat, m \in Nat :
              /\ v = Cardinality(Viewing(o)) /\ p = Cardinality(Places(deferred, o))
              /\ c = counts[o] /\ g = One(hand = o) /\ l = lost[o]
              /\ x = One(kind = "view" /\ n = o) /\ m = Len(namedBorrows[o])
        BY <2>5, <2>8
      <3>2. v + p + c + g + l = m
        BY <2>7, <3>1
      <3>3. (v + x) + p + c + g + l = m + x
        BY <3>2
      <3> QED BY <3>1, <3>3
    <2> QED BY <2>2, <2>3, <2>4, <2>6, <2>7, <2>9 DEF Coming
  <1> QED BY <1>1, <1>5, <1>6, <1>8, <1>10, <1>11, <1>12, <1>13, <1>14, <1>15, Assembled
          DEF StoreInv, StoreTypeOK, deferVars, drainVars

(* Where the named borrows of a name are.                                  *)
LEMMA ComingIs ==
  ASSUME StoreInv, NEW n \in Names
  PROVE  /\ Cardinality(Viewing(n)) \in Nat /\ Cardinality(Places(deferred, n)) \in Nat
         /\ counts[n] \in Nat /\ lost[n] \in Nat /\ One(hand = n) \in Nat
         /\ Len(namedBorrows[n]) \in Nat /\ namedBorrows[n] \in Seq(Buffer)
         /\ Cardinality(Viewing(n)) + Cardinality(Places(deferred, n)) + counts[n]
              + One(hand = n) + lost[n] = Len(namedBorrows[n])
         /\ counts[n] > 0 <=> n \in ToSet(order)
  <1>1. /\ counts[n] \in Nat /\ lost[n] \in Nat /\ namedBorrows[n] \in Seq(Buffer)
        /\ deferred \in Seq(Names)
    BY DEF StoreInv, StoreTypeOK
  <1>2. Coming(n)
    BY DEF StoreInv, NamedBorrowsBalance
  <1>3. One(hand = n) \in Nat
    BY DEF One
  <1> QED BY <1>1, <1>2, <1>3, SlotsFinite, PlacesFinite DEF Coming

(* A lease ends through the lease.                                         *)
LEMMA ReleaseLeaseKeeps ==
  ASSUME StoreInv, NEW h \in Slots, ReleaseLease(h)
  PROVE  StoreInv'
  <1>1. /\ holder[h].kind = "lease" /\ ReleaseBuffer(holder[h].name, holder[h].buf)
        /\ holder' = [holder EXCEPT ![h] = Nothing]
        /\ UNCHANGED <<made, tombstones, namedBorrows, deferVars, drainVars>>
    BY DEF ReleaseLease
  <1>2. holder[h].name \in Names /\ holder[h].buf \in Buffer
    BY <1>1 DEF StoreInv, SlotsInv, KeptOK
  <1>3. PICK n \in Names, b \in Buffer : n = holder[h].name /\ b = holder[h].buf
    BY <1>2
  <1>4. ReleaseBuffer(n, b)
    BY <1>1, <1>3
  <1>5. borrowRefs[b] > 0
    <2>1. borrowRefs[b] # 0
      BY <1>1, <1>3, UnborrowedIs
    <2> QED BY <2>1, BufferIs
  <1>6. /\ MemoryInv' /\ ReleasedOnceUnused' /\ MemoryTypes /\ TablesInv'
        /\ buffers' \in [Names -> Buffer \cup {Nil}] /\ detached' \subseteq Buffer
        /\ refs' \in [Buffer -> Nat] /\ borrowRefs' \in [Buffer -> Nat]
        /\ borrowRefs'[b] = borrowRefs[b] - 1
        /\ \A c \in Buffer : c # b => borrowRefs'[c] = borrowRefs[c]
        /\ \A c \in Buffer : refs'[c] = One(c \in owned') + borrowRefs'[c]
        /\ owned' = owned /\ memory' = memory
    BY <1>1, <1>4, <1>5, ReleaseIs
  <1>7. Nothing \in Kept /\ KeptOK(Nothing)
    BY DEF Nothing, Kept, KeptOK
  <1>8. /\ holder' \in [Slots -> Kept] /\ holder'[h] = Nothing
        /\ \A o \in Slots : o # h => holder'[o] = holder[o]
        /\ \A c : Cardinality(Holding("lease", c)') = Cardinality(Holding("lease", c))
                    + One(Leases(Nothing, c)) - One(Leases(holder[h], c))
        /\ \A o : Cardinality(Viewing(o)') = Cardinality(Viewing(o))
                    + One(Views(Nothing, o)) - One(Views(holder[h], o))
    BY <1>1, <1>7, SlotMoves DEF StoreInv
  <1>9. /\ \A c : ~Leases(Nothing, c) /\ (Leases(holder[h], c) <=> b = c)
        /\ \A o : ~Views(Nothing, o) /\ ~Views(holder[h], o)
    BY <1>1, <1>3 DEF Nothing, Leases, Views
  <1>10. CountsInv'
    <2>1. ASSUME NEW c \in Buffer
          PROVE  /\ refs'[c] = One(c \in owned') + borrowRefs'[c]
                 /\ borrowRefs'[c] = Cardinality(Holding("lease", c)') + Cardinality(NamedOf(c)')
                 /\ IsFiniteSet(NamedOf(c)')
      <3>1. /\ borrowRefs[c] = Cardinality(Holding("lease", c)) + Cardinality(NamedOf(c))
            /\ borrowRefs[c] \in Nat /\ Cardinality(Holding("lease", c)) \in Nat
            /\ IsFiniteSet(NamedOf(c)) /\ Cardinality(NamedOf(c)) \in Nat
        BY BufferIs
      <3>2. borrowRefs'[c] = borrowRefs[c] - One(b = c)
        BY <1>6, <3>1 DEF One
      <3>3. Cardinality(Holding("lease", c)') = Cardinality(Holding("lease", c)) - One(b = c)
        BY <1>8, <1>9, <3>1 DEF One
      <3>4. NamedOf(c)' = NamedOf(c)
        BY <1>1 DEF NamedOf, Places
      <3> QED BY <1>6, <3>1, <3>2, <3>3, <3>4 DEF One
    <2> QED BY <2>1, CountsAfter
  <1>11. LeasesInv'
    <2> SUFFICES ASSUME NEW o \in Slots, holder'[o].kind = "lease"
                 PROVE  memory'[holder'[o].buf] = holder'[o].mem
      BY DEF LeasesInv
    <2>1. o # h
      BY <1>8 DEF Nothing
    <2> QED BY <1>6, <1>8, <2>1 DEF StoreInv, LeasesInv
  <1>12. SlotsInv'
    <2>1. \A o \in Slots : KeptOK(holder'[o])
      BY <1>7, <1>8 DEF StoreInv, SlotsInv
    <2>2. UNCHANGED <<order, drain, hand>>
      BY <1>1 DEF deferVars, drainVars
    <2> QED BY <2>1, <2>2 DEF StoreInv, SlotsInv, Distinct, KeptOK
  <1>13. NamedBorrowsBalance'
    <2> SUFFICES ASSUME NEW o \in Names PROVE Coming(o)'
      BY DEF NamedBorrowsBalance
    <2>1. UNCHANGED <<deferred, order, counts, lost, hand, namedBorrows>>
      BY <1>1 DEF deferVars, drainVars
    <2>2. Cardinality(Viewing(o)') = Cardinality(Viewing(o))
      BY <1>8, <1>9, SlotsFinite DEF One
    <2>3. Places(deferred, o)' = Places(deferred, o) /\ ToSet(order)' = ToSet(order)
          /\ One(hand = o)' = One(hand = o)
      BY <2>1 DEF Places, ToSet, One
    <2> QED BY <2>1, <2>2, <2>3, ComingIs DEF Coming
  <1> QED BY <1>1, <1>6, <1>8, <1>10, <1>11, <1>12, <1>13, Assembled
          DEF StoreInv, StoreTypeOK, deferVars, drainVars

(* The drain gives back the oldest borrow of the name it has taken: there  *)
(* is one.                                                                 *)
LEMMA DrainReleaseKeeps == ASSUME StoreInv, DrainRelease PROVE StoreInv'
  <1>1. drain = "release" /\ drain' = "queue" /\ hand' = Nil
        /\ UNCHANGED <<made, tombstones, deferVars, holder>>
    BY DEF DrainRelease
  <1>2. /\ hand \in Names /\ namedBorrows \in [Names -> Seq(Buffer)]
        /\ borrowRefs \in [Buffer -> Nat]
    BY <1>1 DEF StoreInv, StoreTypeOK, SlotsInv
  <1>3. PICK n \in Names : n = hand
    BY <1>2
  <1>4. namedBorrows[n] # << >> /\ Head(namedBorrows[n]) \in Buffer
    <2>1. One(hand = n) = 1
      BY <1>3 DEF One
    <2>2. Len(namedBorrows[n]) > 0
      BY <2>1, ComingIs
    <2> QED BY <1>2, <2>2
  <1>5. PICK b \in Buffer : b = Head(namedBorrows[n])
    BY <1>4
  <1>6. ReleaseBuffer(n, b) /\ namedBorrows' = [namedBorrows EXCEPT ![n] = Tail(@)]
    <2>1. /\ ReleaseBuffer(hand, Head(namedBorrows[hand]))
          /\ namedBorrows' = [namedBorrows EXCEPT ![hand] = Tail(@)]
      BY <1>3, <1>4 DEF DrainRelease
    <2> QED BY <1>3, <1>5, <2>1
  <1>7. ASSUME NEW c \in Buffer
        PROVE  /\ IsFiniteSet(NamedIn(namedBorrows, c)) /\ NamedOf(c) = NamedIn(namedBorrows, c)
               /\ Cardinality(NamedIn(namedBorrows, c)) \in Nat
    BY <1>2, NamedNow, BufferIs
  <1>8. borrowRefs[b] > 0
    <2>1. <<n, 1>> \in NamedIn(namedBorrows, b)
      <3>1. 1 \in DOMAIN namedBorrows[n] /\ namedBorrows[n][1] = b
        BY <1>2, <1>4, <1>5
      <3> QED BY <3>1 DEF NamedIn
    <2>2. Cardinality(NamedOf(b)) # 0
      BY <1>7, <2>1, FS_EmptySet
    <2> QED BY <2>2, BufferIs
  <1>9. /\ MemoryInv' /\ ReleasedOnceUnused' /\ MemoryTypes /\ TablesInv'
        /\ buffers' \in [Names -> Buffer \cup {Nil}] /\ detached' \subseteq Buffer
        /\ refs' \in [Buffer -> Nat] /\ borrowRefs' \in [Buffer -> Nat]
        /\ borrowRefs'[b] = borrowRefs[b] - 1
        /\ \A c \in Buffer : c # b => borrowRefs'[c] = borrowRefs[c]
        /\ \A c \in Buffer : refs'[c] = One(c \in owned') + borrowRefs'[c]
        /\ owned' = owned /\ memory' = memory
    BY <1>1, <1>6, <1>8, ReleaseIs
  <1>10. /\ namedBorrows' \in [Names -> Seq(Buffer)]
         /\ namedBorrows'[n] = Tail(namedBorrows[n])
         /\ \A o \in Names : o # n => namedBorrows'[o] = namedBorrows[o]
    <2>1. Tail(namedBorrows[n]) \in Seq(Buffer)
      BY <1>2, <1>4
    <2> QED BY <1>2, <1>6, <2>1
  <1>11. CountsInv'
    <2>1. ASSUME NEW c \in Buffer
          PROVE  /\ refs'[c] = One(c \in owned') + borrowRefs'[c]
                 /\ borrowRefs'[c] = Cardinality(Holding("lease", c)') + Cardinality(NamedOf(c)')
                 /\ IsFiniteSet(NamedOf(c)')
      <3>1. /\ borrowRefs[c] = Cardinality(Holding("lease", c)) + Cardinality(NamedOf(c))
            /\ borrowRefs[c] \in Nat /\ Cardinality(Holding("lease", c)) \in Nat
            /\ Cardinality(NamedOf(c)) \in Nat
        BY BufferIs
      <3>2. borrowRefs'[c] = borrowRefs[c] - One(b = c)
        BY <1>9, <3>1 DEF One
      <3>3. Holding("lease", c)' = Holding("lease", c)
        BY <1>1 DEF Holding
      <3>4. /\ IsFiniteSet(NamedIn(WithoutOldest(namedBorrows, n), c))
            /\ Cardinality(NamedIn(WithoutOldest(namedBorrows, n), c))
                 = Cardinality(NamedIn(namedBorrows, c)) - One(Head(namedBorrows[n]) = c)
        BY <1>2, <1>4, <1>7, NamedTail DEF One
      <3>5. NamedOf(c)' = NamedIn(WithoutOldest(namedBorrows, n), c)
        BY <1>6, <1>10, NamedNow DEF WithoutOldest
      <3> QED BY <1>5, <1>7, <1>9, <3>1, <3>2, <3>3, <3>4, <3>5 DEF One
    <2> QED BY <2>1, CountsAfter
  <1>12. LeasesInv'
    BY <1>1, <1>9, LeasesStand
  <1>13. SlotsInv'
    BY <1>1, <1>2 DEF StoreInv, SlotsInv, Distinct, KeptOK, deferVars
  <1>14. NamedBorrowsBalance'
    <2> SUFFICES ASSUME NEW o \in Names PROVE Coming(o)'
      BY DEF NamedBorrowsBalance
    <2>1. UNCHANGED <<deferred, order, counts, lost, holder>>
      BY <1>1 DEF deferVars
    <2>2. Viewing(o)' = Viewing(o) /\ Places(deferred, o)' = Places(deferred, o)
          /\ ToSet(order)' = ToSet(order)
      BY <2>1 DEF Viewing, Places, ToSet
    <2>3. One(hand' = o) = 0
      <3>1. hand' # o
        BY <1>1, ArrowStoreAssumption
      <3> QED BY <3>1 DEF One
    <2>4. Len(namedBorrows'[o]) = Len(namedBorrows[o]) - One(hand = o)
      <3>1. CASE o = n
        <4>1. Len(Tail(namedBorrows[n])) = Len(namedBorrows[n]) - 1
          BY <1>2, <1>4
        <4> QED BY <1>3, <1>10, <3>1, <4>1 DEF One
      <3>2. CASE o # n
        <4>1. One(hand = o) = 0 /\ namedBorrows'[o] = namedBorrows[o]
              /\ Len(namedBorrows[o]) \in Nat
          BY <1>3, <1>10, <3>2, ComingIs DEF One
        <4>2. \A i \in Nat : i = i - 0
          OBVIOUS
        <4> QED BY <4>1, <4>2
      <3> QED BY <3>1, <3>2
    <2>5. Cardinality(Viewing(o)) + Cardinality(Places(deferred, o)) + counts[o] + 0 + lost[o]
            = Len(namedBorrows[o]) - One(hand = o)
      BY ComingIs
    <2> QED BY <2>1, <2>2, <2>3, <2>4, <2>5, ComingIs DEF Coming
  <1> QED BY <1>1, <1>9, <1>10, <1>11, <1>12, <1>13, <1>14, Assembled
          DEF StoreInv, StoreTypeOK, deferVars

----------------------------------------------------------------------------
(* The Arrow store: deferred releases                                      *)

(* No Buffer changes, and no lease, while a release is on its way.         *)
LEMMA BuffersStand ==
  ASSUME StoreInv, UNCHANGED <<bufferVars, nameVars, namedBorrows, detached>>,
         \A h \in Slots : /\ holder'[h].kind = "lease" <=> holder[h].kind = "lease"
                          /\ holder[h].kind = "lease" => holder'[h] = holder[h]
  PROVE  /\ CountsInv' /\ TablesInv' /\ MemoryInv' /\ ReleasedOnceUnused' /\ LeasesInv'
         /\ MemoryTypes /\ made' \in 0..MaxMemory /\ buffers' \in [Names -> Buffer \cup {Nil}]
         /\ refs' \in [Buffer -> Nat] /\ borrowRefs' \in [Buffer -> Nat]
         /\ owned' \subseteq Buffer /\ detached' \subseteq Buffer
         /\ tombstones' \in Seq(Names) /\ Len(tombstones') <= MaxTombstones
         /\ namedBorrows' \in [Names -> Seq(Buffer)]
  <1>1. UNCHANGED <<refs, borrowRefs, owned, memory, hooked, freed, made, buffers, tombstones,
                    namedBorrows, detached>>
    BY DEF bufferVars, nameVars
  <1>2. \A b : Holding("lease", b)' = Holding("lease", b) /\ NamedOf(b)' = NamedOf(b)
    BY <1>1 DEF Holding, NamedOf, Places
  <1>3. CountsInv'
    BY <1>1, <1>2 DEF StoreInv, CountsInv, ReferencesConserved, One
  <1>4. TablesInv'
    BY <1>1 DEF StoreInv, TablesInv, Distinct
  <1>5. MemoryInv'
    BY <1>1 DEF StoreInv, MemoryInv
  <1>6. ReleasedOnceUnused'
    BY <1>1 DEF StoreInv, ReleasedOnceUnused, Backed, One
  <1>7. LeasesInv'
    BY <1>1 DEF StoreInv, LeasesInv
  <1>8. MemoryTypes
    BY <1>1 DEF StoreInv, StoreTypeOK, MemoryTypes
  <1> QED BY <1>1, <1>3, <1>4, <1>5, <1>6, <1>7, <1>8 DEF StoreInv, StoreTypeOK

(* A guest drops its view: the name is queued, or the thread goes on to    *)
(* the overflow with it.                                                   *)
LEMMA BufReleaseKeeps ==
  ASSUME StoreInv, NEW h \in Slots, BufRelease(h)
  PROVE  StoreInv'
  <1>1. /\ holder[h].kind = "view"
        /\ UNCHANGED <<bufferVars, nameVars, namedBorrows, detached, order, counts, lost,
                       drainVars>>
    BY DEF BufRelease
  <1>2. /\ holder[h] \in Kept /\ holder \in [Slots -> Kept] /\ holder[h].name \in Names
        /\ holder[h].buf \in Buffer /\ deferred \in Seq(Names) /\ Len(deferred) <= QueueCapacity
    BY <1>1 DEF StoreInv, StoreTypeOK, SlotsInv, KeptOK
  <1>3. PICK n \in Names : n = holder[h].name
    BY <1>2
  <1> DEFINE spill == [kind |-> "spill", name |-> n, buf |-> holder[h].buf, mem |-> holder[h].mem]
  <1>4. /\ spill \in Kept /\ KeptOK(spill) /\ spill.kind = "spill" /\ spill.name = n
        /\ Nothing \in Kept /\ KeptOK(Nothing) /\ Nothing.kind = "none"
    BY <1>2 DEF Kept, KeptOK, Nothing
  <1>5. \/ /\ Len(deferred) < QueueCapacity
           /\ deferred' = Append(deferred, n) /\ holder' = [holder EXCEPT ![h] = Nothing]
        \/ deferred' = deferred /\ holder' = [holder EXCEPT ![h] = spill]
    <2>1. CASE Len(deferred) < QueueCapacity
      BY <1>3, <2>1 DEF BufRelease
    <2>2. CASE ~(Len(deferred) < QueueCapacity)
      <3>1. deferred' = deferred /\ holder' = [holder EXCEPT ![h].kind = "spill"]
        BY <2>2 DEF BufRelease
      <3>2. [holder[h] EXCEPT !.kind = "spill"] = spill
        BY <1>2, <1>3 DEF Kept
      <3> QED BY <1>2, <3>1, <3>2
    <2> QED BY <2>1, <2>2
  <1> HIDE DEF spill
  <1>6. PICK k \in {Nothing, spill} : holder' = [holder EXCEPT ![h] = k]
    BY <1>5
  <1>7. /\ k \in Kept /\ KeptOK(k) /\ k.kind # "lease"
        /\ \A o : Views(k, o) <=> k = spill /\ n = o
        /\ \A o : Views(holder[h], o) <=> n = o
    BY <1>1, <1>3, <1>4, <1>6 DEF Views
  <1>8. /\ holder' \in [Slots -> Kept] /\ holder'[h] = k
        /\ \A o \in Slots : o # h => holder'[o] = holder[o]
        /\ \A o : Cardinality(Viewing(o)') = Cardinality(Viewing(o))
                    + One(Views(k, o)) - One(Views(holder[h], o))
    BY <1>6, <1>7, SlotMoves DEF StoreInv
  <1>9. \A o \in Slots : /\ holder'[o].kind = "lease" <=> holder[o].kind = "lease"
                         /\ holder[o].kind = "lease" => holder'[o] = holder[o]
    BY <1>1, <1>7, <1>8
  <1>10. /\ CountsInv' /\ TablesInv' /\ MemoryInv' /\ ReleasedOnceUnused' /\ LeasesInv'
         /\ MemoryTypes /\ made' \in 0..MaxMemory /\ buffers' \in [Names -> Buffer \cup {Nil}]
         /\ refs' \in [Buffer -> Nat] /\ borrowRefs' \in [Buffer -> Nat]
         /\ owned' \subseteq Buffer /\ detached' \subseteq Buffer
         /\ tombstones' \in Seq(Names) /\ Len(tombstones') <= MaxTombstones
         /\ namedBorrows' \in [Names -> Seq(Buffer)]
    BY <1>1, <1>9, BuffersStand
  <1>11. /\ deferred' \in Seq(Names) /\ Len(deferred') <= QueueCapacity
         /\ \A o : Cardinality(Places(deferred, o)') + One(Views(k, o))
                     = Cardinality(Places(deferred, o)) + One(Views(holder[h], o))
    <2>1. CASE /\ Len(deferred) < QueueCapacity
               /\ deferred' = Append(deferred, n) /\ holder' = [holder EXCEPT ![h] = Nothing]
      <3>1. k = Nothing /\ k # spill
        BY <1>2, <1>4, <1>8, <2>1
      <3>2. ASSUME NEW o
            PROVE  Cardinality(Places(deferred, o)') + One(Views(k, o))
                     = Cardinality(Places(deferred, o)) + One(Views(holder[h], o))
        <4>1. Places(deferred, o)' = Places(Append(deferred, n), o)
          BY <2>1 DEF Places
        <4>2. /\ Cardinality(Places(Append(deferred, n), o))
                   = Cardinality(Places(deferred, o)) + One(n = o)
              /\ Cardinality(Places(deferred, o)) \in Nat
          BY <1>2, PlacesAppend, PlacesFinite DEF One
        <4> QED BY <1>7, <3>1, <4>1, <4>2 DEF One
      <3>3. /\ Append(deferred, n) \in Seq(Names) /\ Len(Append(deferred, n)) = Len(deferred) + 1
            /\ Len(deferred) \in Nat
        BY <1>2, Enqueued
      <3> QED BY <2>1, <3>2, <3>3, ArrowStoreAssumption
    <2>2. CASE deferred' = deferred /\ holder' = [holder EXCEPT ![h] = spill]
      <3>1. k = spill
        BY <1>2, <1>8, <2>2
      <3>2. \A o : Places(deferred, o)' = Places(deferred, o)
        BY <2>2 DEF Places
      <3>3. \A o : Cardinality(Places(deferred, o)) \in Nat
        BY <1>2, PlacesFinite
      <3> QED BY <1>2, <1>7, <2>2, <3>1, <3>2, <3>3 DEF One
    <2> QED BY <1>5, <2>1, <2>2
  <1>12. SlotsInv'
    <2>1. \A o \in Slots : KeptOK(holder'[o])
      BY <1>7, <1>8 DEF StoreInv, SlotsInv
    <2> QED BY <1>1, <2>1 DEF StoreInv, SlotsInv, Distinct, KeptOK, drainVars
  <1>13. NamedBorrowsBalance'
    <2> SUFFICES ASSUME NEW o \in Names PROVE Coming(o)'
      BY DEF NamedBorrowsBalance
    <2>1. UNCHANGED <<order, counts, lost, hand, namedBorrows>>
      BY <1>1 DEF drainVars
    <2>2. ToSet(order)' = ToSet(order) /\ One(hand = o)' = One(hand = o)
      BY <2>1 DEF ToSet, One
    <2>3. Cardinality(Viewing(o)') + Cardinality(Places(deferred, o)')
            = Cardinality(Viewing(o)) + Cardinality(Places(deferred, o))
      <3>1. Cardinality(Places(deferred, o)') \in Nat
        <4>1. PICK q \in Seq(Names) : q = deferred'
          BY <1>11
        <4>2. Places(deferred, o)' = Places(q, o)
          BY <4>1 DEF Places
        <4> QED BY <4>2, PlacesFinite
      <3>2. One(Views(k, o)) \in Nat /\ One(Views(holder[h], o)) \in Nat
        BY DEF One
      <3>3. Cardinality(Viewing(o)') = Cardinality(Viewing(o))
                    + One(Views(k, o)) - One(Views(holder[h], o))
        BY <1>8
      <3>4. Cardinality(Places(deferred, o)') + One(Views(k, o))
              = Cardinality(Places(deferred, o)) + One(Views(holder[h], o))
        BY <1>11
      <3>5. \A v, c, p, x, y \in Nat : p + x = c + y => (v + x - y) + p = v + c
        OBVIOUS
      <3>6. Cardinality(Viewing(o)) \in Nat /\ Cardinality(Places(deferred, o)) \in Nat
        BY ComingIs
      <3> QED BY <3>1, <3>2, <3>3, <3>4, <3>5, <3>6
    <2> QED BY <2>1, <2>2, <2>3, ComingIs DEF Coming
  <1> QED BY <1>1, <1>8, <1>10, <1>11, <1>12, <1>13, Assembled
          DEF StoreInv, StoreTypeOK, drainVars

(* A name that joins the order of the overflow, and the first that leaves. *)
LEMMA OrderWith ==
  ASSUME NEW q \in Seq(Names), Distinct(q), NEW n \in Names, n \notin ToSet(q)
  PROVE  /\ Append(q, n) \in Seq(Names) /\ Len(Append(q, n)) = Len(q) + 1
         /\ Distinct(Append(q, n))
         /\ \A o : o \in ToSet(Append(q, n)) <=> o \in ToSet(q) \/ o = n
  <1>1. PICK r : r = Append(q, n)
    OBVIOUS
  <1>2. /\ r \in Seq(Names) /\ Len(r) = Len(q) + 1 /\ r # << >> /\ r[Len(r)] = n
        /\ DOMAIN r = 1..Len(r) /\ DOMAIN q = 1..Len(q) /\ Len(q) \in Nat
        /\ \A i \in DOMAIN q : r[i] = q[i]
    BY <1>1, Enqueued
  <1>3. \A i \in DOMAIN r : i \in DOMAIN q \/ i = Len(r)
    BY <1>2
  <1>4. \A i \in DOMAIN q : q[i] # n
    BY DEF ToSet
  <1>5. Distinct(r)
    BY <1>2, <1>3, <1>4 DEF Distinct
  <1>6. Len(r) \in DOMAIN r /\ \A i \in DOMAIN q : i \in DOMAIN r
    BY <1>2
  <1>7. \A o : o \in ToSet(r) <=> o \in ToSet(q) \/ o = n
    BY <1>2, <1>3, <1>6 DEF ToSet
  <1> QED BY <1>1, <1>2, <1>5, <1>7

LEMMA OrderWithout ==
  ASSUME NEW q \in Seq(Names), Distinct(q), q # << >>
  PROVE  /\ Tail(q) \in Seq(Names) /\ Len(Tail(q)) = Len(q) - 1 /\ Distinct(Tail(q))
         /\ \A o : o \in ToSet(Tail(q)) <=> o \in ToSet(q) /\ o # Head(q)
  <1>1. PICK r : r = Tail(q)
    OBVIOUS
  <1>2. /\ r \in Seq(Names) /\ Len(r) = Len(q) - 1 /\ q[1] = Head(q) /\ Len(q) \in Nat
        /\ Len(q) > 0 /\ DOMAIN q = 1..Len(q) /\ DOMAIN r = 1..(Len(q) - 1)
        /\ \A i \in 1..(Len(q) - 1) : r[i] = q[i + 1]
    BY <1>1
  <1>3. \A i \in DOMAIN r : i + 1 \in DOMAIN q /\ i + 1 # 1 /\ r[i] = q[i + 1] /\ i \in Nat
    BY <1>2
  <1>4. Distinct(r)
    BY <1>3 DEF Distinct
  <1>5. \A k \in DOMAIN q : k # 1 => k - 1 \in DOMAIN r /\ r[k - 1] = q[k]
    <2> TAKE k \in DOMAIN q
    <2> HAVE k # 1
    <2>1. k - 1 \in 1..(Len(q) - 1) /\ (k - 1) + 1 = k
      BY <1>2
    <2> QED BY <1>2, <2>1
  <1>6. ASSUME NEW o PROVE o \in ToSet(r) <=> o \in ToSet(q) /\ o # Head(q)
    <2>1. ASSUME o \in ToSet(r) PROVE o \in ToSet(q) /\ o # Head(q)
      <3>1. PICK i \in DOMAIN r : o = r[i]
        BY <2>1 DEF ToSet
      <3>2. o = q[i + 1] /\ i + 1 \in DOMAIN q /\ i + 1 # 1 /\ 1 \in DOMAIN q
        BY <1>2, <1>3, <3>1
      <3> QED BY <1>2, <3>2 DEF ToSet, Distinct
    <2>2. ASSUME o \in ToSet(q), o # Head(q) PROVE o \in ToSet(r)
      <3>1. PICK k \in DOMAIN q : o = q[k]
        BY <2>2 DEF ToSet
      <3>2. k # 1
        BY <1>2, <2>2, <3>1
      <3> QED BY <1>5, <3>1, <3>2 DEF ToSet
    <2> QED BY <2>1, <2>2
  <1> QED BY <1>1, <1>2, <1>4, <1>6

(* The thread leaves the name in the overflow, or drops the release.       *)
LEMMA SpillKeeps ==
  ASSUME StoreInv, NEW h \in Slots, Spill(h)
  PROVE  StoreInv'
  <1>1. /\ holder[h].kind = "spill" /\ holder' = [holder EXCEPT ![h] = Nothing]
        /\ UNCHANGED <<bufferVars, nameVars, namedBorrows, detached, deferred, drainVars>>
    BY DEF Spill
  <1>2. /\ holder[h].name \in Names /\ order \in Seq(Names) /\ Len(order) <= MaxOverflow
        /\ counts \in [Names -> Nat] /\ lost \in [Names -> Nat] /\ Distinct(order)
    BY <1>1 DEF StoreInv, StoreTypeOK, SlotsInv, KeptOK
  <1>3. PICK n \in Names : n = holder[h].name
    BY <1>2
  <1>4. \/ lost' = [lost EXCEPT ![n] = @ + 1] /\ order' = order /\ counts' = counts
        \/ /\ ~(counts[n] = 0 /\ Len(order) >= MaxOverflow)
           /\ order' = IF counts[n] = 0 THEN Append(order, n) ELSE order
           /\ counts' = [counts EXCEPT ![n] = @ + 1] /\ lost' = lost
    BY <1>3 DEF Spill
  <1>5. /\ Nothing \in Kept /\ KeptOK(Nothing) /\ Nothing.kind = "none"
        /\ \A o : ~Views(Nothing, o) /\ (Views(holder[h], o) <=> n = o)
    BY <1>1, <1>3 DEF Kept, KeptOK, Nothing, Views
  <1>6. /\ holder' \in [Slots -> Kept] /\ holder'[h] = Nothing
        /\ \A o \in Slots : o # h => holder'[o] = holder[o]
        /\ \A o : Cardinality(Viewing(o)') = Cardinality(Viewing(o))
                    + One(Views(Nothing, o)) - One(Views(holder[h], o))
    BY <1>1, <1>5, SlotMoves DEF StoreInv
  <1>7. \A o \in Slots : /\ holder'[o].kind = "lease" <=> holder[o].kind = "lease"
                         /\ holder[o].kind = "lease" => holder'[o] = holder[o]
    BY <1>1, <1>5, <1>6
  <1>8. /\ CountsInv' /\ TablesInv' /\ MemoryInv' /\ ReleasedOnceUnused' /\ LeasesInv'
        /\ MemoryTypes /\ made' \in 0..MaxMemory /\ buffers' \in [Names -> Buffer \cup {Nil}]
        /\ refs' \in [Buffer -> Nat] /\ borrowRefs' \in [Buffer -> Nat]
        /\ owned' \subseteq Buffer /\ detached' \subseteq Buffer
        /\ tombstones' \in Seq(Names) /\ Len(tombstones') <= MaxTombstones
        /\ namedBorrows' \in [Names -> Seq(Buffer)]
    BY <1>1, <1>7, BuffersStand
  <1>9. counts[n] > 0 <=> n \in ToSet(order)
    BY ComingIs
  <1>10. /\ order' \in Seq(Names) /\ Len(order') <= MaxOverflow /\ Distinct(order')
         /\ counts' \in [Names -> Nat] /\ lost' \in [Names -> Nat]
         /\ \A o \in Names : /\ counts'[o] + lost'[o] = counts[o] + lost[o] + One(n = o)
                             /\ counts'[o] > 0 <=> o \in ToSet(order')
    <2>1. CASE lost' = [lost EXCEPT ![n] = @ + 1] /\ order' = order /\ counts' = counts
      <3>1. \A o \in Names : counts'[o] > 0 <=> o \in ToSet(order')
        BY <2>1, ComingIs
      <3>2. \A o \in Names : counts'[o] + lost'[o] = counts[o] + lost[o] + One(n = o)
        BY <1>2, <2>1 DEF One
      <3> QED BY <1>2, <2>1, <3>1, <3>2
    <2>2. CASE /\ ~(counts[n] = 0 /\ Len(order) >= MaxOverflow)
               /\ order' = IF counts[n] = 0 THEN Append(order, n) ELSE order
               /\ counts' = [counts EXCEPT ![n] = @ + 1] /\ lost' = lost
      <3>1. /\ counts' \in [Names -> Nat] /\ counts'[n] = counts[n] + 1 /\ counts'[n] > 0
            /\ \A o \in Names : o # n => counts'[o] = counts[o]
        BY <1>2, <2>2
      <3>2. \A o \in Names : counts'[o] + lost'[o] = counts[o] + lost[o] + One(n = o)
        BY <1>2, <2>2 DEF One
      <3>3. PICK q : q = order'
        OBVIOUS
      <3>4. /\ q \in Seq(Names) /\ Len(q) <= MaxOverflow /\ Distinct(q)
            /\ \A o : o \in ToSet(q) <=> o \in ToSet(order) \/ o = n
        <4>1. CASE counts[n] = 0
          <5>1. n \notin ToSet(order) /\ q = Append(order, n)
            BY <1>9, <2>2, <3>3, <4>1
          <5>2. /\ q \in Seq(Names) /\ Len(q) = Len(order) + 1 /\ Distinct(q)
                /\ \A o : o \in ToSet(q) <=> o \in ToSet(order) \/ o = n
            BY <1>2, <5>1, OrderWith
          <5>3. Len(q) <= MaxOverflow
            <6>1. Len(order) \in Nat /\ ~(Len(order) >= MaxOverflow)
              BY <1>2, <2>2, <4>1
            <6> QED BY <5>2, <6>1, ArrowStoreAssumption
          <5> QED BY <5>2, <5>3
        <4>2. CASE counts[n] # 0
          <5>1. n \in ToSet(order) /\ q = order
            BY <1>2, <1>9, <2>2, <3>3, <4>2
          <5> QED BY <1>2, <5>1
        <4> QED BY <4>1, <4>2
      <3>5. \A o \in Names : counts'[o] > 0 <=> o \in ToSet(q)
        <4> TAKE o \in Names
        <4>1. CASE o = n
          BY <3>1, <3>4, <4>1
        <4>2. CASE o # n
          <5>1. counts'[o] > 0 <=> counts[o] > 0
            BY <3>1, <4>2
          <5> QED BY <3>4, <4>2, <5>1, ComingIs
        <4> QED BY <4>1, <4>2
      <3> QED BY <1>2, <2>2, <3>1, <3>2, <3>3, <3>4, <3>5
    <2> QED BY <1>4, <2>1, <2>2
  <1>11. SlotsInv'
    <2>1. \A o \in Slots : KeptOK(holder'[o])
      BY <1>5, <1>6 DEF StoreInv, SlotsInv
    <2> QED BY <1>1, <1>10, <2>1 DEF StoreInv, SlotsInv, Distinct, KeptOK, drainVars
  <1>12. NamedBorrowsBalance'
    <2> SUFFICES ASSUME NEW o \in Names PROVE Coming(o)'
      BY DEF NamedBorrowsBalance
    <2>1. UNCHANGED <<deferred, hand, namedBorrows>>
      BY <1>1 DEF drainVars
    <2>2. Places(deferred, o)' = Places(deferred, o) /\ One(hand = o)' = One(hand = o)
      BY <2>1 DEF Places, One
    <2>3. /\ counts'[o] \in Nat /\ lost'[o] \in Nat /\ One(n = o) \in Nat
          /\ counts'[o] + lost'[o] = counts[o] + lost[o] + One(n = o)
          /\ counts'[o] > 0 <=> o \in ToSet(order)'
      <3>1. One(n = o) \in Nat
        BY DEF One
      <3>2. ToSet(order)' = ToSet(order')
        BY DEF ToSet
      <3> QED BY <1>10, <3>1, <3>2
    <2>4. Cardinality(Viewing(o)') = Cardinality(Viewing(o)) - One(n = o)
      <3>1. One(Views(Nothing, o)) = 0 /\ One(Views(holder[h], o)) = One(n = o)
        BY <1>5 DEF One
      <3>2. Cardinality(Viewing(o)') = Cardinality(Viewing(o)) + 0 - One(n = o)
        BY <1>6, <3>1
      <3>3. \A v, x \in Nat : v + 0 - x = v - x
        OBVIOUS
      <3> QED BY <2>3, <3>2, <3>3, ComingIs
    <2>5. \A v, p, c, l, x, d, m, g \in Nat :
            d + m = c + l + x => (v - x) + p + d + g + m = v + p + c + g + l
      OBVIOUS
    <2>6. (Cardinality(Viewing(o)) - One(n = o)) + Cardinality(Places(deferred, o)) + counts'[o]
             + One(hand = o) + lost'[o]
            = Cardinality(Viewing(o)) + Cardinality(Places(deferred, o)) + counts[o]
                + One(hand = o) + lost[o]
      <3>1. PICK v \in Nat, p \in Nat, c \in Nat, g \in Nat, l \in Nat :
              /\ v = Cardinality(Viewing(o)) /\ p = Cardinality(Places(deferred, o))
              /\ c = counts[o] /\ g = One(hand = o) /\ l = lost[o]
        BY ComingIs
      <3>2. PICK d \in Nat, m \in Nat, x \in Nat :
              d = counts'[o] /\ m = lost'[o] /\ x = One(n = o)
        BY <2>3
      <3>3. d + m = c + l + x
        BY <2>3, <3>1, <3>2
      <3>4. (v - x) + p + d + g + m = v + p + c + g + l
        BY <2>5, <3>3
      <3> QED BY <3>1, <3>2, <3>4
    <2>7. (Cardinality(Viewing(o)) - One(n = o)) + Cardinality(Places(deferred, o)) + counts'[o]
             + One(hand = o) + lost'[o] = Len(namedBorrows[o])
      BY <2>6, ComingIs
    <2> QED BY <2>1, <2>2, <2>3, <2>4, <2>7 DEF Coming
  <1> QED BY <1>1, <1>6, <1>8, <1>10, <1>11, <1>12, Assembled
          DEF StoreInv, StoreTypeOK, drainVars

(* The drain takes a name from the channel.                                *)
LEMMA DrainQueueKeeps == ASSUME StoreInv, DrainQueue PROVE StoreInv'
  <1>1. /\ drain = "queue"
        /\ UNCHANGED <<bufferVars, nameVars, namedBorrows, detached, order, counts, lost, holder>>
    BY DEF DrainQueue
  <1>2. /\ deferred \in Seq(Names) /\ Len(deferred) <= QueueCapacity /\ hand = Nil
        /\ holder \in [Slots -> Kept] /\ hand \in Names \cup {Nil}
    BY <1>1 DEF StoreInv, StoreTypeOK, SlotsInv
  <1>3. \/ drain' = "overflow" /\ UNCHANGED <<deferred, hand>>
        \/ /\ deferred # << >> /\ drain' = "release" /\ hand' = Head(deferred)
           /\ deferred' = Tail(deferred)
    BY DEF DrainQueue
  <1>4. \A o \in Slots : /\ holder'[o].kind = "lease" <=> holder[o].kind = "lease"
                         /\ holder[o].kind = "lease" => holder'[o] = holder[o]
    BY <1>1
  <1>5. /\ CountsInv' /\ TablesInv' /\ MemoryInv' /\ ReleasedOnceUnused' /\ LeasesInv'
        /\ MemoryTypes /\ made' \in 0..MaxMemory /\ buffers' \in [Names -> Buffer \cup {Nil}]
        /\ refs' \in [Buffer -> Nat] /\ borrowRefs' \in [Buffer -> Nat]
        /\ owned' \subseteq Buffer /\ detached' \subseteq Buffer
        /\ tombstones' \in Seq(Names) /\ Len(tombstones') <= MaxTombstones
        /\ namedBorrows' \in [Names -> Seq(Buffer)]
    BY <1>1, <1>4, BuffersStand
  <1>6. /\ deferred' \in Seq(Names) /\ Len(deferred') <= QueueCapacity
        /\ hand' \in Names \cup {Nil} /\ drain' \in {"queue", "overflow", "release"}
        /\ drain' = "release" <=> hand' # Nil
        /\ \A o \in Names : Cardinality(Places(deferred, o)') + One(hand' = o)
                              = Cardinality(Places(deferred, o)) + One(hand = o)
    <2>1. CASE drain' = "overflow" /\ UNCHANGED <<deferred, hand>>
      <3>1. \A o : Places(deferred, o)' = Places(deferred, o) /\ One(hand = o)' = One(hand = o)
        BY <2>1 DEF Places, One
      <3> QED BY <1>2, <2>1, <3>1
    <2>2. CASE /\ deferred # << >> /\ drain' = "release" /\ hand' = Head(deferred)
               /\ deferred' = Tail(deferred)
      <3>1. /\ Head(deferred) \in Names /\ Tail(deferred) \in Seq(Names)
            /\ Len(Tail(deferred)) = Len(deferred) - 1 /\ Len(deferred) \in Nat
        BY <1>2, <2>2
      <3>2. ASSUME NEW o \in Names
            PROVE  Cardinality(Places(deferred, o)') + One(hand' = o)
                     = Cardinality(Places(deferred, o)) + One(hand = o)
        <4>1. Places(deferred, o)' = Places(Tail(deferred), o)
          BY <2>2 DEF Places
        <4>2. Cardinality(Places(Tail(deferred), o))
                = Cardinality(Places(deferred, o)) - One(Head(deferred) = o)
          BY <1>2, <2>2, PlacesTail DEF One
        <4>3. Cardinality(Places(deferred, o)) \in Nat
          BY <1>2, PlacesFinite
        <4>4. One(hand' = o) = One(Head(deferred) = o) /\ One(hand = o) = 0
              /\ One(Head(deferred) = o) \in Nat
          BY <1>2, <2>2, ArrowStoreAssumption DEF One
        <4>5. \A p, x \in Nat : (p - x) + x = p + 0
          OBVIOUS
        <4> QED BY <4>1, <4>2, <4>3, <4>4, <4>5
      <3>3. Head(deferred) # Nil
        BY <3>1, ArrowStoreAssumption
      <3> QED BY <1>2, <2>2, <3>1, <3>2, <3>3, ArrowStoreAssumption
    <2> QED BY <1>3, <2>1, <2>2
  <1>7. SlotsInv'
    BY <1>1, <1>6 DEF StoreInv, SlotsInv, Distinct, KeptOK
  <1>8. NamedBorrowsBalance'
    <2> SUFFICES ASSUME NEW o \in Names PROVE Coming(o)'
      BY DEF NamedBorrowsBalance
    <2>1. Viewing(o)' = Viewing(o) /\ ToSet(order)' = ToSet(order)
      BY <1>1 DEF Viewing, ToSet
    <2>2. Cardinality(Places(deferred, o)') \in Nat /\ One(hand' = o) \in Nat
      <3>1. PICK q \in Seq(Names) : q = deferred'
        BY <1>6
      <3>2. Places(deferred, o)' = Places(q, o)
        BY <3>1 DEF Places
      <3> QED BY <3>2, PlacesFinite DEF One
    <2>3. Cardinality(Viewing(o)) + Cardinality(Places(deferred, o)') + counts[o]
            + One(hand' = o) + lost[o] = Len(namedBorrows[o])
      <3>1. PICK v \in Nat, p \in Nat, c \in Nat, g \in Nat, l \in Nat :
              /\ v = Cardinality(Viewing(o)) /\ p = Cardinality(Places(deferred, o))
              /\ c = counts[o] /\ g = One(hand = o) /\ l = lost[o]
        BY ComingIs
      <3>a. v + p + c + g + l = Len(namedBorrows[o])
        BY <3>1, ComingIs
      <3>2. PICK q \in Nat, x \in Nat : q = Cardinality(Places(deferred, o)') /\ x = One(hand' = o)
        BY <2>2
      <3>3. q + x = p + g
        BY <1>6, <3>1, <3>2
      <3>4. v + q + c + x + l = v + p + c + g + l
        BY <3>3
      <3> QED BY <3>1, <3>2, <3>4, <3>a
    <2> QED BY <1>1, <2>1, <2>3, ComingIs DEF Coming
  <1> QED BY <1>1, <1>5, <1>6, <1>7, <1>8, Assembled DEF StoreInv, StoreTypeOK

(* The drain takes a name from the overflow, which keeps its order until   *)
(* none is left of it.                                                     *)
LEMMA DrainOverflowKeeps == ASSUME StoreInv, DrainOverflow PROVE StoreInv'
  <1>1. /\ drain = "overflow"
        /\ UNCHANGED <<bufferVars, nameVars, namedBorrows, detached, deferred, lost, holder>>
    BY DEF DrainOverflow
  <1>2. /\ order \in Seq(Names) /\ Len(order) <= MaxOverflow /\ Distinct(order) /\ hand = Nil
        /\ counts \in [Names -> Nat] /\ lost \in [Names -> Nat]
    BY <1>1 DEF StoreInv, StoreTypeOK, SlotsInv
  <1>3. \/ drain' = "queue" /\ UNCHANGED <<order, counts, hand>>
        \/ /\ order # << >> /\ drain' = "release" /\ hand' = Head(order)
           /\ counts' = [counts EXCEPT ![Head(order)] = @ - 1]
           /\ order' = IF counts'[Head(order)] = 0 THEN Tail(order) ELSE order
    BY DEF DrainOverflow
  <1>4. \A o \in Slots : /\ holder'[o].kind = "lease" <=> holder[o].kind = "lease"
                         /\ holder[o].kind = "lease" => holder'[o] = holder[o]
    BY <1>1
  <1>5. /\ CountsInv' /\ TablesInv' /\ MemoryInv' /\ ReleasedOnceUnused' /\ LeasesInv'
        /\ MemoryTypes /\ made' \in 0..MaxMemory /\ buffers' \in [Names -> Buffer \cup {Nil}]
        /\ refs' \in [Buffer -> Nat] /\ borrowRefs' \in [Buffer -> Nat]
        /\ owned' \subseteq Buffer /\ detached' \subseteq Buffer
        /\ tombstones' \in Seq(Names) /\ Len(tombstones') <= MaxTombstones
        /\ namedBorrows' \in [Names -> Seq(Buffer)]
    BY <1>1, <1>4, BuffersStand
  <1>6. /\ order' \in Seq(Names) /\ Len(order') <= MaxOverflow /\ Distinct(order')
        /\ counts' \in [Names -> Nat] /\ hand' \in Names \cup {Nil}
        /\ drain' \in {"queue", "overflow", "release"}
        /\ drain' = "release" <=> hand' # Nil
        /\ \A o \in Names : /\ counts'[o] + One(hand' = o) = counts[o] + One(hand = o)
                            /\ counts'[o] > 0 <=> o \in ToSet(order')
    <2>1. CASE drain' = "queue" /\ UNCHANGED <<order, counts, hand>>
      <3>1. \A o : One(hand = o)' = One(hand = o)
        BY <2>1 DEF One
      <3>2. \A o \in Names : counts'[o] > 0 <=> o \in ToSet(order')
        BY <2>1, ComingIs
      <3> QED BY <1>2, <2>1, <3>1, <3>2
    <2>2. CASE /\ order # << >> /\ drain' = "release" /\ hand' = Head(order)
               /\ counts' = [counts EXCEPT ![Head(order)] = @ - 1]
               /\ order' = IF counts'[Head(order)] = 0 THEN Tail(order) ELSE order
      <3>1. PICK n \in Names : n = Head(order)
        BY <1>2, <2>2
      <3>2. n \in ToSet(order)
        <4>1. 1 \in DOMAIN order /\ order[1] = n
          BY <1>2, <2>2, <3>1
        <4> QED BY <4>1 DEF ToSet
      <3>3. counts[n] > 0 /\ counts[n] \in Nat
        BY <3>2, ComingIs
      <3>4. /\ counts' \in [Names -> Nat] /\ counts'[n] = counts[n] - 1
            /\ \A o \in Names : o # n => counts'[o] = counts[o]
        BY <1>2, <2>2, <3>1, <3>3
      <3>5. PICK q : q = order'
        OBVIOUS
      <3>6. /\ q \in Seq(Names) /\ Len(q) <= MaxOverflow /\ Distinct(q)
            /\ \A o \in Names : counts'[o] > 0 <=> o \in ToSet(q)
        <4>1. CASE counts'[n] = 0
          <5>1. q = Tail(order)
            BY <2>2, <3>1, <3>5, <4>1
          <5>2. /\ q \in Seq(Names) /\ Len(q) = Len(order) - 1 /\ Distinct(q)
                /\ \A o : o \in ToSet(q) <=> o \in ToSet(order) /\ o # n
            BY <1>2, <2>2, <3>1, <5>1, OrderWithout
          <5>3. Len(q) <= MaxOverflow
            <6>1. Len(order) \in Nat
              BY <1>2
            <6> QED BY <1>2, <5>2, <6>1, ArrowStoreAssumption
          <5>4. \A o \in Names : counts'[o] > 0 <=> o \in ToSet(q)
            <6> TAKE o \in Names
            <6>1. CASE o = n
              BY <4>1, <5>2, <6>1
            <6>2. CASE o # n
              BY <3>4, <5>2, <6>2, ComingIs
            <6> QED BY <6>1, <6>2
          <5> QED BY <5>2, <5>3, <5>4
        <4>2. CASE counts'[n] # 0
          <5>1. q = order /\ counts'[n] > 0
            <6>1. counts'[n] \in Nat
              BY <3>4
            <6>2. \A i \in Nat : i # 0 => i > 0
              OBVIOUS
            <6>3. counts'[Head(order)] # 0
              BY <3>1, <4>2
            <6>4. order' = order
              BY <2>2, <6>3
            <6> QED BY <3>5, <4>2, <6>1, <6>2, <6>4
          <5>2. \A o \in Names : counts'[o] > 0 <=> o \in ToSet(q)
            <6> TAKE o \in Names
            <6>1. CASE o = n
              BY <3>2, <5>1, <6>1
            <6>2. CASE o # n
              BY <3>4, <5>1, <6>2, ComingIs
            <6> QED BY <6>1, <6>2
          <5> QED BY <1>2, <5>1, <5>2
        <4> QED BY <4>1, <4>2
      <3>7. ASSUME NEW o \in Names PROVE counts'[o] + One(hand' = o) = counts[o] + One(hand = o)
        <4>1. One(hand = o) = 0 /\ (o = n => One(hand' = o) = 1)
              /\ (o # n => One(hand' = o) = 0)
          BY <1>2, <2>2, <3>1, ArrowStoreAssumption DEF One
        <4> QED BY <1>2, <3>3, <3>4, <4>1
      <3>8. hand' = n /\ n # Nil
        BY <2>2, <3>1, ArrowStoreAssumption
      <3> QED BY <2>2, <3>4, <3>5, <3>6, <3>7, <3>8
    <2> QED BY <1>3, <2>1, <2>2
  <1>7. SlotsInv'
    BY <1>1, <1>6 DEF StoreInv, SlotsInv, Distinct, KeptOK
  <1>8. NamedBorrowsBalance'
    <2> SUFFICES ASSUME NEW o \in Names PROVE Coming(o)'
      BY DEF NamedBorrowsBalance
    <2>1. /\ Viewing(o)' = Viewing(o) /\ Places(deferred, o)' = Places(deferred, o)
          /\ ToSet(order)' = ToSet(order')
      BY <1>1 DEF Viewing, Places, ToSet
    <2>2. Cardinality(Viewing(o)) + Cardinality(Places(deferred, o)) + counts'[o]
            + One(hand' = o) + lost[o] = Len(namedBorrows[o])
      <3>1. PICK v \in Nat, p \in Nat, c \in Nat, g \in Nat, l \in Nat :
              /\ v = Cardinality(Viewing(o)) /\ p = Cardinality(Places(deferred, o))
              /\ c = counts[o] /\ g = One(hand = o) /\ l = lost[o]
        BY ComingIs
      <3>a. v + p + c + g + l = Len(namedBorrows[o])
        BY <3>1, ComingIs
      <3>2. PICK d \in Nat, x \in Nat : d = counts'[o] /\ x = One(hand' = o)
        BY <1>6 DEF One
      <3>3. d + x = c + g
        BY <1>6, <3>1, <3>2
      <3>4. v + p + d + x + l = v + p + c + g + l
        BY <3>3
      <3> QED BY <3>1, <3>2, <3>4, <3>a
    <2> QED BY <1>1, <1>6, <2>1, <2>2 DEF Coming
  <1>9. /\ deferred' \in Seq(Names) /\ Len(deferred') <= QueueCapacity
        /\ lost' \in [Names -> Nat] /\ holder' \in [Slots -> Kept]
    BY <1>1 DEF StoreInv, StoreTypeOK
  <1>10. /\ order' \in Seq(Names) /\ Len(order') <= MaxOverflow /\ counts' \in [Names -> Nat]
         /\ drain' \in {"queue", "overflow", "release"} /\ hand' \in Names \cup {Nil}
    BY <1>6
  <1> QED BY <1>5, <1>7, <1>8, <1>9, <1>10, Assembled

----------------------------------------------------------------------------
(* The Arrow store: its books balance                                      *)

LEMMA StoreStarts == ASSUME StoreInit PROVE StoreInv
  <1> USE ArrowStoreAssumption
  <1>1. /\ made = 0 /\ buffers = [n \in Names |-> Nil]
        /\ refs = [b \in Buffer |-> 0] /\ borrowRefs = [b \in Buffer |-> 0]
        /\ owned = {} /\ memory = [b \in Buffer |-> Nil] /\ hooked = {}
        /\ namedBorrows = [n \in Names |-> << >>] /\ detached = {} /\ tombstones = << >>
        /\ deferred = << >> /\ order = << >> /\ counts = [n \in Names |-> 0]
        /\ drain = "queue" /\ hand = Nil /\ holder = [h \in Slots |-> Nothing]
        /\ freed = [m \in Memory |-> 0] /\ lost = [n \in Names |-> 0]
    BY DEF StoreInit
  <1>2. Nothing \in Kept /\ KeptOK(Nothing) /\ Nothing.kind = "none"
    BY DEF Nothing, Kept, KeptOK
  <1>3. \A S : << >> \in Seq(S) /\ Len(<< >>) = 0
    OBVIOUS
  <1>4. StoreTypeOK
    BY <1>1, <1>2, <1>3 DEF StoreTypeOK
  <1>5. \A x : Places(<< >>, x) = {} /\ x \notin ToSet(<< >>)
    BY DEF Places, ToSet
  <1>6. Cardinality({}) = 0 /\ IsFiniteSet({})
    BY FS_EmptySet
  <1>7. SlotsInv
    BY <1>1, <1>2 DEF SlotsInv, Distinct
  <1>8. ASSUME NEW b \in Buffer
        PROVE  /\ NamedOf(b) = {} /\ Holding("lease", b) = {}
               /\ refs[b] = 0 /\ borrowRefs[b] = 0 /\ b \notin owned
    <2>1. \A n \in Names : Places(namedBorrows[n], b) = {}
      BY <1>1, <1>5
    <2>2. NamedOf(b) = {}
      BY <2>1 DEF NamedOf
    <2> QED BY <1>1, <1>2, <2>2 DEF Holding
  <1>9. CountsInv
    <2>1. \A b \in Buffer : One(b \in owned) = 0
      BY <1>8 DEF One
    <2>2. ReferencesConserved
      BY <1>6, <1>8, <2>1 DEF ReferencesConserved
    <2> QED BY <1>6, <1>8, <2>2 DEF CountsInv
  <1>10. TablesInv
    BY <1>1, <1>8 DEF TablesInv, Distinct
  <1>11. MemoryInv
    BY <1>1, <1>8 DEF MemoryInv
  <1>12. ReleasedOnceUnused
    <2>1. \A m \in Memory : freed[m] = 0 /\ ~(m <= made)
      BY <1>1 DEF Memory
    <2> QED BY <2>1 DEF ReleasedOnceUnused, One
  <1>13. LeasesInv
    BY <1>1, <1>2 DEF LeasesInv
  <1>14. NamedBorrowsBalance
    <2> SUFFICES ASSUME NEW n \in Names PROVE Coming(n)
      BY DEF NamedBorrowsBalance
    <2>1. Viewing(n) = {} /\ Places(deferred, n) = {} /\ n \notin ToSet(order)
      BY <1>1, <1>2, <1>5 DEF Viewing
    <2>2. counts[n] = 0 /\ lost[n] = 0 /\ One(hand = n) = 0 /\ Len(namedBorrows[n]) = 0
      BY <1>1, <1>3 DEF One
    <2> QED BY <1>6, <2>1, <2>2 DEF Coming
  <1> QED BY <1>4, <1>7, <1>9, <1>10, <1>11, <1>12, <1>13, <1>14 DEF StoreInv

LEMMA StoreStutters == ASSUME StoreInv, UNCHANGED storeVars PROVE StoreInv'
  <1>1. /\ UNCHANGED <<bufferVars, nameVars, namedBorrows, detached>>
        /\ UNCHANGED <<deferVars, drainVars, holder>>
    BY DEF storeVars
  <1>2. /\ CountsInv' /\ TablesInv' /\ MemoryInv' /\ ReleasedOnceUnused' /\ LeasesInv'
        /\ MemoryTypes /\ made' \in 0..MaxMemory /\ buffers' \in [Names -> Buffer \cup {Nil}]
        /\ refs' \in [Buffer -> Nat] /\ borrowRefs' \in [Buffer -> Nat]
        /\ owned' \subseteq Buffer /\ detached' \subseteq Buffer
        /\ tombstones' \in Seq(Names) /\ Len(tombstones') <= MaxTombstones
        /\ namedBorrows' \in [Names -> Seq(Buffer)]
    BY <1>1, BuffersStand
  <1> QED BY <1>1, <1>2, KeptStands, Assembled

LEMMA StoreSteps == ASSUME StoreInv, [StoreNext]_storeVars PROVE StoreInv'
  <1>1. ASSUME NEW n \in Names, Set(n) \/ Allocate(n) \/ Free(n) PROVE StoreInv'
    BY <1>1, SetKeeps, AllocateKeeps, FreeKeeps
  <1>2. ASSUME NEW h \in Slots,
               \/ \E n \in Names, kind \in {"lease", "view"} : Borrow(h, n, kind)
               \/ ReleaseLease(h) \/ BufRelease(h) \/ Spill(h)
        PROVE  StoreInv'
    BY <1>2, BorrowKeeps, ReleaseLeaseKeeps, BufReleaseKeeps, SpillKeeps
  <1>3. CASE DrainDeferred
    BY <1>3, DrainQueueKeeps, DrainOverflowKeeps, DrainReleaseKeeps DEF DrainDeferred
  <1>4. CASE UNCHANGED storeVars
    BY <1>4, StoreStutters
  <1> QED BY <1>1, <1>2, <1>3, <1>4, SetRejectedKeeps DEF StoreNext

(* A sequence without repetitions has as many elements as places.          *)
LEMMA DistinctCount ==
  ASSUME NEW S, NEW s \in Seq(S), Distinct(s)
  PROVE  Cardinality(ToSet(s)) = Len(s)
  <1> DEFINE f == [i \in 1..Len(s) |-> s[i]]
  <1>1. Len(s) \in Nat /\ DOMAIN s = 1..Len(s)
    OBVIOUS
  <1>2. f \in [1..Len(s) -> ToSet(s)]
    BY <1>1 DEF ToSet
  <1>3. \A i, k \in 1..Len(s) : f[i] = f[k] => i = k
    BY <1>1 DEF Distinct
  <1>4. \A x \in ToSet(s) : \E i \in 1..Len(s) : f[i] = x
    BY <1>1 DEF ToSet
  <1>5. IsFiniteSet(1..Len(s)) /\ Cardinality(1..Len(s)) = Len(s)
    <2>1. \A m \in Nat : (IF 1 > m THEN 0 ELSE m - 1 + 1) = m
      OBVIOUS
    <2> QED BY <1>1, <2>1, FS_Interval
  <1> HIDE DEF f
  <1> QED BY <1>2, <1>3, <1>4, <1>5, SameCount

LEMMA BooksFollow == ASSUME StoreInv PROVE BooksBalance
  <1>1. /\ StoreTypeOK /\ ReferencesConserved /\ ReleasedOnceUnused /\ NamedBorrowsBalance
    BY DEF StoreInv, CountsInv
  <1>2. TablesAgree
    <2>1. /\ owned = {buffers[n] : n \in {x \in Names : buffers[x] # Nil}}
          /\ \A n, o \in Names : n # o /\ buffers[n] # Nil => buffers[n] # buffers[o]
          /\ detached = {b \in Buffer : refs[b] > 0 /\ b \notin owned}
          /\ Distinct(tombstones) /\ tombstones \in Seq(Names)
          /\ \A i \in DOMAIN tombstones : buffers[tombstones[i]] = Nil
      BY <1>1 DEF StoreInv, TablesInv, StoreTypeOK
    <2>2. \A n \in ToSet(tombstones) : buffers[n] = Nil
      BY <2>1 DEF ToSet
    <2>3. Cardinality(ToSet(tombstones)) = Len(tombstones)
      BY <2>1, DistinctCount
    <2> QED BY <2>1, <2>2, <2>3 DEF TablesAgree
  <1>3. LeasesStayValid
    <2> SUFFICES ASSUME NEW h \in Slots, holder[h].kind = "lease"
                 PROVE  /\ memory[holder[h].buf] = holder[h].mem
                        /\ refs[holder[h].buf] > 0 /\ freed[holder[h].mem] = 0
      BY DEF LeasesStayValid
    <2>1. PICK b \in Buffer : b = holder[h].buf
      BY DEF StoreInv, SlotsInv, KeptOK
    <2>2. memory[b] = holder[h].mem
      BY <2>1 DEF StoreInv, LeasesInv
    <2>3. refs[b] > 0
      <3>1. borrowRefs[b] # 0
        BY <2>1, UnborrowedIs
      <3> QED BY <3>1, BufferIs DEF One
    <2>4. memory[b] \in Memory
      <3>1. memory[b] \in 1..made /\ made \in 0..MaxMemory
        BY <1>1, <2>3 DEF StoreInv, MemoryInv, StoreTypeOK
      <3> QED BY <3>1, ArrowStoreAssumption DEF Memory
    <2>5. Backed(memory[b])
      BY <2>3 DEF Backed
    <2>6. freed[memory[b]] = 0
      BY <1>1, <2>4, <2>5 DEF ReleasedOnceUnused, One
    <2> QED BY <2>1, <2>2, <2>3, <2>6
  <1> QED BY <1>1, <1>2, <1>3 DEF BooksBalance

(* For every number of names, places, buffers and tombstones, and every    *)
(* capacity of the channel and of the overflow, the books of the shared    *)
(* store balance: references are those of owners, leases and named         *)
(* borrows, the three tables agree, external memory goes back exactly once *)
(* and only when it is unused, a lease keeps its memory, and no release of *)
(* a view is lost but those that are counted as dropped.                   *)
THEOREM StoreBooksBalance == StoreSpec => []BooksBalance
  <1>1. StoreInit => StoreInv
    BY StoreStarts
  <1>2. StoreInv /\ [StoreNext]_storeVars => StoreInv'
    BY StoreSteps
  <1>3. StoreInv => BooksBalance
    BY BooksFollow
  <1> QED BY <1>1, <1>2, <1>3, PTL DEF StoreSpec
=============================================================================
