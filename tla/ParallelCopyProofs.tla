------------------------- MODULE ParallelCopyProofs -------------------------
(***************************************************************************)
(* Proof that the sequencer of phi.go has the effect of simultaneous       *)
(* moves, for any number of moves among any registers, as long as no value *)
(* copied to several registers is copied to one that is itself a source.   *)
(* Where no value is copied twice, it also spends one spare register on    *)
(* each cycle of moves and none on anything else.                          *)
(***************************************************************************)
EXTENDS ParallelCopy, FiniteSetTheorems, TLAPS

Elems(s) == {s[i] : i \in DOMAIN s}

S == Sources(moves)

SelfMove(b) == Pred(b) = b

(* What the proofs use of any move list.                                   *)
ListFacts ==
  /\ \A i \in DOMAIN moves : moves[i].dst \in Regs /\ Pred(moves[i].dst) = moves[i].src
  /\ S \subseteq Regs
  /\ RegDsts \subseteq Regs
  /\ \A b \in RegDsts : Pred(b) \in S
  /\ \A a \in S : \E b \in RegDsts : Pred(b) = a

(* And of one in which only the ends of chains fan out.                    *)
MoveFacts ==
  /\ ListFacts
  /\ \A b, d \in RegDsts :
       Pred(b) = Pred(d) /\ b # d /\ b \in S => SelfMove(b)

LEMMA AnyListGivesFacts ==
  ASSUME moves \in MoveLists
  PROVE  ListFacts
<1>1. /\ moves \in Seq(CopyMove)
      /\ \A i, j \in DOMAIN moves : moves[i].dst = moves[j].dst => i = j
  BY MovesAssumption
<1>2. \A i \in DOMAIN moves : moves[i].dst \in Regs
  <2>1. \A i \in DOMAIN moves : moves[i] \in CopyMove
    BY <1>1
  <2> QED
    BY <2>1 DEF CopyMove
<1>3. \A i \in DOMAIN moves : Move(moves[i].dst) = i
  BY <1>1 DEF Move
<1>4. \A i \in DOMAIN moves : Pred(moves[i].dst) = moves[i].src
  BY <1>3 DEF Pred
<1>5. \A b \in RegDsts : \E i \in DOMAIN moves :
         moves[i].dst = b /\ moves[i].src = Pred(b) /\ moves[i].src \in Regs
  BY <1>4 DEF RegDsts, Dsts
<1>6. \A i \in DOMAIN moves : moves[i].src \in Regs => moves[i].dst \in RegDsts
  BY <1>4 DEF RegDsts, Dsts
<1>7. S \subseteq Regs /\ RegDsts \subseteq Regs
  BY <1>2, <1>5 DEF S, Sources
<1>8. \A b \in RegDsts : Pred(b) \in S
  BY <1>5 DEF S, Sources
<1>9. \A a \in S : \E b \in RegDsts : Pred(b) = a
  BY <1>4, <1>6 DEF S, Sources
<1> QED
  BY <1>2, <1>4, <1>7, <1>8, <1>9 DEF ListFacts

LEMMA MovesGiveFacts ==
  ASSUME moves \in MoveLists, ForksEnd(moves)
  PROVE  MoveFacts
<1>1. ListFacts
  BY AnyListGivesFacts
<1>2. \A b \in RegDsts : \E i \in DOMAIN moves :
         moves[i].dst = b /\ moves[i].src = Pred(b) /\ moves[i].src \in Regs
  BY <1>1 DEF ListFacts, RegDsts, Dsts
<1>3. ASSUME NEW b \in RegDsts, NEW d \in RegDsts, Pred(b) = Pred(d), b # d, b \in S
      PROVE  SelfMove(b)
  <2>1. PICK i \in DOMAIN moves : moves[i].dst = b /\ moves[i].src = Pred(b)
                                  /\ moves[i].src \in Regs
    BY <1>2
  <2>2. PICK j \in DOMAIN moves : moves[j].dst = d /\ moves[j].src = Pred(d)
    BY <1>2
  <2>3. PICK k \in DOMAIN moves : moves[k].src = b
    BY <1>3 DEF S, Sources
  <2>4. moves[i].src = moves[i].dst
    BY <1>3, <2>1, <2>2, <2>3 DEF ForksEnd
  <2> QED
    BY <2>1, <2>4 DEF SelfMove
<1> QED
  BY <1>1, <1>3 DEF MoveFacts

(* The two ends of a stack.                                                *)
LEMMA PushElems ==
  ASSUME NEW T, NEW s \in Seq(T), NEW x \in T
  PROVE  /\ Append(s, x) \in Seq(T)
         /\ Elems(Append(s, x)) = Elems(s) \cup {x}
<1>1. /\ Append(s, x) \in Seq(T)
      /\ DOMAIN s = 1..Len(s)
      /\ DOMAIN Append(s, x) = 1..(Len(s) + 1)
      /\ Len(s) \in Nat
      /\ Append(s, x)[Len(s) + 1] = x
      /\ \A i \in 1..Len(s) : Append(s, x)[i] = s[i]
  OBVIOUS
<1>2. \A i \in DOMAIN Append(s, x) : i \in DOMAIN s \/ i = Len(s) + 1
  BY <1>1
<1>3. \A i \in DOMAIN s : i \in DOMAIN Append(s, x)
  BY <1>1
<1>4. Len(s) + 1 \in DOMAIN Append(s, x)
  BY <1>1
<1> QED
  BY <1>1, <1>2, <1>3, <1>4 DEF Elems

LEMMA PopElems ==
  ASSUME NEW T, NEW s \in Seq(T), s # <<>>
  PROVE  /\ Pop(s) \in Seq(T)
         /\ Top(s) \in T
         /\ Top(s) \in Elems(s)
         /\ Elems(Pop(s)) \subseteq Elems(s)
         /\ Elems(s) = Elems(Pop(s)) \cup {Top(s)}
<1>1. Len(s) \in Nat /\ Len(s) # 0 /\ DOMAIN s = 1..Len(s)
  OBVIOUS
<1>2. /\ Len(Pop(s)) = Len(s) - 1
      /\ DOMAIN Pop(s) = 1..(Len(s) - 1)
      /\ \A i \in 1..(Len(s) - 1) : Pop(s)[i] = s[i]
  BY <1>1 DEF Pop
<1>3. Pop(s) \in Seq(T) /\ Top(s) \in T
  BY <1>1 DEF Pop, Top
<1>4. \A i \in DOMAIN s : i \in DOMAIN Pop(s) \/ i = Len(s)
  BY <1>1, <1>2
<1> QED
  BY <1>1, <1>2, <1>3, <1>4 DEF Elems, Top

LEMMA EmptyElems == Elems(<<>>) = {}
BY DEF Elems

-----------------------------------------------------------------------------
(* The inductive invariant, one part for each phase.                       *)

TypeInv ==
  /\ moves \in MoveLists
  /\ phase \in {"queue", "copy", "literals", "done"}
  /\ next \in 1..(Len(moves) + 1)
  /\ fresh \in Nat /\ FirstTemp <= fresh
  /\ emitted \in Nat
  /\ todo \in Seq(RegDsts)
  /\ ready \in Seq(RegDsts)
  /\ DOMAIN store = Regs \cup FirstTemp..(fresh - 1)
  /\ S \subseteq DOMAIN loc

Queueing ==
  /\ store = [r \in Regs |-> r]
  /\ loc = [a \in S |-> a]
  /\ fresh = FirstTemp
  /\ Elems(todo) = {b \in RegDsts : \E i \in 1..(next - 1) : moves[i].dst = b}
  /\ Elems(ready) = Elems(todo) \ S

(* A source's value is at home, in a register it was copied to, or in a    *)
(* spare.                                                                  *)
LocPlaces ==
  \A a \in S : \/ loc[a] = a
               \/ loc[a] \in RegDsts /\ Pred(loc[a]) = a
               \/ loc[a] \in FirstTemp..(fresh - 1)

Held == \A a \in S : store[loc[a]] = a

ReadyMoved == \A b \in Elems(ready) : b \in S /\ ~SelfMove(b) => loc[b] # b

(* A source that is written has its contents in place until it is ready.   *)
Placed ==
  \A b \in RegDsts : b \in S =>
    \/ loc[b] = b
    \/ b \in Elems(ready)
    \/ Pred(b) # b /\ loc[Pred(b)] = b

NonSources == \A b \in RegDsts : b \notin S => store[b] = Pred(b) \/ b \in Elems(ready)

Pending ==
  \A b \in RegDsts : store[b] = Pred(b) \/ b \in Elems(todo) \/ b \in Elems(ready)

(* While a value is only at home, no destination has received it.          *)
Unmoved ==
  \A b \in RegDsts :
    loc[Pred(b)] = Pred(b) /\ ~(Pred(b) \in RegDsts /\ SelfMove(Pred(b))) =>
      store[b] # Pred(b)

Rest == \A r \in Regs : r \notin RegDsts => store[r] = r

Delivered == \A b \in RegDsts : store[b] = Pred(b)

Copying ==
  /\ LocPlaces
  /\ Held
  /\ ReadyMoved
  /\ Placed
  /\ NonSources
  /\ Pending
  /\ Unmoved
  /\ Rest
  /\ todo = <<>> => Delivered

Literals ==
  /\ LocPlaces
  /\ ReadyMoved
  /\ Delivered
  /\ \A i \in DOMAIN moves :
       ~IsRegMove(moves[i]) /\ (i < next \/ phase = "done") => store[moves[i].dst] = moves[i].src
  /\ \A r \in Regs : r \notin Dsts => store[r] = r

IInv ==
  /\ TypeInv
  /\ phase = "queue" => Queueing
  /\ phase = "copy" => Copying
  /\ phase \in {"literals", "done"} => Literals

LEMMA InitHolds == ASSUME Init PROVE IInv
<1>1. moves \in Seq(CopyMove)
  BY MovesAssumption DEF Init
<1>2. TypeInv
  <2>1. next \in 1..(Len(moves) + 1)
    BY <1>1 DEF Init
  <2>2. DOMAIN store = Regs \cup FirstTemp..(fresh - 1)
    BY RegsAssumption DEF Init
  <2>3. S \subseteq DOMAIN loc
    BY DEF Init, S
  <2>4. todo \in Seq(RegDsts) /\ ready \in Seq(RegDsts)
    BY DEF Init
  <2> QED
    BY <2>1, <2>2, <2>3, <2>4, RegsAssumption DEF Init, TypeInv
<1>3. Queueing
  <2>1. Elems(todo) = {} /\ Elems(ready) = {}
    BY EmptyElems DEF Init
  <2>2. \A i \in 1..(next - 1) : FALSE
    BY DEF Init
  <2> QED
    BY <2>1, <2>2 DEF Init, Queueing, S
<1> QED
  BY <1>2, <1>3 DEF Init, IInv

(* No step changes the moves of the edge.                                  *)
LEMMA MovesStay ==
  ASSUME moves' = moves
  PROVE  /\ S' = S
         /\ RegDsts' = RegDsts
         /\ Dsts' = Dsts
         /\ \A b : Pred(b)' = Pred(b)
         /\ \A b : SelfMove(b)' <=> SelfMove(b)
BY DEF S, RegDsts, Dsts, Pred, Move, SelfMove

(* Where a value may be is a register of the store.                        *)
LEMMA PlacesInStore ==
  ASSUME TypeInv, MoveFacts, LocPlaces
  PROVE  \A a \in S : loc[a] \in DOMAIN store
BY DEF TypeInv, MoveFacts, ListFacts, LocPlaces

(* Writing a ready destination loses no value and strands no other         *)
(* destination.                                                            *)
LEMMA CopyReadyKeeps ==
  ASSUME TypeInv, Copying, MoveFacts, CopyReady
  PROVE  TypeInv' /\ Copying'
<1> DEFINE b == Top(ready)
           a == Pred(b)
           freed == loc[a] = a /\ a \in RegDsts
<1>1. /\ b \in RegDsts /\ b \in Elems(ready) /\ b \in Regs
      /\ a \in S /\ a \in DOMAIN loc
      /\ Pop(ready) \in Seq(RegDsts)
      /\ Elems(ready) = Elems(Pop(ready)) \cup {b}
  BY PopElems DEF CopyReady, TypeInv, MoveFacts, ListFacts
<1>2. /\ S' = S /\ RegDsts' = RegDsts
      /\ \A x : Pred(x)' = Pred(x) /\ (SelfMove(x)' <=> SelfMove(x))
  BY MovesStay DEF CopyReady
<1>3. /\ DOMAIN store' = DOMAIN store
      /\ store'[b] = store[loc[a]]
      /\ \A r \in DOMAIN store : r # b => store'[r] = store[r]
  BY <1>1 DEF CopyReady, TypeInv
<1>4. /\ DOMAIN loc' = DOMAIN loc
      /\ loc'[a] = b
      /\ \A x \in DOMAIN loc : x # a => loc'[x] = loc[x]
  BY <1>1 DEF CopyReady
<1>5. ready' = IF freed THEN Append(Pop(ready), a) ELSE Pop(ready)
  BY DEF CopyReady
<1>6. /\ ready' \in Seq(RegDsts)
      /\ Elems(ready) \ {b} \subseteq Elems(ready')
      /\ freed => a \in Elems(ready')
      /\ \A x \in Elems(ready') : x \in Elems(ready) \/ x = a
  <2>1. CASE freed
    <3>1. ready' = Append(Pop(ready), a)
      BY <1>5, <2>1
    <3>2. ready' \in Seq(RegDsts) /\ Elems(ready') = Elems(Pop(ready)) \cup {a}
      BY <1>1, <2>1, <3>1, PushElems
    <3> QED
      BY <1>1, <2>1, <3>2
  <2>2. CASE ~freed
    BY <1>1, <1>5, <2>2
  <2> QED
    BY <2>1, <2>2
<1> HIDE DEF b, a, freed
<1>7. a = Pred(b) /\ (freed <=> loc[a] = a /\ a \in RegDsts)
  BY DEF a, freed
<1>8. \A x \in S : x # a => loc[x] # b
  <2> SUFFICES ASSUME NEW x \in S, x # a, loc[x] = b PROVE FALSE
    OBVIOUS
  <2>1. CASE loc[x] = x
    BY <1>1, <1>7, <2>1 DEF Copying, ReadyMoved, SelfMove
  <2>2. CASE Pred(loc[x]) = x
    BY <1>7, <2>2
  <2>3. CASE loc[x] \in FirstTemp..(fresh - 1)
    BY <1>1, <2>3, RegsAssumption DEF TypeInv
  <2> QED
    BY <2>1, <2>2, <2>3 DEF Copying, LocPlaces
<1>9. \A x \in S : x # a => loc'[x] = loc[x]
  BY <1>4 DEF TypeInv
<1>10. TypeInv'
  <2>1. moves' = moves /\ phase' = phase /\ next' = next /\ todo' = todo /\ fresh' = fresh
        /\ emitted' = emitted + 1
    BY DEF CopyReady
  <2> QED
    BY <1>2, <1>3, <1>4, <1>6, <2>1 DEF TypeInv
<1>11. LocPlaces'
  <2> SUFFICES ASSUME NEW x \in S
               PROVE  \/ loc'[x] = x
                      \/ loc'[x] \in RegDsts /\ Pred(loc'[x]) = x
                      \/ loc'[x] \in FirstTemp..(fresh' - 1)
    BY <1>2 DEF LocPlaces
  <2>1. CASE x = a
    BY <1>1, <1>4, <1>7, <2>1
  <2>2. CASE x # a
    BY <1>9, <2>2 DEF CopyReady, Copying, LocPlaces
  <2> QED
    BY <2>1, <2>2
<1>12. Held'
  <2> SUFFICES ASSUME NEW x \in S PROVE store'[loc'[x]] = x
    BY <1>2 DEF Held
  <2>1. CASE x = a
    BY <1>1, <1>3, <1>4, <2>1 DEF Copying, Held
  <2>2. CASE x # a
    BY <1>3, <1>8, <1>9, <2>2, PlacesInStore DEF Copying, Held
  <2> QED
    BY <2>1, <2>2
<1>13. ReadyMoved'
  <2> SUFFICES ASSUME NEW x \in Elems(ready'), x \in S, ~SelfMove(x) PROVE loc'[x] # x
    BY <1>2 DEF ReadyMoved
  <2>1. CASE x = a
    BY <1>4, <1>7, <2>1 DEF SelfMove
  <2>2. CASE x # a
    BY <1>6, <1>9, <2>2 DEF Copying, ReadyMoved
  <2> QED
    BY <2>1, <2>2
<1>14. Placed'
  <2> SUFFICES ASSUME NEW x \in RegDsts, x \in S
               PROVE  \/ loc'[x] = x
                      \/ x \in Elems(ready')
                      \/ Pred(x) # x /\ loc'[Pred(x)] = x
    BY <1>2 DEF Placed
  <2>1. CASE loc[x] = x
    BY <1>6, <1>7, <1>9, <2>1
  <2>2. CASE x = b
    BY <1>4, <1>7, <2>2 DEF SelfMove
  <2>3. CASE x \in Elems(ready) /\ x # b
    BY <1>6, <2>3
  <2>4. CASE Pred(x) # x /\ loc[Pred(x)] = x /\ x # b
    <3>1. Pred(x) \in S /\ Pred(x) # a
      BY <1>1, <1>7, <2>4 DEF MoveFacts, ListFacts, SelfMove
    <3> QED
      BY <1>9, <2>4, <3>1
  <2> QED
    BY <2>1, <2>2, <2>3, <2>4 DEF Copying, Placed
<1>15. RegDsts \subseteq DOMAIN store
  BY DEF TypeInv, MoveFacts, ListFacts
<1>16. store'[b] = a
  BY <1>1, <1>3 DEF Copying, Held
<1>17. NonSources' /\ Pending'
  <2> SUFFICES ASSUME NEW x \in RegDsts
               PROVE  /\ x \notin S => store'[x] = Pred(x) \/ x \in Elems(ready')
                      /\ \/ store'[x] = Pred(x)
                         \/ x \in Elems(todo)
                         \/ x \in Elems(ready')
    BY <1>2 DEF NonSources, Pending, CopyReady
  <2>1. CASE x = b
    BY <1>7, <1>16, <2>1
  <2>2. CASE x # b
    BY <1>3, <1>6, <1>15, <2>2 DEF Copying, NonSources, Pending
  <2> QED
    BY <2>1, <2>2
<1>18. Unmoved'
  <2> SUFFICES ASSUME NEW x \in RegDsts, loc'[Pred(x)] = Pred(x),
                      ~(Pred(x) \in RegDsts /\ SelfMove(Pred(x)))
               PROVE  store'[x] # Pred(x)
    BY <1>2 DEF Unmoved
  <2>1. Pred(x) # a
    BY <1>1, <1>4, <1>7 DEF SelfMove
  <2>2. x # b /\ Pred(x) \in S
    BY <1>7, <2>1 DEF MoveFacts, ListFacts
  <2>3. loc[Pred(x)] = Pred(x) /\ store'[x] = store[x]
    BY <1>3, <1>9, <1>15, <2>1, <2>2
  <2> QED
    BY <2>3 DEF Copying, Unmoved
<1>19. Rest'
  <2> SUFFICES ASSUME NEW r \in Regs, r \notin RegDsts PROVE store'[r] = r
    BY <1>2 DEF Rest
  <2> QED
    BY <1>1, <1>3 DEF Copying, Rest, TypeInv
<1>20. todo' # <<>>
  BY DEF CopyReady
<1> QED
  BY <1>10, <1>11, <1>12, <1>13, <1>14, <1>17, <1>18, <1>19, <1>20 DEF Copying

(* A destination found written holds its value for good.                   *)
LEMMA SkipWrittenKeeps ==
  ASSUME TypeInv, Copying, MoveFacts, SkipWritten
  PROVE  TypeInv' /\ Copying'
<1>1. /\ Top(todo) \in RegDsts
      /\ todo' \in Seq(RegDsts)
      /\ Elems(todo) = Elems(todo') \cup {Top(todo)}
  BY PopElems DEF SkipWritten, TypeInv
<1>2. /\ S' = S /\ RegDsts' = RegDsts
      /\ \A x : Pred(x)' = Pred(x) /\ (SelfMove(x)' <=> SelfMove(x))
  BY MovesStay DEF SkipWritten
<1>3. /\ loc' = loc /\ store' = store /\ ready' = ready /\ fresh' = fresh
      /\ moves' = moves /\ phase' = phase /\ next' = next /\ emitted' = emitted
      /\ ready = <<>>
  BY DEF SkipWritten
<1>4. TypeInv'
  BY <1>1, <1>2, <1>3 DEF TypeInv
<1>5. store[Top(todo)] = Pred(Top(todo))
  <2>1. loc[Pred(Top(todo))] = Top(todo)
    BY DEF SkipWritten, Written
  <2> QED
    BY <1>1, <2>1 DEF MoveFacts, ListFacts, Copying, Held
<1>6. Elems(ready) = {}
  BY <1>3, EmptyElems
<1>7. \A b \in RegDsts : store[b] = Pred(b) \/ b \in Elems(todo')
  BY <1>1, <1>5, <1>6 DEF Copying, Pending
<1>8. Pending'
  BY <1>2, <1>3, <1>7 DEF Pending
<1>9. todo' = <<>> => Delivered'
  BY <1>2, <1>3, <1>7, EmptyElems DEF Delivered
<1>10. LocPlaces' /\ Held' /\ ReadyMoved' /\ Rest'
  BY <1>2, <1>3 DEF Copying, LocPlaces, Held, ReadyMoved, Rest
<1>11. Placed' /\ NonSources' /\ Unmoved'
  BY <1>2, <1>3 DEF Copying, Placed, NonSources, Unmoved
<1> QED
  BY <1>4, <1>8, <1>9, <1>10, <1>11 DEF Copying

(* A destination still unwritten when nothing is ready holds its own value *)
(* if a move reads it, so a spare register can take that value over.       *)
LEMMA BreakCycleKeeps ==
  ASSUME TypeInv, Copying, MoveFacts, BreakCycle
  PROVE  TypeInv' /\ Copying'
<1> DEFINE b == Top(todo)
<1>1. /\ b \in RegDsts
      /\ todo' \in Seq(RegDsts)
      /\ Elems(todo) = Elems(todo') \cup {b}
      /\ b \in Regs
  BY PopElems DEF BreakCycle, TypeInv, MoveFacts, ListFacts
<1>2. /\ S' = S /\ RegDsts' = RegDsts
      /\ \A x : Pred(x)' = Pred(x) /\ (SelfMove(x)' <=> SelfMove(x))
  BY MovesStay DEF BreakCycle
<1>3. /\ store' = Put(store, fresh, store[b])
      /\ loc' = Put(loc, b, fresh)
      /\ ready' = <<b>> /\ ready = <<>>
      /\ moves' = moves /\ phase' = phase /\ next' = next
      /\ fresh' = fresh + 1 /\ emitted' = emitted + 1
      /\ loc[Pred(b)] # b
  BY DEF BreakCycle, Written
<1> HIDE DEF b
<1>4. /\ DOMAIN store' = DOMAIN store \cup {fresh}
      /\ store'[fresh] = store[b]
      /\ \A r \in DOMAIN store : r # fresh => store'[r] = store[r]
  BY <1>3 DEF Put
<1>5. /\ DOMAIN loc' = DOMAIN loc \cup {b}
      /\ loc'[b] = fresh
      /\ \A x \in DOMAIN loc : x # b => loc'[x] = loc[x]
  BY <1>3 DEF Put
<1>6. fresh \notin DOMAIN store /\ \A r \in Regs : r # fresh /\ r \in DOMAIN store
  BY RegsAssumption DEF TypeInv
<1>7. /\ Elems(ready) = {}
      /\ Elems(ready') = {b}
      /\ ready' \in Seq(RegDsts)
  BY <1>1, <1>3 DEF Elems
<1>8. DOMAIN store' = Regs \cup FirstTemp..(fresh' - 1)
  <2>1. FirstTemp..(fresh' - 1) = FirstTemp..(fresh - 1) \cup {fresh}
    BY <1>3, RegsAssumption DEF TypeInv
  <2> QED
    BY <1>4, <2>1 DEF TypeInv
<1>9. TypeInv'
  <2>1. fresh' \in Nat /\ FirstTemp <= fresh' /\ emitted' \in Nat
    BY <1>3, RegsAssumption DEF TypeInv
  <2>2. S' \subseteq DOMAIN loc'
    BY <1>2, <1>5 DEF TypeInv
  <2>3. todo' \in Seq(RegDsts') /\ ready' \in Seq(RegDsts')
    BY <1>1, <1>2, <1>7
  <2> QED
    BY <1>3, <1>8, <2>1, <2>2, <2>3 DEF TypeInv
<1>10. ASSUME b \in S PROVE ~SelfMove(b) /\ loc[b] = b /\ store[b] = b
  <2>1. loc[b] = b
    BY <1>1, <1>3, <1>7, <1>10 DEF Copying, Placed
  <2>2. ~SelfMove(b)
    BY <1>3, <2>1 DEF SelfMove
  <2> QED
    BY <1>10, <2>1, <2>2 DEF Copying, Held
<1>11. \A x \in S : x # b => loc'[x] = loc[x]
  BY <1>5 DEF TypeInv
<1>12. fresh \in FirstTemp..(fresh' - 1) /\ FirstTemp..(fresh - 1) \subseteq FirstTemp..(fresh' - 1)
  BY <1>3, RegsAssumption DEF TypeInv
<1>13. LocPlaces'
  <2> SUFFICES ASSUME NEW x \in S
               PROVE  \/ loc'[x] = x
                      \/ loc'[x] \in RegDsts /\ Pred(loc'[x]) = x
                      \/ loc'[x] \in FirstTemp..(fresh' - 1)
    BY <1>2 DEF LocPlaces
  <2> QED
    BY <1>5, <1>11, <1>12 DEF Copying, LocPlaces
<1>14. Held'
  <2> SUFFICES ASSUME NEW x \in S PROVE store'[loc'[x]] = x
    BY <1>2 DEF Held
  <2>1. CASE x = b
    BY <1>4, <1>5, <1>10, <2>1
  <2>2. CASE x # b
    BY <1>4, <1>6, <1>11, <2>2, PlacesInStore DEF Copying, Held
  <2> QED
    BY <2>1, <2>2
<1>15. ReadyMoved'
  BY <1>1, <1>2, <1>5, <1>6, <1>7 DEF ReadyMoved
<1>16. Placed'
  <2> SUFFICES ASSUME NEW x \in RegDsts, x \in S
               PROVE  \/ loc'[x] = x
                      \/ x \in Elems(ready')
                      \/ Pred(x) # x /\ loc'[Pred(x)] = x
    BY <1>2 DEF Placed
  <2>1. CASE x = b
    BY <1>7, <2>1
  <2>2. CASE x # b /\ loc[x] = x
    BY <1>11, <2>2
  <2>3. CASE x # b /\ Pred(x) # x /\ loc[Pred(x)] = x
    <3>1. Pred(x) \in S
      BY DEF MoveFacts, ListFacts
    <3>2. Pred(x) # b
      BY <1>10, <2>3, <3>1
    <3> QED
      BY <1>11, <2>3, <3>1, <3>2
  <2> QED
    BY <1>7, <2>1, <2>2, <2>3 DEF Copying, Placed
<1>17. \A r \in Regs : store'[r] = store[r]
  BY <1>4, <1>6
<1>18. RegDsts \subseteq Regs
  BY DEF MoveFacts, ListFacts
<1>19. NonSources' /\ Pending' /\ Rest'
  <2>1. NonSources'
    BY <1>2, <1>7, <1>17, <1>18 DEF Copying, NonSources
  <2>2. Pending'
    BY <1>1, <1>2, <1>7, <1>17, <1>18 DEF Copying, Pending
  <2>3. Rest'
    BY <1>2, <1>17 DEF Copying, Rest
  <2> QED
    BY <2>1, <2>2, <2>3
<1>20. Unmoved'
  <2> SUFFICES ASSUME NEW x \in RegDsts, loc'[Pred(x)] = Pred(x),
                      ~(Pred(x) \in RegDsts /\ SelfMove(Pred(x)))
               PROVE  store'[x] # Pred(x)
    BY <1>2 DEF Unmoved
  <2>1. Pred(x) \in S /\ Pred(x) # b
    BY <1>1, <1>5, <1>6 DEF MoveFacts, ListFacts
  <2> QED
    BY <1>11, <1>17, <1>18, <2>1 DEF Copying, Unmoved
<1>21. ASSUME todo' = <<>> PROVE store[b] = Pred(b)
  <2>1. CASE b \notin S
    BY <1>1, <1>7, <2>1 DEF Copying, NonSources
  <2>2. ASSUME b \in S PROVE FALSE
    <3>1. PICK d \in RegDsts : Pred(d) = b
      BY <2>2 DEF MoveFacts, ListFacts
    <3>2. d # b
      BY <1>10, <2>2, <3>1 DEF SelfMove
    <3>3. store[d] = b
      BY <1>1, <1>7, <1>21, <3>1, <3>2, EmptyElems DEF Copying, Pending
    <3> QED
      BY <1>10, <2>2, <3>1, <3>3 DEF Copying, Unmoved
  <2> QED
    BY <2>1, <2>2
<1>22. todo' = <<>> => Delivered'
  <2> SUFFICES ASSUME todo' = <<>>, NEW x \in RegDsts PROVE store[x] = Pred(x)
    BY <1>2, <1>17, <1>18 DEF Delivered
  <2> QED
    BY <1>1, <1>7, <1>21, EmptyElems DEF Copying, Pending
<1> QED
  BY <1>9, <1>13, <1>14, <1>15, <1>16, <1>19, <1>20, <1>22 DEF Copying

(* The lists fill up with the register moves, in order.                    *)
LEMMA QueueKeeps ==
  ASSUME TypeInv, Queueing, MoveFacts, Queue
  PROVE  TypeInv' /\ Queueing'
<1> DEFINE m == moves[next]
<1>1. /\ moves \in Seq(CopyMove) /\ next \in DOMAIN moves /\ next \in Nat
      /\ next + 1 \in 1..(Len(moves) + 1)
      /\ 1..((next + 1) - 1) = 1..(next - 1) \cup {next}
  BY MovesAssumption DEF TypeInv, Queue
<1>2. S' = S /\ RegDsts' = RegDsts /\ \A x : Pred(x)' = Pred(x)
  BY MovesStay DEF Queue
<1>3. /\ store' = store /\ loc' = loc /\ fresh' = fresh /\ emitted' = emitted
      /\ phase' = phase /\ moves' = moves /\ next' = next + 1
      /\ todo' = IF IsRegMove(m) THEN Append(todo, m.dst) ELSE todo
      /\ ready' = IF IsRegMove(m) /\ m.dst \notin DOMAIN loc
                  THEN Append(ready, m.dst) ELSE ready
  BY DEF Queue
<1>4. IsRegMove(m) <=> m.dst \in RegDsts
  BY <1>1 DEF MoveFacts, ListFacts, IsRegMove, RegDsts, Dsts
<1>5. DOMAIN loc = S
  BY DEF Queueing
<1>6. /\ todo' \in Seq(RegDsts)
      /\ Elems(todo') = Elems(todo) \cup (IF IsRegMove(m) THEN {m.dst} ELSE {})
  BY <1>3, <1>4, PushElems DEF TypeInv
<1>7. /\ ready' \in Seq(RegDsts)
      /\ Elems(ready') = Elems(ready)
                         \cup (IF IsRegMove(m) /\ m.dst \notin S THEN {m.dst} ELSE {})
  BY <1>3, <1>4, <1>5, PushElems DEF TypeInv
<1>8. Elems(todo') = {b \in RegDsts : \E i \in 1..((next + 1) - 1) : moves[i].dst = b}
  BY <1>1, <1>4, <1>6 DEF Queueing
<1>9. Elems(ready') = Elems(todo') \ S
  BY <1>6, <1>7 DEF Queueing
<1>10. TypeInv'
  BY <1>1, <1>2, <1>3, <1>6, <1>7 DEF TypeInv
<1>11. Queueing'
  BY <1>2, <1>3, <1>8, <1>9 DEF Queueing
<1> QED
  BY <1>10, <1>11

(* With the lists full and nothing moved, the copying invariant holds.     *)
LEMMA QueuedStarts ==
  ASSUME TypeInv, Queueing, MoveFacts, Queued
  PROVE  TypeInv' /\ Copying'
<1>1. /\ S' = S /\ RegDsts' = RegDsts
      /\ \A x : Pred(x)' = Pred(x) /\ (SelfMove(x)' <=> SelfMove(x))
  BY MovesStay DEF Queued
<1>2. /\ store' = store /\ loc' = loc /\ fresh' = fresh /\ emitted' = emitted /\ moves' = moves
      /\ next' = next /\ todo' = todo /\ ready' = ready /\ phase' = "copy"
  BY DEF Queued
<1>3. TypeInv'
  BY <1>1, <1>2 DEF TypeInv
<1>4. Elems(todo) = RegDsts
  <2>1. \A i \in DOMAIN moves : i \in 1..(next - 1)
    <3>1. moves \in Seq(CopyMove)
      BY MovesAssumption DEF TypeInv
    <3> QED
      BY <3>1 DEF TypeInv, Queued
  <2>2. \A b \in RegDsts : \E i \in DOMAIN moves : moves[i].dst = b
    BY DEF RegDsts, Dsts
  <2> QED
    BY <2>1, <2>2 DEF Queueing
<1>5. Elems(ready) = RegDsts \ S
  BY <1>4 DEF Queueing
<1>6. (\A a \in S : loc[a] = a) /\ (\A r \in Regs : store[r] = r)
  BY DEF Queueing
<1>7. LocPlaces' /\ ReadyMoved' /\ Rest'
  BY <1>1, <1>2, <1>5, <1>6 DEF LocPlaces, ReadyMoved, Rest
<1>8. Held'
  BY <1>1, <1>2, <1>6 DEF Held, MoveFacts, ListFacts
<1>9. Placed' /\ NonSources' /\ Pending'
  BY <1>1, <1>2, <1>4, <1>5, <1>6 DEF Placed, NonSources, Pending
<1>10. Unmoved'
  BY <1>1, <1>2, <1>6 DEF Unmoved, MoveFacts, ListFacts, SelfMove
<1>11. todo' = <<>> => Delivered'
  BY <1>1, <1>2, <1>4, EmptyElems DEF Delivered
<1> QED
  BY <1>3, <1>7, <1>8, <1>9, <1>10, <1>11 DEF Copying

(* The register moves are done when the list is empty.                     *)
LEMMA SequencedStarts ==
  ASSUME TypeInv, Copying, MoveFacts, Sequenced
  PROVE  TypeInv' /\ Literals'
<1>1. /\ S' = S /\ RegDsts' = RegDsts /\ Dsts' = Dsts
      /\ \A x : Pred(x)' = Pred(x) /\ (SelfMove(x)' <=> SelfMove(x))
  BY MovesStay DEF Sequenced
<1>2. /\ store' = store /\ loc' = loc /\ fresh' = fresh /\ emitted' = emitted /\ moves' = moves
      /\ next' = 1 /\ todo' = todo /\ ready' = ready /\ phase' = "literals" /\ todo = <<>>
  BY DEF Sequenced
<1>3. moves \in Seq(CopyMove) /\ 1 \in 1..(Len(moves) + 1)
  BY MovesAssumption DEF TypeInv
<1>4. TypeInv'
  BY <1>1, <1>2, <1>3 DEF TypeInv
<1>5. LocPlaces' /\ ReadyMoved' /\ Delivered'
  BY <1>1, <1>2 DEF Copying, LocPlaces, ReadyMoved, Delivered
<1>6. \A i \in DOMAIN moves : ~(i < 1)
  BY <1>3
<1>7. \A r \in Regs : r \notin Dsts => store[r] = r
  BY DEF Copying, Rest, RegDsts
<1> QED
  BY <1>1, <1>2, <1>4, <1>5, <1>6, <1>7 DEF Literals

(* A literal goes to a destination no register move writes.                *)
LEMMA EmitLiteralKeeps ==
  ASSUME TypeInv, Literals, MoveFacts, EmitLiteral
  PROVE  TypeInv' /\ Literals'
<1> DEFINE m == moves[next]
<1>1. /\ S' = S /\ RegDsts' = RegDsts /\ Dsts' = Dsts
      /\ \A x : Pred(x)' = Pred(x) /\ (SelfMove(x)' <=> SelfMove(x))
  BY MovesStay DEF EmitLiteral
<1>2. /\ loc' = loc /\ fresh' = fresh /\ moves' = moves /\ todo' = todo /\ ready' = ready
      /\ phase' = phase /\ phase = "literals" /\ next' = next + 1
  BY DEF EmitLiteral
<1>3. /\ moves \in Seq(CopyMove)
      /\ \A i, j \in DOMAIN moves : moves[i].dst = moves[j].dst => i = j
  BY MovesAssumption DEF TypeInv
<1>4. /\ next \in DOMAIN moves
      /\ next + 1 \in 1..(Len(moves) + 1)
      /\ \A i \in DOMAIN moves : i < next + 1 => i < next \/ i = next
  BY <1>3 DEF TypeInv, EmitLiteral
<1>5. m.dst \in Dsts /\ m.dst \in DOMAIN store
  BY <1>4 DEF Dsts, MoveFacts, ListFacts, TypeInv
<1>6. ~IsRegMove(m) => m.dst \notin RegDsts
  BY <1>4 DEF IsRegMove, RegDsts, MoveFacts, ListFacts
<1>7. /\ DOMAIN store' = DOMAIN store
      /\ ~IsRegMove(m) => store'[m.dst] = m.src
      /\ \A r \in DOMAIN store : r # m.dst \/ IsRegMove(m) => store'[r] = store[r]
      /\ emitted' \in Nat
  BY <1>5 DEF EmitLiteral, TypeInv
<1>8. TypeInv'
  BY <1>1, <1>2, <1>4, <1>7 DEF TypeInv
<1>9. LocPlaces' /\ ReadyMoved'
  BY <1>1, <1>2 DEF Literals, LocPlaces, ReadyMoved
<1>10. Delivered'
  <2> SUFFICES ASSUME NEW b \in RegDsts PROVE store'[b] = Pred(b)
    BY <1>1 DEF Delivered
  <2>1. b \in DOMAIN store
    BY DEF MoveFacts, ListFacts, TypeInv
  <2> QED
    BY <1>6, <1>7, <2>1 DEF Literals, Delivered
<1>11. ASSUME NEW i \in DOMAIN moves, ~IsRegMove(moves[i]), i < next + 1
       PROVE  store'[moves[i].dst] = moves[i].src
  <2>1. CASE i = next
    BY <1>7, <1>11, <2>1
  <2>2. CASE i # next
    <3>1. i < next /\ store[moves[i].dst] = moves[i].src
      BY <1>4, <1>11, <2>2 DEF Literals
    <3>2. moves[i].dst # m.dst /\ moves[i].dst \in DOMAIN store
      BY <1>3, <1>4, <2>2 DEF MoveFacts, ListFacts, TypeInv
    <3> QED
      BY <1>7, <3>1, <3>2
  <2> QED
    BY <2>1, <2>2
<1>12. \A r \in Regs : r \notin Dsts => store'[r] = r
  BY <1>5, <1>7 DEF Literals, TypeInv
<1>13. phase' # "done" /\ \A i \in DOMAIN moves : IsRegMove(moves[i])' <=> IsRegMove(moves[i])
  BY <1>2 DEF IsRegMove
<1>14. \A i \in DOMAIN moves' :
          ~IsRegMove(moves[i])' /\ (i < next' \/ phase' = "done") =>
            store'[moves'[i].dst] = moves'[i].src
  BY <1>2, <1>11, <1>13
<1> QED
  BY <1>1, <1>8, <1>9, <1>10, <1>12, <1>14 DEF Literals

LEMMA FinishKeeps ==
  ASSUME TypeInv, Literals, Finish
  PROVE  TypeInv' /\ Literals'
<1>1. /\ S' = S /\ RegDsts' = RegDsts /\ Dsts' = Dsts
      /\ \A x : Pred(x)' = Pred(x) /\ (SelfMove(x)' <=> SelfMove(x))
  BY MovesStay DEF Finish
<1>2. /\ loc' = loc /\ fresh' = fresh /\ moves' = moves /\ todo' = todo /\ ready' = ready
      /\ phase' = "done" /\ next' = next /\ store' = store /\ emitted' = emitted
      /\ phase = "literals"
  BY DEF Finish
<1>3. TypeInv'
  BY <1>1, <1>2 DEF TypeInv
<1>4. \A i \in DOMAIN moves : i < next
  <2>1. moves \in Seq(CopyMove)
    BY MovesAssumption DEF TypeInv
  <2> QED
    BY <2>1 DEF TypeInv, Finish
<1>5. LocPlaces' /\ ReadyMoved' /\ Delivered'
  BY <1>1, <1>2 DEF Literals, LocPlaces, ReadyMoved, Delivered
<1> QED
  BY <1>1, <1>2, <1>3, <1>4, <1>5 DEF Literals, IsRegMove

LEMMA StutterKeeps ==
  ASSUME IInv, UNCHANGED vars
  PROVE  IInv'
<1>1. /\ S' = S /\ RegDsts' = RegDsts /\ Dsts' = Dsts
      /\ \A x : Pred(x)' = Pred(x) /\ (SelfMove(x)' <=> SelfMove(x))
  BY MovesStay DEF vars
<1>2. /\ loc' = loc /\ fresh' = fresh /\ moves' = moves /\ todo' = todo /\ ready' = ready
      /\ phase' = phase /\ next' = next /\ store' = store /\ emitted' = emitted
  BY DEF vars
<1>3. TypeInv'
  BY <1>1, <1>2 DEF IInv, TypeInv
<1>4. phase = "queue" => Queueing'
  BY <1>1, <1>2 DEF IInv, Queueing
<1>5. phase = "copy" => Copying'
  <2> SUFFICES ASSUME Copying PROVE Copying'
    BY DEF IInv
  <2>1. LocPlaces' /\ Held' /\ ReadyMoved' /\ Placed'
    BY <1>1, <1>2 DEF Copying, LocPlaces, Held, ReadyMoved, Placed
  <2>2. NonSources' /\ Pending' /\ Unmoved' /\ Rest'
    BY <1>1, <1>2 DEF Copying, NonSources, Pending, Unmoved, Rest
  <2>3. todo' = <<>> => Delivered'
    BY <1>1, <1>2 DEF Copying, Delivered
  <2> QED
    BY <2>1, <2>2, <2>3 DEF Copying
<1>6. phase \in {"literals", "done"} => Literals'
  <2> SUFFICES ASSUME Literals PROVE Literals'
    BY DEF IInv
  <2>1. LocPlaces' /\ ReadyMoved' /\ Delivered'
    BY <1>1, <1>2 DEF Literals, LocPlaces, ReadyMoved, Delivered
  <2> QED
    BY <1>1, <1>2, <2>1 DEF Literals, IsRegMove
<1> QED
  BY <1>2, <1>3, <1>4, <1>5, <1>6 DEF IInv

AllForksEnd == \A ms \in MoveLists : ForksEnd(ms)

LEMMA NextHolds ==
  ASSUME MoveFacts, IInv, [Next]_vars
  PROVE  IInv'
<1>1. MoveFacts
  OBVIOUS
<1>2. TypeInv
  BY DEF IInv
<1>3. CASE Queue
  BY <1>1, <1>2, <1>3, QueueKeeps DEF IInv, Queue
<1>4. CASE Queued
  BY <1>1, <1>2, <1>4, QueuedStarts DEF IInv, Queued
<1>5. CASE CopyReady
  BY <1>1, <1>2, <1>5, CopyReadyKeeps DEF IInv, CopyReady
<1>6. CASE SkipWritten
  BY <1>1, <1>2, <1>6, SkipWrittenKeeps DEF IInv, SkipWritten
<1>7. CASE BreakCycle
  BY <1>1, <1>2, <1>7, BreakCycleKeeps DEF IInv, BreakCycle
<1>8. CASE Sequenced
  BY <1>1, <1>2, <1>8, SequencedStarts DEF IInv, Sequenced
<1>9. CASE EmitLiteral
  BY <1>1, <1>2, <1>9, EmitLiteralKeeps DEF IInv, EmitLiteral
<1>10. CASE Finish
  BY <1>2, <1>10, FinishKeeps DEF IInv, Finish
<1>11. CASE Terminated \/ UNCHANGED vars
  BY <1>11, StutterKeeps DEF Terminated
<1> QED
  BY <1>3, <1>4, <1>5, <1>6, <1>7, <1>8, <1>9, <1>10, <1>11 DEF Next, Step

-----------------------------------------------------------------------------

(* Every reachable state of the sequencer satisfies the invariant.         *)
THEOREM CopyInvariant == ASSUME AllForksEnd PROVE Spec => []IInv
<1>1. Init => IInv
  BY InitHolds
<1>2. IInv /\ [Next]_vars => IInv'
  BY MovesGiveFacts, NextHolds DEF AllForksEnd, IInv, TypeInv
<1> QED
  BY <1>1, <1>2, PTL DEF Spec

(* No source's value is lost before the last move reads it.                *)
THEOREM NoValueLost == ASSUME AllForksEnd PROVE Spec => []ValuesHeld
<1>1. IInv => ValuesHeld
  BY DEF IInv, Copying, Held, ValuesHeld, S
<1> QED
  BY <1>1, CopyInvariant, PTL

(* The emitted sequence has the effect of the moves happening at once      *)
(* (phi.go, sequence).                                                     *)
THEOREM SequenceIsSimultaneous == ASSUME AllForksEnd PROVE Spec => []SameEffect
<1>1. ASSUME IInv, phase = "done", NEW r \in Regs
      PROVE  store[r] = IF r \in Dsts THEN Pred(r) ELSE r
  <2>1. MoveFacts /\ Literals
    BY <1>1, MovesGiveFacts DEF AllForksEnd, IInv, TypeInv
  <2>2. CASE r \in RegDsts
    BY <2>1, <2>2 DEF Literals, Delivered, RegDsts
  <2>3. CASE r \in Dsts /\ r \notin RegDsts
    <3>1. PICK i \in DOMAIN moves : moves[i].dst = r
      BY <2>3 DEF Dsts
    <3>2. Pred(r) = moves[i].src /\ ~IsRegMove(moves[i])
      BY <2>1, <2>3, <3>1 DEF MoveFacts, ListFacts, IsRegMove, RegDsts
    <3> QED
      BY <1>1, <2>1, <2>3, <3>1, <3>2 DEF Literals
  <2>4. CASE r \notin Dsts
    BY <2>1, <2>4 DEF Literals
  <2> QED
    BY <2>2, <2>3, <2>4 DEF RegDsts
<1>2. IInv => SameEffect
  BY <1>1 DEF SameEffect
<1> QED
  BY <1>2, CopyInvariant, PTL
-----------------------------------------------------------------------------
(* Any list of moves, forks or not: which registers become ready, and where *)
(* a value is looked for.                                                   *)

ListInv == TypeInv /\ LocPlaces /\ ReadyMoved

LEMMA ListInvHolds == ASSUME Init PROVE ListInv
<1>1. TypeInv /\ Queueing
  BY InitHolds DEF IInv, Init
<1>2. Elems(ready) = {}
  BY EmptyElems DEF Init
<1> QED
  BY <1>1, <1>2 DEF ListInv, LocPlaces, ReadyMoved, Queueing

LEMMA QueueKeepsList == ASSUME ListInv, Queue PROVE ListInv'
<1> DEFINE m == moves[next]
<1>1. ListFacts /\ TypeInv
  BY AnyListGivesFacts DEF ListInv, TypeInv
<1>2. moves \in Seq(CopyMove) /\ next \in DOMAIN moves /\ next + 1 \in 1..(Len(moves) + 1)
  BY <1>1, MovesAssumption DEF TypeInv, Queue
<1>3. S' = S /\ RegDsts' = RegDsts /\ \A x : Pred(x)' = Pred(x) /\ (SelfMove(x)' <=> SelfMove(x))
  BY MovesStay DEF Queue
<1>4. /\ store' = store /\ loc' = loc /\ fresh' = fresh /\ emitted' = emitted
      /\ phase' = phase /\ moves' = moves /\ next' = next + 1
      /\ todo' = IF IsRegMove(m) THEN Append(todo, m.dst) ELSE todo
      /\ ready' = IF IsRegMove(m) /\ m.dst \notin DOMAIN loc
                  THEN Append(ready, m.dst) ELSE ready
  BY DEF Queue
<1>5. IsRegMove(m) <=> m.dst \in RegDsts
  BY <1>1, <1>2 DEF ListFacts, IsRegMove, RegDsts, Dsts
<1>6. todo' \in Seq(RegDsts)
  BY <1>1, <1>4, <1>5, PushElems DEF TypeInv
<1>7. ready' \in Seq(RegDsts) /\ \A x \in Elems(ready') : x \in Elems(ready) \/ x \notin S
  BY <1>1, <1>4, <1>5, PushElems DEF TypeInv
<1>8. TypeInv'
  BY <1>1, <1>2, <1>3, <1>4, <1>6, <1>7 DEF TypeInv
<1>9. LocPlaces' /\ ReadyMoved'
  BY <1>3, <1>4, <1>7 DEF ListInv, LocPlaces, ReadyMoved
<1> QED
  BY <1>8, <1>9 DEF ListInv

LEMMA CopyReadyKeepsList == ASSUME ListInv, CopyReady PROVE ListInv'
<1> DEFINE b == Top(ready)
           a == Pred(b)
           freed == loc[a] = a /\ a \in RegDsts
<1>1. /\ b \in RegDsts /\ b \in Elems(ready) /\ b \in Regs
      /\ a \in S /\ a \in DOMAIN loc
      /\ Pop(ready) \in Seq(RegDsts)
      /\ Elems(Pop(ready)) \subseteq Elems(ready)
  BY AnyListGivesFacts, PopElems DEF CopyReady, ListInv, TypeInv, ListFacts
<1>2. /\ S' = S /\ RegDsts' = RegDsts
      /\ \A x : Pred(x)' = Pred(x) /\ (SelfMove(x)' <=> SelfMove(x))
  BY MovesStay DEF CopyReady
<1>3. /\ DOMAIN store' = DOMAIN store /\ DOMAIN loc' = DOMAIN loc
      /\ loc'[a] = b
      /\ \A x \in DOMAIN loc : x # a => loc'[x] = loc[x]
      /\ moves' = moves /\ phase' = phase /\ next' = next /\ todo' = todo
      /\ fresh' = fresh /\ emitted' = emitted + 1
  BY <1>1 DEF CopyReady
<1>4. ready' \in Seq(RegDsts) /\ \A x \in Elems(ready') : x \in Elems(ready) \/ x = a
  <2>1. CASE freed
    <3>1. ready' = Append(Pop(ready), a)
      BY <2>1 DEF CopyReady
    <3>2. ready' \in Seq(RegDsts) /\ Elems(ready') = Elems(Pop(ready)) \cup {a}
      BY <1>1, <2>1, <3>1, PushElems
    <3> QED
      BY <1>1, <3>2
  <2>2. CASE ~freed
    <3>1. ready' = Pop(ready)
      BY <2>2 DEF CopyReady
    <3> QED
      BY <1>1, <3>1
  <2> QED
    BY <2>1, <2>2
<1> HIDE DEF b, freed
<1>5. TypeInv'
  BY <1>2, <1>3, <1>4 DEF ListInv, TypeInv
<1>6. LocPlaces'
  <2>1. ASSUME NEW x \in S, x = a PROVE loc'[x] \in RegDsts /\ Pred(loc'[x]) = x
    BY <1>1, <1>3, <2>1
  <2>2. ASSUME NEW x \in S, x # a PROVE loc'[x] = loc[x]
    BY <1>3, <2>2 DEF ListInv, TypeInv
  <2> QED
    BY <1>2, <1>3, <2>1, <2>2 DEF ListInv, LocPlaces
<1>7. ReadyMoved'
  <2> SUFFICES ASSUME NEW x \in Elems(ready'), x \in S, ~SelfMove(x)
               PROVE  loc'[x] # x
    BY <1>2 DEF ReadyMoved
  <2>1. CASE x = a
    BY <1>3, <2>1 DEF SelfMove
  <2>2. CASE x # a
    BY <1>3, <1>4, <2>2 DEF ListInv, TypeInv, ReadyMoved
  <2> QED
    BY <2>1, <2>2
<1> QED
  BY <1>5, <1>6, <1>7 DEF ListInv

LEMMA BreakCycleKeepsList == ASSUME ListInv, BreakCycle PROVE ListInv'
<1> DEFINE b == Top(todo)
<1>1. b \in RegDsts /\ b \in Regs /\ todo' \in Seq(RegDsts) /\ TypeInv
  BY AnyListGivesFacts, PopElems DEF BreakCycle, ListInv, TypeInv, ListFacts
<1>2. /\ S' = S /\ RegDsts' = RegDsts
      /\ \A x : Pred(x)' = Pred(x) /\ (SelfMove(x)' <=> SelfMove(x))
  BY MovesStay DEF BreakCycle
<1>3. /\ store' = Put(store, fresh, store[b]) /\ loc' = Put(loc, b, fresh)
      /\ ready' = <<b>>
      /\ moves' = moves /\ phase' = phase /\ next' = next
      /\ fresh' = fresh + 1 /\ emitted' = emitted + 1
  BY DEF BreakCycle
<1> HIDE DEF b
<1>4. /\ DOMAIN store' = DOMAIN store \cup {fresh} /\ DOMAIN loc' = DOMAIN loc \cup {b}
      /\ loc'[b] = fresh
      /\ \A x \in DOMAIN loc : x # b => loc'[x] = loc[x]
  BY <1>3 DEF Put
<1>5. /\ b # fresh /\ fresh \in FirstTemp..(fresh' - 1)
      /\ FirstTemp..(fresh' - 1) = FirstTemp..(fresh - 1) \cup {fresh}
  BY <1>1, <1>3, RegsAssumption DEF TypeInv
<1>6. ready' \in Seq(RegDsts) /\ Elems(ready') = {b}
  BY <1>1, <1>3 DEF Elems
<1>7. TypeInv'
  <2>1. fresh' \in Nat /\ FirstTemp <= fresh' /\ emitted' \in Nat
    BY <1>1, <1>3, RegsAssumption DEF TypeInv
  <2>2. DOMAIN store' = Regs \cup FirstTemp..(fresh' - 1) /\ S' \subseteq DOMAIN loc'
    BY <1>1, <1>2, <1>4, <1>5 DEF TypeInv
  <2>3. todo' \in Seq(RegDsts') /\ ready' \in Seq(RegDsts')
    BY <1>1, <1>2, <1>6
  <2> QED
    BY <1>1, <1>3, <2>1, <2>2, <2>3 DEF TypeInv
<1>8. ASSUME NEW x \in S, x # b PROVE loc'[x] = loc[x]
  BY <1>1, <1>4, <1>8 DEF TypeInv
<1>9. LocPlaces'
  BY <1>2, <1>4, <1>5, <1>8 DEF ListInv, LocPlaces
<1>10. ReadyMoved'
  BY <1>2, <1>4, <1>5, <1>6 DEF ReadyMoved
<1> QED
  BY <1>7, <1>9, <1>10 DEF ListInv

(* What is left moves on in the list, or writes a literal.                 *)
LEMMA RestKeepsList ==
  ASSUME ListInv, Queued \/ SkipWritten \/ Sequenced \/ EmitLiteral \/ Finish \/ UNCHANGED vars
  PROVE  ListInv'
<1>1. /\ moves' = moves /\ loc' = loc /\ fresh' = fresh /\ ready' = ready
  BY DEF Queued, SkipWritten, Sequenced, EmitLiteral, Finish, vars
<1>2. /\ S' = S /\ RegDsts' = RegDsts
      /\ \A x : Pred(x)' = Pred(x) /\ (SelfMove(x)' <=> SelfMove(x))
  BY <1>1, MovesStay
<1>3. phase' \in {"queue", "copy", "literals", "done"}
  BY DEF ListInv, TypeInv, Queued, SkipWritten, Sequenced, EmitLiteral, Finish, vars
<1>4. next' \in 1..(Len(moves) + 1)
  <2>1. moves \in Seq(CopyMove)
    BY MovesAssumption DEF ListInv, TypeInv
  <2> QED
    BY <2>1 DEF ListInv, TypeInv, Queued, SkipWritten, Sequenced, EmitLiteral, Finish, vars
<1>5. emitted' \in Nat
  BY DEF ListInv, TypeInv, Queued, SkipWritten, Sequenced, EmitLiteral, Finish, vars
<1>6. todo' \in Seq(RegDsts)
  BY PopElems DEF ListInv, TypeInv, Queued, SkipWritten, Sequenced, EmitLiteral, Finish, vars
<1>7. DOMAIN store' = DOMAIN store
  BY DEF Queued, SkipWritten, Sequenced, EmitLiteral, Finish, vars
<1>8. TypeInv'
  BY <1>1, <1>2, <1>3, <1>4, <1>5, <1>6, <1>7 DEF ListInv, TypeInv
<1> QED
  BY <1>1, <1>2, <1>8 DEF ListInv, LocPlaces, ReadyMoved

LEMMA ListInvariant == Spec => []ListInv
<1>1. Init => ListInv
  BY ListInvHolds
<1>2. ListInv /\ [Next]_vars => ListInv'
  BY QueueKeepsList, CopyReadyKeepsList, BreakCycleKeepsList, RestKeepsList
     DEF Next, Step, Terminated
<1> QED
  BY <1>1, <1>2, PTL DEF Spec

(* Every variable keeps its type (sequenceRegisters), whatever the moves.  *)
THEOREM CopyTypes == Spec => []TypeOK
<1>1. ListInv => TypeOK
  BY DEF ListInv, TypeInv, TypeOK, S
<1> QED
  BY <1>1, ListInvariant, PTL

(* A destination is ready only when no other source's value is in it,      *)
(* whatever the moves; where forks do not end, the value of a source may   *)
(* have been lost by other means.                                          *)
THEOREM ReadyIsAlwaysFree == Spec => []ReadyIsFree
<1>1. ASSUME ListInv, NEW i \in DOMAIN ready, NEW a \in S, loc[a] = ready[i]
      PROVE  a = Pred(ready[i])
  <2>1. ListFacts /\ TypeInv
    BY <1>1, AnyListGivesFacts DEF ListInv, TypeInv
  <2>2. ready[i] \in Elems(ready) /\ ready[i] \in RegDsts /\ ready[i] \in Regs
    BY <2>1 DEF Elems, TypeInv, ListFacts
  <2>3. CASE loc[a] = a
    BY <1>1, <2>2, <2>3 DEF ListInv, ReadyMoved, SelfMove
  <2>4. CASE Pred(loc[a]) = a
    BY <1>1, <2>4
  <2>5. CASE loc[a] \in FirstTemp..(fresh - 1)
    BY <1>1, <2>1, <2>2, <2>5, RegsAssumption DEF TypeInv
  <2> QED
    BY <1>1, <2>3, <2>4, <2>5 DEF ListInv, LocPlaces
<1>2. ListInv => ReadyIsFree
  BY <1>1 DEF ReadyIsFree, S
<1> QED
  BY <1>2, ListInvariant, PTL

-----------------------------------------------------------------------------
(* Spare registers.  Without forks every value goes to one register, so    *)
(* the moves form paths and cycles.                                        *)

OneReader == \A b, d \in RegDsts : Pred(b) = Pred(d) => b = d

LEMMA NoForks ==
  ASSUME moves \in MoveLists, ~Forked
  PROVE  MoveFacts /\ OneReader
<1>1. /\ moves \in Seq(CopyMove)
      /\ \A i, j \in DOMAIN moves : moves[i].dst = moves[j].dst => i = j
  BY MovesAssumption
<1>2. ForksEnd(moves)
  BY DEF ForksEnd, Forked, IsRegMove
<1>3. MoveFacts
  BY <1>2, MovesGiveFacts
<1>4. ASSUME NEW b \in RegDsts, NEW d \in RegDsts, Pred(b) = Pred(d)
      PROVE  b = d
  <2>1. PICK i \in DOMAIN moves : moves[i].dst = b
    BY DEF RegDsts, Dsts
  <2>2. PICK j \in DOMAIN moves : moves[j].dst = d
    BY DEF RegDsts, Dsts
  <2>3. moves[i].src = moves[j].src /\ moves[i].src \in Regs
    BY <1>3, <1>4, <2>1, <2>2 DEF MoveFacts, ListFacts, RegDsts
  <2> QED
    BY <2>1, <2>2, <2>3 DEF Forked, IsRegMove
<1> QED
  BY <1>3, <1>4 DEF OneReader

LEMMA FinitelyManyMoves ==
  ASSUME moves \in MoveLists
  PROVE  /\ IsFiniteSet(Dsts) /\ IsFiniteSet(RegDsts)
         /\ IsFiniteSet(Cycles)
<1> DEFINE f == [i \in DOMAIN moves |-> moves[i].dst]
<1>1. Len(moves) \in Nat /\ DOMAIN moves = 1..Len(moves)
  BY MovesAssumption
<1>2. IsFiniteSet(DOMAIN moves)
  BY <1>1, FS_Interval
<1>3. f \in Surjection(DOMAIN moves, Dsts)
  BY DEF Dsts, Surjection
<1>4. IsFiniteSet(Dsts)
  <2> HIDE DEF f
  <2> QED
    BY <1>2, <1>3, FS_Surjection
<1>5. IsFiniteSet(RegDsts)
  BY <1>4, FS_Subset DEF RegDsts
<1>6. IsFiniteSet(SUBSET RegDsts)
  BY <1>5, FS_SUBSET
<1>7. Cycles \in SUBSET (SUBSET RegDsts)
  BY DEF Cycles
<1> QED
  BY <1>4, <1>5, <1>6, <1>7, FS_Subset

(* A set whose members wait for one another: each is waited for.           *)
LEMMA EachWaitedFor ==
  ASSUME moves \in MoveLists, OneReader, NEW C \in SUBSET RegDsts, Closed(C)
  PROVE  \A c \in C : \E d \in C : Pred(d) = c
<1> DEFINE f == [d \in C |-> Pred(d)]
<1>1. IsFiniteSet(C) /\ Cardinality(C) \in Nat
  BY FinitelyManyMoves, FS_Subset, FS_CardinalityType
<1>2. f \in Injection(C, C)
  BY DEF Closed, OneReader, Injection, IsInjective
<1>3. f \in Surjection(C, C)
  <2> HIDE DEF f
  <2> QED
    BY <1>1, <1>2, FS_Injection
<1> QED
  BY <1>3 DEF Surjection

(* A set whose members are all waited for by a member: each waits for one. *)
LEMMA EachWaits ==
  ASSUME moves \in MoveLists, NEW H \in SUBSET RegDsts, \A h \in H : \E e \in H : Pred(e) = h
  PROVE  Closed(H)
<1> DEFINE g == [h \in H |-> CHOOSE e \in H : Pred(e) = h]
<1>1. IsFiniteSet(H) /\ Cardinality(H) \in Nat
  BY FinitelyManyMoves, FS_Subset, FS_CardinalityType
<1>2. \A h \in H : g[h] \in H /\ Pred(g[h]) = h
  OBVIOUS
<1>3. g \in [H -> H]
  BY <1>2
<1>4. g \in Injection(H, H)
  BY <1>2, <1>3 DEF Injection, IsInjective
<1>5. g \in Surjection(H, H)
  <2> HIDE DEF g
  <2> QED
    BY <1>1, <1>4, FS_Injection
<1>6. \A e \in H : \E h \in H : g[h] = e
  BY <1>5 DEF Surjection
<1> HIDE DEF g
<1> QED
  BY <1>2, <1>6 DEF Closed

(* Cycles have no register in common, each member's value is wanted, and   *)
(* only by a member.                                                       *)
LEMMA CyclesApart ==
  ASSUME moves \in MoveLists, MoveFacts, OneReader, NEW C \in Cycles
  PROVE  /\ C \subseteq RegDsts /\ C \subseteq S
         /\ \A b \in RegDsts : Pred(b) \in C => b \in C
         /\ \A D \in Cycles : C \cap D # {} => C = D
<1>1. C \in SUBSET RegDsts /\ Closed(C)
  BY DEF Cycles
<1>2. \A c \in C : \E d \in C : Pred(d) = c
  BY <1>1, EachWaitedFor
<1>3. C \subseteq S
  BY <1>1, <1>2 DEF MoveFacts, ListFacts
<1>4. \A b \in RegDsts : Pred(b) \in C => b \in C
  BY <1>1, <1>2 DEF OneReader
<1>5. ASSUME NEW D \in Cycles, C \cap D # {} PROVE C = D
  <2>1. Closed(C \cap D)
    BY DEF Cycles, Closed
  <2> QED
    BY <1>5, <2>1 DEF Cycles
<1> QED
  BY <1>1, <1>3, <1>4, <1>5

(* Where everybody waits for somebody, each is on a cycle.                 *)
LEMMA OnACycle ==
  ASSUME moves \in MoveLists, OneReader, NEW H \in SUBSET {d \in RegDsts : Pred(d) # d},
         Closed(H), NEW b \in H
  PROVE  \E C \in Cycles : b \in C /\ C \subseteq H
<1> DEFINE M == {y \in H : \A D \in SUBSET H : Closed(D) /\ b \in D => y \in D}
<1>1. b \in M /\ M \subseteq H
  OBVIOUS
<1>2. Closed(M)
  BY DEF Closed
<1>3. \A D \in SUBSET H : Closed(D) /\ b \in D => M \subseteq D
  OBVIOUS
<1> HIDE DEF M
<1>4. ASSUME NEW D \in SUBSET M, D # {}, Closed(D) PROVE D = M
  <2>1. CASE b \in D
    BY <1>1, <1>3, <1>4, <2>1
  <2>2. CASE b \notin D
    <3>1. \A c \in D : \E d \in D : Pred(d) = c
      BY <1>1, <1>4, EachWaitedFor
    <3>2. ASSUME NEW y \in M \ D PROVE Pred(y) \in M \ D
      <4>1. Pred(y) \in M
        BY <1>2 DEF Closed
      <4>2. Pred(y) \notin D
        BY <1>1, <3>1 DEF OneReader
      <4> QED
        BY <4>1, <4>2
    <3>3. Closed(M \ D)
      BY <3>2 DEF Closed
    <3>4. M \subseteq M \ D
      BY <1>1, <1>3, <2>2, <3>3
    <3> QED
      BY <1>4, <3>4
  <2> QED
    BY <2>1, <2>2
<1>5. M \in Cycles
  BY <1>1, <1>2, <1>4 DEF Cycles
<1> QED
  BY <1>1, <1>5

LEMMA CyclesStay ==
  ASSUME moves' = moves
  PROVE  Cycles' = Cycles /\ (Forked' <=> Forked)
BY DEF Cycles, Closed, RegDsts, Dsts, Pred, Move, Forked, IsRegMove

(* What has been copied so far, the cycles that have been opened, and the  *)
(* first n literals.                                                       *)
Copied == {b \in RegDsts : ~SelfMove(b) /\ Written(b)}

Opened == {C \in Cycles : \E b \in C : loc[b] # b}

LiteralsTo(n) == {moves[i].dst : i \in {j \in 1..n : ~IsRegMove(moves[j])}}

NoRepeats(s) == \A i, j \in DOMAIN s : s[i] = s[j] => i = j

(* A ready destination is still to be written, and is queued once; what is *)
(* neither ready nor on the list is written; and every copy emitted wrote  *)
(* one destination or opened one cycle.                                    *)
CopiesCounted ==
  /\ NoRepeats(ready)
  /\ \A b \in Elems(ready) : ~Written(b) /\ ~SelfMove(b)
  /\ \A b \in RegDsts : b \notin S => Written(b) \/ b \in Elems(ready)
  /\ \A b \in RegDsts : Written(b) \/ b \in Elems(todo) \/ b \in Elems(ready)
  /\ todo = <<>> => \A b \in RegDsts : Written(b)
  /\ fresh = FirstTemp + Cardinality(Opened)
  /\ emitted = Cardinality(Copied) + Cardinality(Opened)

LiteralsCounted ==
  /\ \A b \in RegDsts : Written(b)
  /\ fresh = FirstTemp + Cardinality(Opened)
  /\ emitted = Cardinality(Copied) + Cardinality(Opened) + Cardinality(LiteralsTo(next - 1))
  /\ phase = "done" => next = Len(moves) + 1

CountInv ==
  ~Forked =>
    /\ IInv
    /\ phase = "queue" => NoRepeats(ready) /\ emitted = 0
    /\ phase = "copy" => CopiesCounted
    /\ phase \in {"literals", "done"} => LiteralsCounted

LEMMA Counting ==
  ASSUME moves \in MoveLists
  PROVE  /\ IsFiniteSet(Copied) /\ Cardinality(Copied) \in Nat
         /\ IsFiniteSet(Opened) /\ Cardinality(Opened) \in Nat
         /\ FirstTemp \in Nat
<1>1. Copied \in SUBSET RegDsts /\ Opened \in SUBSET Cycles
  BY DEF Copied, Opened
<1> QED
  BY <1>1, FinitelyManyMoves, FS_Subset, FS_CardinalityType, RegsAssumption

LEMMA PopOnce ==
  ASSUME NEW T, NEW s \in Seq(T), s # <<>>, NoRepeats(s)
  PROVE  NoRepeats(Pop(s)) /\ Elems(Pop(s)) = Elems(s) \ {Top(s)}
<1>1. Len(s) \in Nat /\ Len(s) # 0 /\ DOMAIN s = 1..Len(s)
  OBVIOUS
<1>2. /\ DOMAIN Pop(s) = 1..(Len(s) - 1)
      /\ \A i \in 1..(Len(s) - 1) : Pop(s)[i] = s[i]
  BY <1>1 DEF Pop
<1>3. \A i \in 1..(Len(s) - 1) : i \in DOMAIN s /\ i # Len(s)
  <2> DEFINE n == Len(s)
  <2>1. n \in Nat /\ DOMAIN s = 1..n
    BY <1>1
  <2> HIDE DEF n
  <2>2. \A i \in 1..(n - 1) : i \in 1..n /\ i # n
    BY <2>1
  <2> QED
    BY <2>1, <2>2 DEF n
<1>4. Len(s) \in DOMAIN s
  BY <1>1
<1>5. NoRepeats(Pop(s))
  BY <1>2, <1>3 DEF NoRepeats
<1>6. Top(s) \notin Elems(Pop(s))
  BY <1>2, <1>3, <1>4 DEF NoRepeats, Elems, Top
<1> QED
  BY <1>5, <1>6, PopElems

LEMMA PushOnce ==
  ASSUME NEW T, NEW s \in Seq(T), NEW x \in T, NoRepeats(s), x \notin Elems(s)
  PROVE  NoRepeats(Append(s, x))
<1>1. /\ DOMAIN s = 1..Len(s) /\ Len(s) \in Nat
      /\ DOMAIN Append(s, x) = 1..(Len(s) + 1)
      /\ Append(s, x)[Len(s) + 1] = x
      /\ \A i \in 1..Len(s) : Append(s, x)[i] = s[i]
  OBVIOUS
<1>2. \A i \in DOMAIN Append(s, x) : i \in DOMAIN s \/ i = Len(s) + 1
  BY <1>1
<1>3. \A i \in DOMAIN s : Append(s, x)[i] = s[i] /\ s[i] # x
  BY <1>1 DEF Elems
<1> QED
  BY <1>1, <1>2, <1>3 DEF NoRepeats

(* A copy writes a destination for the first time and opens no cycle: a    *)
(* ready member of one has had its contents moved.                         *)
LEMMA CopyReadyCounts ==
  ASSUME IInv, MoveFacts, OneReader, CopiesCounted, CopyReady
  PROVE  CopiesCounted'
<1>1. TypeInv /\ Copying /\ moves \in MoveLists
  BY DEF IInv, CopyReady, TypeInv
<1>b. PICK b \in RegDsts : b = Top(ready)
  BY <1>1, PopElems DEF CopyReady, TypeInv
<1>a. PICK a \in S : a = Pred(b)
  BY DEF MoveFacts, ListFacts
<1> DEFINE freed == loc[a] = a /\ a \in RegDsts
<1>2. /\ b \in RegDsts /\ b \in Elems(ready) /\ a \in S /\ a \in DOMAIN loc
      /\ Pop(ready) \in Seq(RegDsts)
      /\ ready \in Seq(RegDsts) /\ ready # <<>>
  BY <1>1, <1>a, <1>b, PopElems DEF CopyReady, TypeInv, MoveFacts, ListFacts
<1>3. ~Written(b) /\ ~SelfMove(b) /\ a # b
  BY <1>2, <1>a DEF CopiesCounted, SelfMove
<1>4. /\ S' = S /\ RegDsts' = RegDsts /\ Cycles' = Cycles
      /\ \A x : Pred(x)' = Pred(x) /\ (SelfMove(x)' <=> SelfMove(x))
  BY MovesStay, CyclesStay DEF CopyReady
<1>5. /\ loc'[a] = b
      /\ \A x \in S : x # a => loc'[x] = loc[x]
      /\ todo' = todo /\ todo # <<>> /\ fresh' = fresh /\ emitted' = emitted + 1
      /\ ready' = IF freed THEN Append(Pop(ready), a) ELSE Pop(ready)
  BY <1>1, <1>2, <1>a, <1>b DEF CopyReady, TypeInv
<1>6. \A d \in RegDsts : Pred(d) = a => d = b
  BY <1>2, <1>a DEF OneReader
<1>7. Written(b)' /\ \A d \in RegDsts : d # b => (Written(d)' <=> Written(d))
  <2>1. Written(b)'
    BY <1>4, <1>5, <1>a DEF Written
  <2>2. ASSUME NEW d \in RegDsts, d # b PROVE Written(d)' <=> Written(d)
    <3>1. Pred(d) \in S /\ Pred(d) # a
      BY <1>6, <2>2 DEF MoveFacts, ListFacts
    <3>2. Written(d)' <=> loc'[Pred(d)'] = d
      BY DEF Written
    <3>3. Pred(d)' = Pred(d)
      BY <1>4
    <3>4. loc'[Pred(d)] = loc[Pred(d)]
      BY <1>5, <3>1
    <3> QED
      BY <3>2, <3>3, <3>4 DEF Written
  <2> QED
    BY <2>1, <2>2
<1>8. freed => a \notin Elems(ready) /\ a # b /\ ~SelfMove(a) /\ ~Written(a)
  <2> SUFFICES ASSUME freed PROVE a \notin Elems(ready) /\ ~SelfMove(a) /\ ~Written(a)
    BY <1>3
  <2>1. ~SelfMove(a)
    BY <1>3, <1>6 DEF SelfMove
  <2>2. a \notin Elems(ready)
    BY <1>1, <1>2, <2>1 DEF Copying, ReadyMoved
  <2>3. ~Written(a)
    <3>1. Pred(a) \in S /\ Pred(a) # a
      BY <2>1 DEF MoveFacts, ListFacts, SelfMove
    <3>2. store[loc[a]] = a /\ store[loc[Pred(a)]] = Pred(a)
      BY <1>1, <1>2, <3>1 DEF Copying, Held
    <3> QED
      BY <3>1, <3>2 DEF Written
  <2> QED
    BY <2>1, <2>2, <2>3
<1>9. NoRepeats(Pop(ready)) /\ Elems(Pop(ready)) = Elems(ready) \ {b}
  BY <1>2, <1>b, PopOnce DEF CopiesCounted
<1>10. /\ NoRepeats(ready')
       /\ Elems(ready') = (Elems(ready) \ {b}) \cup (IF freed THEN {a} ELSE {})
  <2>1. CASE freed
    <3>1. a \in RegDsts /\ a \notin Elems(Pop(ready))
      BY <1>8, <1>9, <2>1
    <3> QED
      BY <1>2, <1>5, <1>9, <2>1, <3>1, PushOnce, PushElems
  <2>2. CASE ~freed
    BY <1>5, <1>9, <2>2
  <2> QED
    BY <2>1, <2>2
<1>11. NoRepeats(ready)'
  BY <1>10 DEF NoRepeats
<1>12. \A x \in Elems(ready)' : ~Written(x)' /\ ~SelfMove(x)'
  <2>1. Elems(ready)' = Elems(ready')
    BY DEF Elems
  <2>2. \A x \in Elems(ready) : x \in RegDsts
    BY <1>2 DEF Elems
  <2> QED
    BY <1>4, <1>7, <1>8, <1>10, <2>1, <2>2 DEF CopiesCounted
<1>13. Elems(ready)' = Elems(ready') /\ Elems(todo)' = Elems(todo)
  BY <1>5 DEF Elems
<1>14. \A d \in RegDsts' : d \notin S' => Written(d)' \/ d \in Elems(ready)'
  BY <1>4, <1>7, <1>10, <1>13 DEF CopiesCounted
<1>15. \A d \in RegDsts' : Written(d)' \/ d \in Elems(todo)' \/ d \in Elems(ready)'
  BY <1>4, <1>7, <1>10, <1>13 DEF CopiesCounted
<1>16. Copied' = Copied \cup {b} /\ b \notin Copied
  BY <1>2, <1>3, <1>4, <1>7 DEF Copied
<1>17. Opened' = Opened
  <2>1. ASSUME NEW C \in Cycles
        PROVE  (\E x \in C : loc'[x] # x) <=> (\E x \in C : loc[x] # x)
    <3>1. /\ C \subseteq S
          /\ \A x \in RegDsts : Pred(x) \in C => x \in C
      BY <1>1, CyclesApart
    <3>2. CASE a \in C
      <4>1. b \in C /\ b \in S
        BY <1>2, <1>a, <3>1, <3>2
      <4>2. loc[b] # b
        BY <1>1, <1>2, <1>3, <4>1 DEF Copying, ReadyMoved
      <4>3. loc'[a] # a
        BY <1>3, <1>5
      <4> QED
        BY <3>2, <4>1, <4>2, <4>3
    <3>3. CASE a \notin C
      BY <1>5, <3>1, <3>3
    <3> QED
      BY <3>2, <3>3
  <2> QED
    BY <1>4, <2>1 DEF Opened
<1>18. /\ fresh' = FirstTemp + Cardinality(Opened')
       /\ emitted' = Cardinality(Copied') + Cardinality(Opened')
  <2>1. Cardinality(Copied \cup {b}) = Cardinality(Copied) + 1
    BY <1>1, <1>16, Counting, FS_AddElement
  <2> HIDE DEF Copied, Opened
  <2>2. Cardinality(Copied) \in Nat /\ Cardinality(Opened) \in Nat
    BY <1>1, Counting
  <2>3. /\ fresh = FirstTemp + Cardinality(Opened)
        /\ emitted = Cardinality(Copied) + Cardinality(Opened)
    BY DEF CopiesCounted
  <2>4. Cardinality(Copied') = Cardinality(Copied) + 1 /\ Cardinality(Opened') = Cardinality(Opened)
    BY <1>16, <1>17, <2>1
  <2> QED
    BY <1>5, <2>2, <2>3, <2>4
<1> QED
  BY <1>5, <1>11, <1>12, <1>14, <1>15, <1>18 DEF CopiesCounted

(* Striking off what is written changes no count.                          *)
LEMMA SkipWrittenCounts ==
  ASSUME IInv, MoveFacts, CopiesCounted, SkipWritten
  PROVE  CopiesCounted'
<1>1. /\ todo \in Seq(RegDsts) /\ todo # <<>>
      /\ todo' = Pop(todo) /\ Written(Top(todo))
      /\ ready = <<>> /\ ready' = ready /\ loc' = loc /\ moves' = moves
      /\ fresh' = fresh /\ emitted' = emitted
  BY DEF IInv, TypeInv, SkipWritten
<1>2. Elems(todo) = Elems(Pop(todo)) \cup {Top(todo)}
  BY <1>1, PopElems
<1>3. /\ S' = S /\ RegDsts' = RegDsts /\ Cycles' = Cycles
      /\ \A x : Pred(x)' = Pred(x) /\ (SelfMove(x)' <=> SelfMove(x))
  BY <1>1, MovesStay, CyclesStay
<1>4. \A x : Written(x)' <=> Written(x)
  BY <1>1, <1>3 DEF Written
<1>5. Copied' = Copied /\ Opened' = Opened
  BY <1>1, <1>3, <1>4 DEF Copied, Opened
<1>6. /\ Elems(ready)' = Elems(ready) /\ Elems(ready) = {}
      /\ Elems(todo)' = Elems(Pop(todo))
      /\ (NoRepeats(ready)' <=> NoRepeats(ready))
  BY <1>1 DEF Elems, NoRepeats
<1>7. \A x \in RegDsts : Written(x) \/ x \in Elems(Pop(todo))
  BY <1>1, <1>2, <1>6 DEF CopiesCounted
<1>8. todo' = <<>> => \A x \in RegDsts : Written(x)
  BY <1>1, <1>7, EmptyElems
<1>9. /\ fresh' = FirstTemp + Cardinality(Opened')
      /\ emitted' = Cardinality(Copied') + Cardinality(Opened')
  BY <1>1, <1>5 DEF CopiesCounted
<1> QED
  BY <1>3, <1>4, <1>6, <1>7, <1>8, <1>9 DEF CopiesCounted

(* When nothing is ready, whoever is unwritten waits for one that is       *)
(* unwritten too, and its contents are in place: so it is on a cycle that  *)
(* nothing has touched.                                                    *)
LEMMA BrokenIsACycle ==
  ASSUME IInv, MoveFacts, OneReader, phase = "copy", CopiesCounted, ready = <<>>,
         NEW b \in RegDsts, ~Written(b)
  PROVE  /\ b \in S /\ loc[b] = b /\ ~SelfMove(b) /\ Pred(b) \in Elems(todo)
         /\ \E C \in Cycles : b \in C /\ \A c \in C : loc[c] = c
<1> DEFINE H == {d \in RegDsts : ~Written(d)}
<1>1. Copying /\ moves \in MoveLists /\ Elems(ready) = {}
  BY EmptyElems DEF IInv, TypeInv
<1>2. ASSUME NEW d \in H
      PROVE  d \in S /\ loc[d] = d /\ ~SelfMove(d) /\ d \in Elems(todo)
  <2>1. d \in S /\ d \in Elems(todo)
    BY <1>1 DEF CopiesCounted
  <2>2. loc[d] = d
    BY <1>1, <2>1 DEF Copying, Placed, Written
  <2> QED
    BY <2>1, <2>2 DEF Written, SelfMove
<1>3. ASSUME NEW h \in H PROVE \E e \in H : Pred(e) = h
  <2>1. PICK e \in RegDsts : Pred(e) = h
    BY <1>2 DEF MoveFacts, ListFacts
  <2>2. ~Written(e)
    BY <1>2, <2>1 DEF Written, SelfMove
  <2> QED
    BY <2>1, <2>2
<1>4. H \in SUBSET {d \in RegDsts : Pred(d) # d} /\ b \in H
  BY <1>2 DEF SelfMove
<1> HIDE DEF H
<1>5. Closed(H)
  BY <1>1, <1>3, <1>4, EachWaits
<1>6. PICK C \in Cycles : b \in C /\ C \subseteq H
  BY <1>1, <1>4, <1>5, OnACycle
<1> QED
  BY <1>2, <1>4, <1>5, <1>6 DEF Closed

(* A spare register opens a cycle nothing has opened.                      *)
LEMMA BreakCycleCounts ==
  ASSUME IInv, MoveFacts, OneReader, CopiesCounted, BreakCycle
  PROVE  CopiesCounted'
<1>1. /\ TypeInv /\ Copying /\ moves \in MoveLists
      /\ ready = <<>> /\ todo \in Seq(RegDsts) /\ todo # <<>>
  BY DEF IInv, BreakCycle, TypeInv
<1>b. PICK b \in RegDsts : b = Top(todo)
  BY <1>1, PopElems
<1>2. ~Written(b)
  BY <1>b DEF BreakCycle
<1>3. /\ b \in S /\ loc[b] = b /\ ~SelfMove(b) /\ Pred(b) \in Elems(todo)
      /\ \E C \in Cycles : b \in C /\ \A c \in C : loc[c] = c
  BY <1>1, <1>2, BrokenIsACycle DEF BreakCycle
<1>4. PICK C \in Cycles : b \in C /\ \A c \in C : loc[c] = c
  BY <1>3
<1>5. /\ S' = S /\ RegDsts' = RegDsts /\ Cycles' = Cycles
      /\ \A x : Pred(x)' = Pred(x) /\ (SelfMove(x)' <=> SelfMove(x))
  BY MovesStay, CyclesStay DEF BreakCycle
<1>6. /\ loc'[b] = fresh
      /\ \A x \in S : x # b => loc'[x] = loc[x]
      /\ todo' = Pop(todo) /\ ready' = <<b>>
      /\ fresh' = fresh + 1 /\ emitted' = emitted + 1
  BY <1>1, <1>3, <1>b DEF BreakCycle, Put, TypeInv
<1>7. \A x \in RegDsts : x # fresh /\ Pred(x) \in S
  BY <1>1, RegsAssumption DEF TypeInv, MoveFacts, ListFacts
<1>8. \A x \in RegDsts : Written(x)' <=> Written(x)
  <2> SUFFICES ASSUME NEW x \in RegDsts PROVE loc'[Pred(x)] = x <=> loc[Pred(x)] = x
    BY <1>5 DEF Written
  <2>1. CASE Pred(x) = b
    <3>1. x # b
      BY <1>3, <2>1 DEF SelfMove
    <3> QED
      BY <1>3, <1>6, <1>7, <2>1, <3>1
  <2>2. CASE Pred(x) # b
    BY <1>6, <1>7, <2>2
  <2> QED
    BY <2>1, <2>2
<1>9. /\ Elems(ready)' = {b} /\ Elems(ready) = {} /\ NoRepeats(ready)'
      /\ Elems(todo)' = Elems(Pop(todo))
      /\ Elems(todo) = Elems(Pop(todo)) \cup {b}
  <2>1. DOMAIN <<b>> = {1} /\ <<b>>[1] = b
    OBVIOUS
  <2>2. Elems(ready)' = {b} /\ NoRepeats(ready)'
    BY <1>6, <2>1 DEF Elems, NoRepeats
  <2>3. Elems(todo)' = Elems(Pop(todo))
    BY <1>6 DEF Elems
  <2> QED
    BY <1>1, <1>b, <2>2, <2>3, EmptyElems, PopElems
<1>10. todo' # <<>>
  BY <1>3, <1>6, <1>9, EmptyElems DEF SelfMove
<1>11. Copied' = Copied
  BY <1>5, <1>8 DEF Copied
<1>12. Opened' = Opened \cup {C} /\ C \notin Opened
  <2>1. ASSUME NEW D \in Cycles
        PROVE  (\E x \in D : loc'[x] # x) <=> D = C \/ \E x \in D : loc[x] # x
    <3>1. D \subseteq S /\ (D \cap C # {} => D = C) /\ b # fresh
      BY <1>1, <1>7, CyclesApart
    <3>2. CASE b \in D
      BY <1>4, <1>6, <3>1, <3>2
    <3>3. CASE b \notin D
      BY <1>4, <1>6, <3>1, <3>3
    <3> QED
      BY <3>2, <3>3
  <2>2. C \notin Opened
    BY <1>4 DEF Opened
  <2> QED
    BY <1>4, <1>5, <2>1, <2>2 DEF Opened
<1>13. /\ fresh' = FirstTemp + Cardinality(Opened')
       /\ emitted' = Cardinality(Copied') + Cardinality(Opened')
  <2>1. Cardinality(Opened \cup {C}) = Cardinality(Opened) + 1
    BY <1>1, <1>12, Counting, FS_AddElement
  <2> HIDE DEF Copied, Opened
  <2>2. Cardinality(Copied) \in Nat /\ Cardinality(Opened) \in Nat /\ FirstTemp \in Nat
    BY <1>1, Counting
  <2>3. /\ fresh = FirstTemp + Cardinality(Opened)
        /\ emitted = Cardinality(Copied) + Cardinality(Opened)
    BY DEF CopiesCounted
  <2>4. Cardinality(Copied') = Cardinality(Copied) /\ Cardinality(Opened') = Cardinality(Opened) + 1
    BY <1>11, <1>12, <2>1
  <2> QED
    BY <1>6, <2>2, <2>3, <2>4
<1>14. \A x \in Elems(ready)' : ~Written(x)' /\ ~SelfMove(x)'
  BY <1>2, <1>3, <1>5, <1>8, <1>9
<1>15. \A x \in RegDsts' : x \notin S' => Written(x)' \/ x \in Elems(ready)'
  BY <1>5, <1>8, <1>9 DEF CopiesCounted
<1>16. \A x \in RegDsts' : Written(x)' \/ x \in Elems(todo)' \/ x \in Elems(ready)'
  BY <1>5, <1>8, <1>9 DEF CopiesCounted
<1> QED
  BY <1>9, <1>10, <1>13, <1>14, <1>15, <1>16 DEF CopiesCounted

(* The counts depend on nothing else.                                      *)
LEMMA CountsStay ==
  ASSUME moves' = moves, loc' = loc, ready' = ready, todo' = todo, fresh' = fresh,
         emitted' = emitted, CopiesCounted
  PROVE  CopiesCounted'
<1>1. /\ RegDsts' = RegDsts /\ S' = S /\ Cycles' = Cycles
      /\ \A x : Pred(x)' = Pred(x) /\ (SelfMove(x)' <=> SelfMove(x))
  BY MovesStay, CyclesStay
<1>2. \A x : Written(x)' <=> Written(x)
  BY <1>1 DEF Written
<1>3. Copied' = Copied /\ Opened' = Opened
  BY <1>1, <1>2 DEF Copied, Opened
<1>4. /\ Elems(ready)' = Elems(ready) /\ Elems(todo)' = Elems(todo)
      /\ (NoRepeats(ready)' <=> NoRepeats(ready))
  BY DEF Elems, NoRepeats
<1> QED
  BY <1>1, <1>2, <1>3, <1>4 DEF CopiesCounted

(* Each destination is queued when its move is met, so once.               *)
LEMMA QueueCounts ==
  ASSUME IInv, MoveFacts, Queue, NoRepeats(ready), emitted = 0
  PROVE  NoRepeats(ready)' /\ emitted' = 0
<1>1. /\ next \in 1..Len(moves) /\ moves \in MoveLists
      /\ ready \in Seq(RegDsts) /\ Queueing
  BY MovesAssumption DEF IInv, Queue, TypeInv
<1>2. /\ moves \in Seq(CopyMove)
      /\ \A i, j \in DOMAIN moves : moves[i].dst = moves[j].dst => i = j
  BY <1>1, MovesAssumption
<1> DEFINE m == moves[next]
<1>3. next \in DOMAIN moves /\ \A i \in 1..(next - 1) : i \in DOMAIN moves /\ i # next
  BY <1>1, <1>2
<1>4. m.dst \notin Elems(ready)
  BY <1>1, <1>2, <1>3 DEF Queueing
<1>5. IsRegMove(m) => m.dst \in RegDsts
  BY <1>3 DEF IsRegMove, RegDsts, Dsts, MoveFacts, ListFacts
<1>6. ready' = (IF IsRegMove(m) /\ m.dst \notin DOMAIN loc THEN Append(ready, m.dst) ELSE ready)
  BY DEF Queue
<1> HIDE DEF m
<1>7. NoRepeats(ready')
  BY <1>1, <1>4, <1>5, <1>6, PushOnce
<1> QED
  BY <1>7 DEF Queue, NoRepeats

LEMMA QueuedCounts ==
  ASSUME IInv, MoveFacts, OneReader, Queued, NoRepeats(ready), emitted = 0
  PROVE  CopiesCounted'
<1>1. /\ moves \in MoveLists /\ Queueing /\ next = Len(moves) + 1
      /\ moves' = moves /\ loc' = loc /\ ready' = ready /\ todo' = todo
      /\ fresh' = fresh /\ emitted' = emitted
  <2>1. Len(moves) \in Nat
    BY MovesAssumption DEF IInv, TypeInv
  <2> QED
    BY <2>1 DEF IInv, Queued, TypeInv
<1>2. Elems(todo) = RegDsts /\ Elems(ready) = RegDsts \ S
  <2>1. Len(moves) \in Nat /\ DOMAIN moves = 1..Len(moves) /\ 1..(next - 1) = DOMAIN moves
    BY <1>1, MovesAssumption
  <2>2. \A d \in RegDsts : \E i \in 1..(next - 1) : moves[i].dst = d
    BY <2>1 DEF RegDsts, Dsts
  <2> QED
    BY <1>1, <2>2 DEF Queueing
<1>3. \A a \in S : loc[a] = a
  BY <1>1 DEF Queueing
<1>4. \A d \in RegDsts : Pred(d) \in S /\ (Written(d) <=> SelfMove(d))
  BY <1>3 DEF MoveFacts, ListFacts, Written, SelfMove
<1>5. Copied = {} /\ Opened = {}
  <2>1. \A C \in Cycles : C \subseteq S
    BY <1>1, CyclesApart
  <2> QED
    BY <1>3, <1>4, <2>1 DEF Copied, Opened
<1>6. CopiesCounted
  <2>1. \A d \in Elems(ready) : ~Written(d) /\ ~SelfMove(d)
    BY <1>2, <1>4 DEF SelfMove
  <2>2. todo = <<>> => RegDsts = {}
    BY <1>2, EmptyElems
  <2>3. Cardinality(Copied) = 0 /\ Cardinality(Opened) = 0
    BY <1>5, FS_EmptySet
  <2>4. fresh = FirstTemp + 0 /\ emitted = 0 + 0
    BY <1>1, RegsAssumption DEF Queueing
  <2> QED
    BY <1>2, <2>1, <2>2, <2>3, <2>4 DEF CopiesCounted
<1> QED
  BY <1>1, <1>6, CountsStay

(* Literals are emitted one by one; what they wrote are as many registers. *)
LEMMA LiteralsFinite ==
  ASSUME moves \in MoveLists, NEW n \in 0..Len(moves)
  PROVE  IsFiniteSet(LiteralsTo(n)) /\ Cardinality(LiteralsTo(n)) \in Nat
<1>1. Len(moves) \in Nat /\ DOMAIN moves = 1..Len(moves)
  BY MovesAssumption
<1>2. \A i \in 1..n : i \in DOMAIN moves
  BY <1>1
<1>3. LiteralsTo(n) \in SUBSET Dsts
  BY <1>2 DEF LiteralsTo, Dsts
<1> QED
  BY <1>3, FinitelyManyMoves, FS_Subset, FS_CardinalityType

LEMMA NoLiterals == LiteralsTo(0) = {}
BY DEF LiteralsTo

LEMMA NextLiteral ==
  ASSUME moves \in MoveLists, NEW n \in 1..Len(moves)
  PROVE  Cardinality(LiteralsTo(n)) =
           Cardinality(LiteralsTo(n - 1)) + (IF IsRegMove(moves[n]) THEN 0 ELSE 1)
<1>1. /\ Len(moves) \in Nat /\ DOMAIN moves = 1..Len(moves)
      /\ \A i, j \in DOMAIN moves : moves[i].dst = moves[j].dst => i = j
  BY MovesAssumption
<1>2. /\ n \in DOMAIN moves /\ n - 1 \in 0..Len(moves)
      /\ \A i : i \in 1..n <=> i \in 1..(n - 1) \/ i = n
      /\ \A i \in 1..(n - 1) : i \in DOMAIN moves /\ i # n
  BY <1>1
<1>3. IsFiniteSet(LiteralsTo(n - 1)) /\ Cardinality(LiteralsTo(n - 1)) \in Nat
  BY <1>2, LiteralsFinite
<1>4. CASE IsRegMove(moves[n])
  <2>1. LiteralsTo(n) = LiteralsTo(n - 1)
    BY <1>2, <1>4 DEF LiteralsTo
  <2> QED
    BY <1>3, <1>4, <2>1
<1>5. CASE ~IsRegMove(moves[n])
  <2>1. LiteralsTo(n) = LiteralsTo(n - 1) \cup {moves[n].dst}
    BY <1>2, <1>5 DEF LiteralsTo
  <2>2. moves[n].dst \notin LiteralsTo(n - 1)
    BY <1>1, <1>2 DEF LiteralsTo
  <2> QED
    BY <1>3, <1>5, <2>1, <2>2, FS_AddElement
<1> QED
  BY <1>4, <1>5

LEMMA SequencedCounts ==
  ASSUME IInv, CopiesCounted, Sequenced
  PROVE  LiteralsCounted'
<1>1. /\ moves \in MoveLists /\ todo = <<>> /\ next' = 1 /\ phase' = "literals"
      /\ moves' = moves /\ loc' = loc /\ fresh' = fresh /\ emitted' = emitted
  BY DEF IInv, TypeInv, Sequenced
<1>2. /\ RegDsts' = RegDsts /\ Cycles' = Cycles
      /\ \A x : Pred(x)' = Pred(x) /\ (SelfMove(x)' <=> SelfMove(x))
      /\ \A x : Written(x)' <=> Written(x)
      /\ Copied' = Copied /\ Opened' = Opened
  BY <1>1, MovesStay, CyclesStay DEF Written, Copied, Opened
<1>3. LiteralsTo(next - 1)' = {}
  BY <1>1 DEF LiteralsTo
<1>4. Cardinality(LiteralsTo(next - 1))' = 0
  BY <1>3, FS_EmptySet
<1>5. /\ fresh = FirstTemp + Cardinality(Opened)
      /\ emitted = Cardinality(Copied) + Cardinality(Opened) + 0
      /\ \A x \in RegDsts : Written(x)
  BY <1>1, Counting DEF CopiesCounted
<1> QED
  BY <1>1, <1>2, <1>4, <1>5 DEF LiteralsCounted

LEMMA EmitLiteralCounts ==
  ASSUME IInv, LiteralsCounted, EmitLiteral
  PROVE  LiteralsCounted'
<1>1. /\ moves \in MoveLists /\ next \in 1..Len(moves) /\ next' = next + 1
      /\ phase' = "literals"
      /\ moves' = moves /\ loc' = loc /\ fresh' = fresh
      /\ emitted' = emitted + (IF IsRegMove(moves[next]) THEN 0 ELSE 1)
  BY MovesAssumption DEF IInv, TypeInv, EmitLiteral
<1>2. /\ RegDsts' = RegDsts /\ Cycles' = Cycles
      /\ \A x : Pred(x)' = Pred(x) /\ (SelfMove(x)' <=> SelfMove(x))
      /\ \A x : Written(x)' <=> Written(x)
      /\ Copied' = Copied /\ Opened' = Opened
  BY <1>1, MovesStay, CyclesStay DEF Written, Copied, Opened
<1>3. LiteralsTo(next - 1)' = LiteralsTo(next)
  <2>1. next' - 1 = next
    BY <1>1
  <2> QED
    BY <1>1, <2>1 DEF LiteralsTo, IsRegMove
<1>4. /\ Cardinality(LiteralsTo(next)) =
           Cardinality(LiteralsTo(next - 1)) + (IF IsRegMove(moves[next]) THEN 0 ELSE 1)
      /\ Cardinality(LiteralsTo(next - 1)) \in Nat
      /\ Cardinality(Copied) \in Nat /\ Cardinality(Opened) \in Nat
  <2>1. Len(moves) \in Nat /\ next - 1 \in 0..Len(moves)
    BY <1>1, MovesAssumption
  <2> QED
    BY <1>1, <2>1, NextLiteral, LiteralsFinite, Counting
<1>5. emitted = Cardinality(Copied) + Cardinality(Opened) + Cardinality(LiteralsTo(next - 1))
  BY DEF LiteralsCounted
<1>6. emitted' = Cardinality(Copied) + Cardinality(Opened) + Cardinality(LiteralsTo(next))
  <2> DEFINE c == Cardinality(Copied)
             o == Cardinality(Opened)
             l == Cardinality(LiteralsTo(next - 1))
  <2>1. c \in Nat /\ o \in Nat /\ l \in Nat /\ emitted = c + o + l
    BY <1>4, <1>5
  <2>2. /\ emitted' = emitted + (IF IsRegMove(moves[next]) THEN 0 ELSE 1)
        /\ Cardinality(LiteralsTo(next)) = l + (IF IsRegMove(moves[next]) THEN 0 ELSE 1)
    BY <1>1, <1>4
  <2> HIDE DEF c, o, l
  <2>3. emitted' = c + o + Cardinality(LiteralsTo(next))
    BY <2>1, <2>2
  <2> QED
    BY <2>3 DEF c, o
<1>7. Cardinality(LiteralsTo(next - 1))' = Cardinality(LiteralsTo(next))
  BY <1>3
<1> QED
  BY <1>1, <1>2, <1>6, <1>7 DEF LiteralsCounted

LEMMA CountsHold ==
  ASSUME CountInv, [Next]_vars
  PROVE  CountInv'
<1> SUFFICES ASSUME ~Forked' PROVE CountInv'
  BY DEF CountInv
<1>1. moves' = moves
  BY DEF Next, Step, Queue, Queued, CopyReady, SkipWritten, BreakCycle, Sequenced, EmitLiteral,
         Finish, Terminated, vars
<1>2. ~Forked /\ IInv
  BY <1>1, CyclesStay DEF CountInv
<1>3. MoveFacts /\ OneReader
  BY <1>2, NoForks DEF IInv, TypeInv
<1>4. IInv'
  BY <1>2, <1>3, NextHolds
<1>5. CASE Queue
  BY <1>2, <1>3, <1>4, <1>5, QueueCounts DEF CountInv, Queue
<1>6. CASE Queued
  BY <1>2, <1>3, <1>4, <1>6, QueuedCounts DEF CountInv, Queued
<1>7. CASE CopyReady
  BY <1>2, <1>3, <1>4, <1>7, CopyReadyCounts DEF CountInv, CopyReady
<1>8. CASE SkipWritten
  BY <1>2, <1>3, <1>4, <1>8, SkipWrittenCounts DEF CountInv, SkipWritten
<1>9. CASE BreakCycle
  BY <1>2, <1>3, <1>4, <1>9, BreakCycleCounts DEF CountInv, BreakCycle
<1>10. CASE Sequenced
  BY <1>2, <1>3, <1>4, <1>10, SequencedCounts DEF CountInv, Sequenced
<1>11. CASE EmitLiteral
  BY <1>2, <1>3, <1>4, <1>11, EmitLiteralCounts DEF CountInv, EmitLiteral
<1>12. CASE Finish \/ Terminated \/ UNCHANGED vars
  <2>1. /\ moves' = moves /\ loc' = loc /\ ready' = ready /\ todo' = todo /\ next' = next
        /\ fresh' = fresh /\ emitted' = emitted
    BY <1>12 DEF Finish, Terminated, vars
  <2>2. /\ RegDsts' = RegDsts
        /\ \A x : Pred(x)' = Pred(x) /\ (SelfMove(x)' <=> SelfMove(x))
        /\ \A x : Written(x)' <=> Written(x)
        /\ Copied' = Copied /\ Opened' = Opened
        /\ LiteralsTo(next - 1)' = LiteralsTo(next - 1)
    BY <2>1, MovesStay, CyclesStay DEF Written, Copied, Opened, LiteralsTo, IsRegMove
  <2>3. CASE Finish
    <3>1. phase = "literals" /\ phase' = "done" /\ next = Len(moves) + 1
      <4>1. Len(moves) \in Nat
        BY <1>2, MovesAssumption DEF IInv, TypeInv
      <4> QED
        BY <1>2, <2>3, <4>1 DEF Finish, IInv, TypeInv
    <3>2. LiteralsCounted
      BY <1>2, <3>1 DEF CountInv
    <3>3. LiteralsCounted'
      BY <2>1, <2>2, <3>1, <3>2 DEF LiteralsCounted
    <3> QED
      BY <1>4, <3>1, <3>3 DEF CountInv
  <2>4. CASE Terminated \/ UNCHANGED vars
    <3>1. phase' = phase
      BY <2>4 DEF Terminated, vars
    <3>2. CopiesCounted => CopiesCounted'
      BY <2>1, CountsStay
    <3>3. LiteralsCounted => LiteralsCounted'
      BY <2>1, <2>2, <3>1 DEF LiteralsCounted
    <3> QED
      BY <1>2, <1>4, <2>1, <2>2, <3>1, <3>2, <3>3 DEF CountInv
  <2> QED
    BY <1>12, <2>3, <2>4
<1> QED
  BY <1>5, <1>6, <1>7, <1>8, <1>9, <1>10, <1>11, <1>12 DEF Next, Step

(* When no value goes to two registers, the sequencer uses exactly one     *)
(* spare register and one extra copy for each cycle of moves, and none for *)
(* a move of a register to itself (sequenceRegisters, breaking a cycle).   *)
THEOREM OneSpareForEachCycle == Spec => []OneSparePerCycle
<1>1. Init => CountInv
  <2> SUFFICES ASSUME Init PROVE CountInv
    OBVIOUS
  <2>1. NoRepeats(ready) /\ emitted = 0 /\ phase = "queue"
    BY DEF Init, NoRepeats
  <2> QED
    BY <2>1, InitHolds DEF CountInv
<1>2. CountInv /\ [Next]_vars => CountInv'
  BY CountsHold
<1>3. CountInv => OneSparePerCycle
  <2> SUFFICES ASSUME CountInv, phase = "done", ~Forked
               PROVE  /\ fresh - FirstTemp = Cardinality(Cycles)
                      /\ emitted = Cardinality({d \in Dsts : Pred(d) # d}) + Cardinality(Cycles)
    BY DEF OneSparePerCycle
  <2> DEFINE lits == LiteralsTo(Len(moves))
             moved == {d \in Dsts : Pred(d) # d}
  <2>1. IInv /\ LiteralsCounted /\ moves \in MoveLists
    BY DEF CountInv, IInv, TypeInv
  <2>2. MoveFacts /\ OneReader
    BY <2>1, NoForks
  <2>3. Len(moves) \in Nat /\ DOMAIN moves = 1..Len(moves) /\ next - 1 = Len(moves)
    BY <2>1, MovesAssumption DEF LiteralsCounted
  <2>4. Opened = Cycles
    <3>1. ASSUME NEW C \in Cycles PROVE \E c \in C : loc[c] # c
      <4>1. PICK d \in C : d \in RegDsts /\ Pred(d) \in C /\ Pred(d) # d
        BY DEF Cycles, Closed
      <4>2. loc[Pred(d)] = d
        BY <2>1, <4>1 DEF LiteralsCounted, Written
      <4> QED
        BY <4>1, <4>2
    <3> QED
      BY <3>1 DEF Opened
  <2>5. Copied = {d \in RegDsts : Pred(d) # d}
    BY <2>1 DEF Copied, LiteralsCounted, SelfMove
  <2>6. moved = Copied \cup lits
    <3>1. ASSUME NEW d \in moved PROVE d \in Copied \cup lits
      <4>1. PICK i \in DOMAIN moves : moves[i].dst = d
        BY DEF Dsts
      <4>2. CASE IsRegMove(moves[i])
        BY <2>2, <2>5, <4>1, <4>2 DEF IsRegMove, RegDsts, MoveFacts, ListFacts
      <4>3. CASE ~IsRegMove(moves[i])
        BY <2>3, <4>1, <4>3 DEF LiteralsTo
      <4> QED
        BY <4>2, <4>3
    <3>2. ASSUME NEW d \in lits PROVE d \in moved
      <4>1. PICK i \in DOMAIN moves : moves[i].dst = d /\ ~IsRegMove(moves[i])
        BY <2>3 DEF LiteralsTo
      <4>2. moves[i] \in CopyMove /\ Pred(d) = moves[i].src
        BY <2>1, <2>2, <4>1, MovesAssumption DEF MoveFacts, ListFacts
      <4>3. d \in Regs /\ Pred(d) \notin Regs
        BY <4>1, <4>2 DEF CopyMove, IsRegMove
      <4> QED
        BY <4>1, <4>3 DEF Dsts
    <3>3. Copied \subseteq moved
      BY <2>5 DEF RegDsts
    <3> QED
      BY <3>1, <3>2, <3>3
  <2>7. Copied \cap lits = {}
    <3>1. ASSUME NEW d \in lits PROVE d \notin Copied
      <4>1. PICK i \in DOMAIN moves : moves[i].dst = d /\ moves[i].src \notin Regs
        BY <2>3 DEF LiteralsTo, IsRegMove
      <4> QED
        BY <2>2, <2>5, <4>1 DEF MoveFacts, ListFacts, RegDsts
    <3> QED
      BY <3>1
  <2>8. /\ IsFiniteSet(Copied) /\ Cardinality(Copied) \in Nat
        /\ Cardinality(Opened) \in Nat /\ FirstTemp \in Nat
        /\ IsFiniteSet(lits) /\ Cardinality(lits) \in Nat
    BY <2>1, <2>3, Counting, LiteralsFinite
  <2>9. Cardinality(moved) = Cardinality(Copied) + Cardinality(lits)
    <3> HIDE DEF lits, moved
    <3>1. Cardinality(Copied \cap lits) = 0
      BY <2>7, FS_EmptySet
    <3> QED
      BY <2>6, <2>8, <3>1, FS_Union
  <2>10. /\ fresh = FirstTemp + Cardinality(Opened)
         /\ emitted = Cardinality(Copied) + Cardinality(Opened) + Cardinality(lits)
    BY <2>1, <2>3 DEF LiteralsCounted
  <2> HIDE DEF lits, moved
  <2>11. /\ fresh - FirstTemp = Cardinality(Opened)
         /\ emitted = Cardinality(moved) + Cardinality(Opened)
    BY <2>8, <2>9, <2>10
  <2> QED
    BY <2>4, <2>11 DEF moved
<1> QED
  BY <1>1, <1>2, <1>3, PTL DEF Spec
=============================================================================
