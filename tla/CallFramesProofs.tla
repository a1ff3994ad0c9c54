-------------------------- MODULE CallFramesProofs --------------------------
(***************************************************************************)
(* Proofs about the search for recursion and what is made of it, for every *)
(* call graph, every order of callees and every run of the program.  The   *)
(* search closes the components of mutual reachability.  Every recursion a *)
(* run enters has been reported.  The counts reported are never too high,  *)
(* and exact where they claim to be.  Ordinary calls never overflow the    *)
(* stack of an accepted program.                                           *)
(***************************************************************************)
EXTENDS CallFrames, FiniteSetTheorems, SequenceTheorems, TLAPS

Facts == INSTANCE MirFuncProofs WITH VRegs <- {}

-----------------------------------------------------------------------------
(* Reachability                                                            *)

WithinOf(g, f, n, h) ==
  h = [k \in 0..n |-> IF k = 0 THEN Callees(g, f) ELSE h[k - 1] \cup CalledFrom(g, h[k - 1])]

CallGraphs == [Funcs -> SUBSET Site]

LEMMA CalleesAreFuncs ==
  ASSUME NEW g \in CallGraphs, NEW f \in Funcs
  PROVE  Callees(g, f) \in SUBSET Funcs
<1>1. g[f] \in SUBSET Site
  BY DEF CallGraphs
<1>2. \A s \in g[f] : s.callee \in Funcs
  BY <1>1 DEF Site
<1> QED
  BY <1>2 DEF Callees

(* Going on as often as there are functions reaches all there is to reach. *)
LEMMA BelowIsReached ==
  ASSUME NEW g \in CallGraphs, NEW f \in Funcs
  PROVE  \E r : /\ \A n \in Nat : r[n] \in SUBSET Funcs
                /\ r[0] = Callees(g, f)
                /\ \A n \in Nat : r[n + 1] = r[n] \cup CalledFrom(g, r[n])
                /\ Cardinality(Funcs) \in Nat
                /\ Below(g, f) = r[Cardinality(Funcs)]
                /\ CalledFrom(g, Below(g, f)) \subseteq Below(g, f)
<1> DEFINE S == SUBSET Funcs
           N == Cardinality(Funcs)
           step == [p \in S \X Nat |-> p[1] \cup CalledFrom(g, p[1])]
<1>1. IsFiniteSet(Funcs) /\ N \in Nat
  BY FuncsAssumption, FS_CardinalityType
<1>2. Callees(g, f) \in S
  BY CalleesAreFuncs
<1>3. \A x \in S, n \in Nat : step[<<x, n>>] = x \cup CalledFrom(g, x)
  OBVIOUS
<1>4. \A x \in S : CalledFrom(g, x) \in S
  BY CalleesAreFuncs DEF CalledFrom
<1>5. \A x \in S, n \in Nat : step[<<x, n>>] \in S
  BY <1>3, <1>4
<1> HIDE DEF S, step
<1>6. PICK r : Facts!Iteration(r, S, Callees(g, f), step)
  BY <1>2, <1>5, Facts!Iterates
<1>7. /\ \A n \in Nat : r[n] \in S
      /\ r[0] = Callees(g, f)
      /\ \A n \in Nat : r[n + 1] = r[n] \cup CalledFrom(g, r[n])
  BY <1>3, <1>6 DEF Facts!Iteration
<1> HIDE DEF N
<1>8. Below(g, f) = r[N]
  <2> DEFINE h == [k \in 0..N |-> r[k]]
             w == CHOOSE e : WithinOf(g, f, N, e)
  <2>1. WithinOf(g, f, N, h)
    <3>1. 0 \in 0..N /\ h[0] = r[0]
      BY <1>1
    <3>2. ASSUME NEW k \in 0..N, k # 0 PROVE h[k] = h[k - 1] \cup CalledFrom(g, h[k - 1])
      <4>1. k - 1 \in Nat /\ (k - 1) + 1 = k /\ k - 1 \in 0..N
        BY <1>1, <3>2
      <4>2. r[k] = r[k - 1] \cup CalledFrom(g, r[k - 1])
        BY <1>7, <4>1
      <4> QED
        BY <4>1, <4>2
    <3>3. h = [k \in 0..N |->
                 IF k = 0 THEN Callees(g, f) ELSE h[k - 1] \cup CalledFrom(g, h[k - 1])]
      BY <1>7, <3>1, <3>2
    <3> QED
      BY <3>3 DEF WithinOf
  <2>2. WithinOf(g, f, N, w)
    <3> HIDE DEF h
    <3> QED
      BY <2>1
  <2>3. Below(g, f) = w[N]
    BY DEF Below, WithinOf, N
  <2> HIDE DEF h, w
  <2>4. w[0] = r[0]
    BY <1>1, <1>7, <2>2 DEF WithinOf
  <2>5. \A k \in 1..N : w[k - 1] = r[k - 1] => w[k] = r[k]
    <3> SUFFICES ASSUME NEW k \in 1..N, w[k - 1] = r[k - 1] PROVE w[k] = r[k]
      OBVIOUS
    <3>1. k - 1 \in Nat /\ (k - 1) + 1 = k /\ k \in 0..N /\ k # 0
      BY <1>1
    <3>2. r[k] = r[k - 1] \cup CalledFrom(g, r[k - 1])
      BY <1>7, <3>1
    <3>3. w[k] = w[k - 1] \cup CalledFrom(g, w[k - 1])
      BY <2>2, <3>1 DEF WithinOf
    <3> QED
      BY <3>2, <3>3
  <2>6. \A k \in 0..N : w[k] = r[k]
    BY <1>1, <2>4, <2>5, Facts!StepAlike
  <2> QED
    BY <1>1, <2>3, <2>6
<1>9. r[N + 1] = r[N]
  <2>1. \A n \in Nat : r[n] \in SUBSET Funcs
    BY <1>7 DEF S
  <2>2. \A n \in Nat : r[n] \subseteq r[n + 1]
    BY <1>7
  <2>3. \A n \in Nat : r[n + 1] = r[n] => r[n + 2] = r[n + 1]
    <3> SUFFICES ASSUME NEW n \in Nat, r[n + 1] = r[n] PROVE r[n + 2] = r[n + 1]
      OBVIOUS
    <3>1. n + 1 \in Nat /\ (n + 1) + 1 = n + 2
      OBVIOUS
    <3>2. r[n + 2] = r[n + 1] \cup CalledFrom(g, r[n + 1])
      BY <1>7, <3>1
    <3> QED
      BY <1>7, <3>2
  <2>4. Facts!IsFiniteSet(Funcs) /\ Facts!Cardinality(Funcs) = Cardinality(Funcs)
    BY <1>1 DEF IsFiniteSet, Facts!IsFiniteSet, Cardinality, Facts!Cardinality
  <2> QED
    BY <1>1, <2>1, <2>2, <2>3, <2>4, Facts!ChainStops DEF N
<1>10. CalledFrom(g, Below(g, f)) \subseteq Below(g, f)
  BY <1>1, <1>7, <1>8, <1>9
<1> QED
  BY <1>1, <1>7, <1>8, <1>10 DEF S, N

(* What is entered below f is the least set with the callees of f and      *)
(* those of its members.                                                   *)
LEMMA BelowIsLeast ==
  ASSUME NEW g \in CallGraphs, NEW f \in Funcs
  PROVE  /\ Below(g, f) \in SUBSET Funcs
         /\ Callees(g, f) \subseteq Below(g, f)
         /\ \A h \in Below(g, f) : Callees(g, h) \subseteq Below(g, f)
         /\ \A W : ( /\ Callees(g, f) \subseteq W
                     /\ \A h \in W \cap Funcs : Callees(g, h) \subseteq W )
                   => Below(g, f) \subseteq W
<1> DEFINE N == Cardinality(Funcs)
<1>1. PICK r : /\ \A n \in Nat : r[n] \in SUBSET Funcs
               /\ r[0] = Callees(g, f)
               /\ \A n \in Nat : r[n + 1] = r[n] \cup CalledFrom(g, r[n])
               /\ N \in Nat
               /\ Below(g, f) = r[N]
               /\ CalledFrom(g, Below(g, f)) \subseteq Below(g, f)
  BY BelowIsReached
<1> HIDE DEF N
<1>2. Callees(g, f) \subseteq Below(g, f)
  <2> DEFINE E == {n \in Nat : Callees(g, f) \subseteq r[n]}
  <2>1. 0 \in E
    BY <1>1
  <2>2. ASSUME NEW n \in Nat, n \in E PROVE n + 1 \in E
    BY <1>1, <2>2
  <2> HIDE DEF E
  <2>3. \A n \in Nat : n \in E
    BY <2>1, <2>2, Facts!Induction
  <2> QED
    BY <1>1, <2>3 DEF E
<1>3. ASSUME NEW W, Callees(g, f) \subseteq W, \A h \in W \cap Funcs : Callees(g, h) \subseteq W
      PROVE  Below(g, f) \subseteq W
  <2> DEFINE E == {n \in Nat : r[n] \subseteq W}
  <2>1. 0 \in E
    BY <1>1, <1>3
  <2>2. ASSUME NEW n \in Nat, n \in E PROVE n + 1 \in E
    <3>1. r[n + 1] = r[n] \cup CalledFrom(g, r[n]) /\ r[n] \subseteq W /\ r[n] \subseteq Funcs
      BY <1>1, <2>2
    <3> QED
      BY <1>3, <3>1 DEF CalledFrom
  <2> HIDE DEF E
  <2>3. \A n \in Nat : n \in E
    BY <2>1, <2>2, Facts!Induction
  <2> QED
    BY <1>1, <2>3 DEF E
<1>4. \A h \in Below(g, f) : Callees(g, h) \subseteq Below(g, f)
  BY <1>1 DEF CalledFrom
<1> QED
  BY <1>1, <1>2, <1>3, <1>4

(* A chain of calls goes on, and starts with one call.                     *)
LEMMA BelowGoesOn ==
  ASSUME NEW g \in CallGraphs, NEW f \in Funcs, NEW h \in Below(g, f)
  PROVE  /\ h \in Funcs
         /\ Below(g, h) \subseteq Below(g, f)
         /\ \E c \in Callees(g, f) : h = c \/ h \in Below(g, c)
<1>1. h \in Funcs /\ Callees(g, h) \subseteq Below(g, f)
  BY BelowIsLeast
<1>2. \A k \in Below(g, f) \cap Funcs : Callees(g, k) \subseteq Below(g, f)
  BY BelowIsLeast
<1>3. Below(g, h) \subseteq Below(g, f)
  BY <1>1, <1>2, BelowIsLeast
<1> DEFINE W == {k \in Funcs : \E c \in Callees(g, f) : k = c \/ k \in Below(g, c)}
<1>4. Callees(g, f) \subseteq W
  BY CalleesAreFuncs
<1>5. ASSUME NEW k \in W PROVE Callees(g, k) \subseteq W
  <2>1. PICK c \in Callees(g, f) : k = c \/ k \in Below(g, c)
    OBVIOUS
  <2>2. k \in Funcs /\ c \in Funcs
    BY CalleesAreFuncs
  <2>3. Callees(g, k) \subseteq Below(g, c)
    BY <2>1, <2>2, BelowIsLeast
  <2> QED
    BY <2>2, <2>3, CalleesAreFuncs
<1>6. Below(g, f) \subseteq W
  <2> HIDE DEF W
  <2> QED
    BY <1>4, <1>5, BelowIsLeast
<1> QED
  BY <1>1, <1>3, <1>6

-----------------------------------------------------------------------------
(* The search                                                              *)

To(f, h) == h = f \/ h \in Below(graph, f)

Opened == {open[i] : i \in DOMAIN open}
Within == {work[i].fn : i \in DOMAIN work}
Closed == {f \in Funcs : Reached(f)} \ Opened

(* The walk is inside work[i] when it stands at x, or was when it left x.  *)
Carries(i, x) ==
  /\ index[work[i].fn] <= index[x]
  /\ i + 1 \in DOMAIN work => index[x] < index[work[i + 1].fn]

(* The callees of x that have been looked at.                              *)
Handled(x) ==
  {y \in Callees(graph, x) : \A i \in DOMAIN work : work[i].fn = x => y \notin work[i].todo}

Frames == [fn : Funcs, todo : SUBSET Funcs, selfCall : BOOLEAN]

SearchTypes ==
  /\ graph \in CallGraphs
  /\ index \in [Funcs -> Nat \cup {Unnumbered}]
  /\ low \in [Funcs -> Nat \cup {Unnumbered}]
  /\ open \in Seq(Funcs)
  /\ work \in Seq(Frames)
  /\ found \in SUBSET [members : SUBSET Funcs, recursive : BOOLEAN]

(* Numbers are given in order, and both stacks grow in that order.         *)
InOrder ==
  /\ \A f \in Funcs : Reached(f) => index[f] < Cardinality({h \in Funcs : Reached(h)})
  /\ \A f, h \in Funcs : Reached(f) /\ index[f] = index[h] => f = h
  /\ \A f \in Opened : Reached(f)
  /\ \A i, j \in DOMAIN open : i < j => index[open[i]] < index[open[j]]
  /\ \A i, j \in DOMAIN work : i < j => index[work[i].fn] < index[work[j].fn]
  /\ Within \subseteq Opened

(* What is closed calls nothing else, and is made of components.           *)
ClosedSound ==
  /\ Closed = UNION {c.members : c \in found}
  /\ \A f \in Closed : Callees(graph, f) \subseteq Closed
  /\ \A c \in found :
       /\ c.members # {}
       /\ \A f \in c.members :
            c.members = Component(graph, f) /\ (c.recursive <=> IsRecursive(graph, f))

CallsHandled ==
  /\ \A x \in Opened : \A y \in Handled(x) : Reached(y)
  /\ \A i \in DOMAIN work :
       /\ work[i].todo \subseteq Callees(graph, work[i].fn)
       /\ work[i].selfCall <=> work[i].fn \in Handled(work[i].fn)

(* Whatever is open lies below each function entered before it, and        *)
(* reaches the innermost of those the walk is still inside.                *)
OpenReaches ==
  /\ \A i \in DOMAIN work, x \in Opened :
       index[work[i].fn] <= index[x] => To(work[i].fn, x)
  /\ \A x \in Opened : \E i \in DOMAIN work : Carries(i, x) /\ To(x, work[i].fn)

(* A low number is one reached, and none lower is called from what the     *)
(* function carries.                                                       *)
LowSound ==
  \A i \in DOMAIN work :
    /\ low[work[i].fn] <= index[work[i].fn]
    /\ \E z \in Opened : index[z] = low[work[i].fn] /\ To(work[i].fn, z)
    /\ \A x \in Opened : Carries(i, x) =>
         \A y \in Handled(x) \cap Opened : low[work[i].fn] <= index[y]

SearchInv ==
  SearchTypes /\ InOrder /\ ClosedSound /\ CallsHandled /\ OpenReaches /\ LowSound

(* Reaching is transitive and starts with a call.                          *)
LEMMA Reaches ==
  ASSUME graph \in CallGraphs
  PROVE  /\ \A f, h, k \in Funcs : To(f, h) /\ To(h, k) => To(f, k)
         /\ \A f \in Funcs : \A h \in Callees(graph, f) : h \in Funcs /\ To(f, h)
<1>1. ASSUME NEW f \in Funcs, NEW h \in Funcs, NEW k \in Funcs, To(f, h), To(h, k)
      PROVE  To(f, k)
  <2>1. CASE h = f \/ k = h
    BY <1>1, <2>1 DEF To
  <2>2. CASE h \in Below(graph, f) /\ k \in Below(graph, h)
    BY <2>2, BelowGoesOn DEF To
  <2> QED
    BY <1>1, <2>1, <2>2 DEF To
<1>2. ASSUME NEW f \in Funcs, NEW h \in Callees(graph, f)
      PROVE  h \in Funcs /\ To(f, h)
  BY CalleesAreFuncs, BelowIsLeast DEF To
<1> QED
  BY <1>1, <1>2

(* What the types and the order say of each element of the two stacks.     *)
LEMMA OnTheStacks ==
  ASSUME SearchTypes, InOrder
  PROVE  /\ Len(work) \in Nat /\ DOMAIN work = 1..Len(work)
         /\ \A i \in 1..Len(work) : /\ work[i] \in Frames /\ work[i].fn \in Opened
                                    /\ work[i].fn \in Funcs /\ work[i].todo \subseteq Funcs
                                    /\ index[work[i].fn] \in Nat
         /\ Len(open) \in Nat /\ DOMAIN open = 1..Len(open)
         /\ \A i \in 1..Len(open) : open[i] \in Opened
         /\ \A x \in Opened : x \in Funcs /\ Reached(x) /\ index[x] \in Nat
                              /\ \E i \in 1..Len(open) : open[i] = x
<1>1. /\ Len(work) \in Nat /\ DOMAIN work = 1..Len(work)
      /\ \A i \in 1..Len(work) : work[i] \in Frames
  BY DEF SearchTypes
<1>2. \A i \in 1..Len(work) : work[i].fn \in Funcs /\ work[i].todo \subseteq Funcs
  BY <1>1 DEF Frames
<1>3. /\ Len(open) \in Nat /\ DOMAIN open = 1..Len(open)
      /\ \A i \in 1..Len(open) : open[i] \in Funcs
  BY DEF SearchTypes
<1>4. \A x \in Opened : x \in Funcs /\ Reached(x) /\ \E i \in 1..Len(open) : open[i] = x
  BY <1>3 DEF Opened, InOrder
<1>5. \A x \in Opened : index[x] \in Nat
  BY <1>4 DEF Reached, SearchTypes
<1>6. \A i \in 1..Len(work) : work[i].fn \in Opened
  BY <1>1 DEF Within, InOrder
<1>7. \A i \in 1..Len(open) : open[i] \in Opened
  BY <1>3 DEF Opened
<1> QED
  BY <1>1, <1>2, <1>3, <1>4, <1>5, <1>6, <1>7

(* The stack after the function on top has looked at one more callee.      *)
LEMMA SteppedStack ==
  ASSUME SearchInv, work # <<>>, NEW f
  PROVE  /\ Stepped(f) \in Seq(Frames) /\ Len(Stepped(f)) = Len(work)
         /\ \A i \in 1..Len(work) :
              /\ Stepped(f)[i].fn = work[i].fn
              /\ i # Len(work) => Stepped(f)[i] = work[i]
              /\ i = Len(work) => /\ Stepped(f)[i].todo = work[i].todo \ {f}
                                  /\ Stepped(f)[i].selfCall = (work[i].selfCall \/ f = work[i].fn)
<1> DEFINE L == Len(work)
           top == [work[L] EXCEPT !.todo = @ \ {f}, !.selfCall = @ \/ f = work[L].fn]
<1>0. work \in Seq(Frames) /\ Len(work) \in Nat /\ DOMAIN work = 1..Len(work)
      /\ \A i \in 1..Len(work) : work[i] \in Frames
  BY OnTheStacks DEF SearchInv, SearchTypes
<1>1. L \in 1..Len(work) /\ work[L] \in Frames
  BY <1>0
<1>2. top \in Frames /\ top.fn = work[L].fn /\ top.todo = work[L].todo \ {f}
      /\ top.selfCall = (work[L].selfCall \/ f = work[L].fn)
  BY <1>1 DEF Frames
<1>3. Stepped(f) = [work EXCEPT ![L] = top]
  BY <1>0, <1>1 DEF Stepped, Inner, Frames
<1> HIDE DEF top, L
<1>4. Stepped(f) \in Seq(Frames) /\ Len(Stepped(f)) = Len(work)
      /\ \A i \in 1..Len(work) : Stepped(f)[i] = IF i = L THEN top ELSE work[i]
  BY <1>0, <1>1, <1>2, <1>3
<1> QED
  BY <1>1, <1>2, <1>4 DEF L

(* The state of the search after a function has been given its number.     *)
NumberedAfter(f, outer) ==
  /\ f \in Funcs /\ ~Reached(f)
  /\ Number(f, outer)
  /\ graph' = graph
  /\ \/ work = <<>> /\ outer = <<>>
     \/ work # <<>> /\ f \in Inner.todo /\ outer = Stepped(f)

LEMMA StackAfterNumber ==
  ASSUME SearchInv, NEW f, NEW outer, NumberedAfter(f, outer)
  PROVE  /\ Len(work') = Len(work) + 1
         /\ work' \in Seq(Frames)
         /\ work'[Len(work) + 1] = [fn |-> f, todo |-> Callees(graph, f), selfCall |-> FALSE]
         /\ \A i \in 1..Len(work) :
              /\ work'[i].fn = work[i].fn
              /\ i # Len(work) => work'[i] = work[i]
              /\ i = Len(work) => /\ work'[i].todo = work[i].todo \ {f}
                                  /\ work'[i].selfCall = (work[i].selfCall \/ f = work[i].fn)
<1>0. work \in Seq(Frames) /\ Len(work) \in Nat /\ DOMAIN work = 1..Len(work)
      /\ \A i \in 1..Len(work) : work[i] \in Frames
  BY OnTheStacks DEF SearchInv, SearchTypes
<1>1. /\ outer \in Seq(Frames) /\ Len(outer) = Len(work)
      /\ \A i \in 1..Len(work) :
           /\ outer[i].fn = work[i].fn
           /\ i # Len(work) => outer[i] = work[i]
           /\ i = Len(work) => /\ outer[i].todo = work[i].todo \ {f}
                               /\ outer[i].selfCall = (work[i].selfCall \/ f = work[i].fn)
  <2>1. CASE work = <<>> /\ outer = <<>>
    BY <2>1
  <2>2. CASE work # <<>> /\ f \in Inner.todo /\ outer = Stepped(f)
    BY <2>2, SteppedStack
  <2> QED
    BY <2>1, <2>2 DEF NumberedAfter
<1> DEFINE new == [fn |-> f, todo |-> Callees(graph, f), selfCall |-> FALSE]
<1>2. f \in Funcs /\ new \in Frames
  BY CalleesAreFuncs DEF NumberedAfter, SearchInv, SearchTypes, Frames
<1>3. work' = Append(outer, new)
  BY DEF NumberedAfter, Number
<1> HIDE DEF new
<1>4. /\ work' \in Seq(Frames) /\ Len(work') = Len(outer) + 1
      /\ work'[Len(outer) + 1] = new
      /\ \A i \in 1..Len(outer) : work'[i] = outer[i]
  BY <1>1, <1>2, <1>3
<1> QED
  BY <1>0, <1>1, <1>4 DEF new

(* Giving a function its number keeps the invariant.                       *)
LEMMA NumberKeeps ==
  ASSUME SearchInv, NEW f, NEW outer, NumberedAfter(f, outer)
  PROVE  SearchInv'
<1> DEFINE R == {h \in Funcs : Reached(h)}
<1>0. \E L, next : L = Len(work) /\ next = Cardinality(R)
  OBVIOUS
<1> PICK L, next : L = Len(work) /\ next = Cardinality(R)
  BY <1>0
<1>1. /\ SearchTypes /\ InOrder /\ ClosedSound /\ CallsHandled /\ OpenReaches /\ LowSound
      /\ graph \in CallGraphs
  BY DEF SearchInv, SearchTypes
<1>2. /\ f \in Funcs /\ ~Reached(f) /\ graph' = graph /\ found' = found
      /\ index' = [index EXCEPT ![f] = next]
      /\ low' = [low EXCEPT ![f] = next]
      /\ open' = Append(open, f)
  BY DEF NumberedAfter, Number
<1>3. /\ L \in Nat /\ DOMAIN work = 1..L
      /\ \A i \in 1..L : /\ work[i] \in Frames /\ work[i].fn \in Opened
                         /\ work[i].fn \in Funcs /\ work[i].todo \subseteq Funcs
                         /\ index[work[i].fn] \in Nat
      /\ Len(open) \in Nat /\ DOMAIN open = 1..Len(open)
      /\ \A i \in 1..Len(open) : open[i] \in Opened
      /\ \A x \in Opened : x \in Funcs /\ Reached(x) /\ index[x] \in Nat
                              /\ \E i \in 1..Len(open) : open[i] = x
  BY <1>1, OnTheStacks
<1>4. /\ Len(work') = L + 1
      /\ work' \in Seq(Frames)
      /\ work'[L + 1] = [fn |-> f, todo |-> Callees(graph, f), selfCall |-> FALSE]
      /\ \A i \in 1..L :
           /\ work'[i].fn = work[i].fn
           /\ i # L => work'[i] = work[i]
           /\ i = L => /\ work'[i].todo = work[i].todo \ {f}
                       /\ work'[i].selfCall = (work[i].selfCall \/ f = work[i].fn)
  BY StackAfterNumber
<1>5. DOMAIN work' = 1..(L + 1)
  BY <1>3, <1>4
<1>6. /\ IsFiniteSet(R) /\ next \in Nat /\ f \notin R /\ f \notin Opened
      /\ \A x \in R : index[x] \in Nat /\ index[x] < next
  <2>1. IsFiniteSet(R)
    BY FuncsAssumption, FS_Subset
  <2>2. \A x \in R : index[x] \in Nat /\ index[x] < next
    BY <1>1 DEF InOrder, SearchTypes, Reached
  <2> QED
    BY <1>2, <1>3, <2>1, <2>2, FS_CardinalityType
<1>7. /\ \A x \in Funcs : x # f => index'[x] = index[x] /\ low'[x] = low[x]
      /\ index'[f] = next /\ low'[f] = next
      /\ \A x \in Opened : x # f /\ x \in R
  BY <1>1, <1>2, <1>3, <1>6 DEF SearchTypes
<1>8. {h \in Funcs : Reached(h)'} = R \cup {f}
  <2>1. ASSUME NEW h \in Funcs PROVE Reached(h)' <=> Reached(h) \/ h = f
    <3>1. CASE h = f
      <4>1. index'[h] # Unnumbered
        BY <1>6, <1>7, <3>1 DEF Unnumbered
      <4> QED
        BY <3>1, <4>1 DEF Reached
    <3>2. CASE h # f
      BY <1>7, <3>2 DEF Reached
    <3> QED
      BY <3>1, <3>2
  <2> QED
    BY <1>2, <2>1
<1>9. Cardinality(R \cup {f}) = next + 1
  BY <1>6, FS_AddElement
<1>10. Opened' = Opened \cup {f}
  <2>1. Len(open') = Len(open) + 1 /\ open'[Len(open) + 1] = f /\ open' \in Seq(Funcs)
        /\ \A i \in 1..Len(open) : open'[i] = open[i]
    BY <1>1, <1>2 DEF SearchTypes
  <2>2. DOMAIN open' = 1..(Len(open) + 1)
    BY <1>3, <2>1
  <2> QED
    <3>1. Opened' = {open'[i] : i \in 1..(Len(open) + 1)}
      BY <2>2 DEF Opened
    <3>2. \A i \in 1..(Len(open) + 1) : open'[i] \in Opened \cup {f}
      BY <1>3, <2>1
    <3>3. \A x \in Opened : \E i \in 1..(Len(open) + 1) : open'[i] = x
      BY <1>3, <2>1
    <3>4. Len(open) + 1 \in 1..(Len(open) + 1)
      BY <1>3
    <3> QED
      BY <2>1, <3>1, <3>2, <3>3, <3>4
<1>11. \A x, y : To(x, y)' = To(x, y)
  BY <1>2 DEF To
<1>12. \A x \in Funcs : Callees(graph, x) \subseteq Funcs
  BY <1>1, CalleesAreFuncs
(* The only call newly handled is that of f.                               *)
<1>13. /\ Handled(f)' = {}
       /\ \A x \in Opened :
            Handled(x)' = Handled(x) \cup (IF L > 0 /\ x = work[L].fn THEN {f} ELSE {})
  <2>1. Handled(f)' = {}
    BY <1>2, <1>3, <1>4, <1>5 DEF Handled
  <2>2. ASSUME NEW x \in Opened
        PROVE  Handled(x)' = Handled(x) \cup (IF L > 0 /\ x = work[L].fn THEN {f} ELSE {})
    <3>1. x # f
      BY <1>6
    <3>2. ASSUME L > 0 PROVE L \in 1..L /\ f \in work[L].todo /\ f \in Callees(graph, work[L].fn)
      <4>1. L \in 1..L /\ work # <<>>
        BY <1>3, <3>2
      <4>2. f \in work[L].todo
        BY <4>1 DEF NumberedAfter, Inner
      <4> QED
        BY <1>1, <1>3, <4>1, <4>2 DEF CallsHandled
    <3>3. ASSUME NEW y
          PROVE  (\A i \in 1..(L + 1) : work'[i].fn = x => y \notin work'[i].todo)
                 <=> (\A i \in 1..L : work[i].fn = x => y \notin work'[i].todo)
      <4>1. \A i \in 1..(L + 1) : i \in 1..L \/ i = L + 1
        BY <1>3
      <4>2. \A i \in 1..L : i \in 1..(L + 1)
        BY <1>3
      <4>3. work'[L + 1].fn = f /\ \A i \in 1..L : work'[i].fn = work[i].fn
        BY <1>4
      <4> QED
        BY <3>1, <4>1, <4>2, <4>3
    <3>4. \A y : Handled(x)' = {z \in Callees(graph, x) :
                                  \A i \in 1..L : work[i].fn = x => z \notin work'[i].todo}
      BY <1>2, <1>5, <3>3 DEF Handled
    <3>5. CASE L > 0 /\ x = work[L].fn
      <4>1. \A i \in 1..L : work[i].fn = x => i = L
        BY <1>1, <1>3, <3>2, <3>5 DEF InOrder
      <4>2. Handled(x) = {z \in Callees(graph, x) : z \notin work[L].todo}
        BY <1>3, <3>2, <3>5, <4>1 DEF Handled
      <4>3. Handled(x)' = {z \in Callees(graph, x) : z \notin work'[L].todo}
        BY <3>2, <3>4, <3>5, <4>1
      <4> QED
        BY <1>4, <3>2, <3>5, <4>2, <4>3
    <3>6. CASE ~(L > 0 /\ x = work[L].fn)
      <4>1. \A i \in 1..L : work[i].fn = x => work'[i].todo = work[i].todo
        BY <1>3, <1>4, <3>6
      <4> QED
        BY <1>3, <3>4, <3>6, <4>1 DEF Handled
    <3> QED
      BY <3>5, <3>6
  <2> QED
    BY <2>1, <2>2
<1>14. SearchTypes'
  <2>1. index' \in [Funcs -> Nat \cup {Unnumbered}] /\ low' \in [Funcs -> Nat \cup {Unnumbered}]
    BY <1>1, <1>2, <1>6 DEF SearchTypes
  <2>2. open' \in Seq(Funcs)
    BY <1>1, <1>2 DEF SearchTypes
  <2> QED
    BY <1>1, <1>2, <1>4, <2>1, <2>2 DEF SearchTypes
<1>15. InOrder'
  <2>1. \A x \in Funcs : Reached(x)' => index'[x] < next + 1
    BY <1>6, <1>7, <1>8
  <2>2. \A x, h \in Funcs : Reached(x)' /\ index'[x] = index'[h] => x = h
    <3> SUFFICES ASSUME NEW x \in Funcs, NEW h \in Funcs, Reached(x)', index'[x] = index'[h]
                 PROVE  x = h
      OBVIOUS
    <3>1. Reached(h)'
      BY DEF Reached
    <3>2. x \in R \cup {f} /\ h \in R \cup {f}
      BY <1>8, <3>1
    <3>3. CASE x = f \/ h = f
      BY <1>6, <1>7, <3>2, <3>3
    <3>4. CASE x # f /\ h # f
      BY <1>1, <1>7, <3>2, <3>4 DEF InOrder
    <3> QED
      BY <3>3, <3>4
  <2>3. \A x \in Opened' : Reached(x)'
    BY <1>7, <1>8, <1>10
  <2>4. \A i, j \in DOMAIN open' : i < j => index'[open'[i]] < index'[open'[j]]
    <3>1. Len(open') = Len(open) + 1 /\ open'[Len(open) + 1] = f /\ open' \in Seq(Funcs)
          /\ \A i \in 1..Len(open) : open'[i] = open[i]
      BY <1>1, <1>2 DEF SearchTypes
    <3>2. DOMAIN open' = 1..(Len(open) + 1)
      BY <1>3, <3>1
    <3>3. \A i \in 1..Len(open) : index'[open'[i]] = index[open[i]] /\ index[open[i]] < next
      BY <1>3, <1>6, <1>7, <3>1
    <3>4. \A i, j \in 1..Len(open) : i < j => index[open[i]] < index[open[j]]
      BY <1>1, <1>3 DEF InOrder
    <3>5. ASSUME NEW i \in 1..(Len(open) + 1), NEW j \in 1..(Len(open) + 1), i < j
          PROVE  index'[open'[i]] < index'[open'[j]]
      <4>1. i \in 1..Len(open)
        BY <1>3, <3>5
      <4>2. CASE j = Len(open) + 1
        BY <1>7, <3>1, <3>3, <4>1, <4>2
      <4>3. CASE j # Len(open) + 1
        <5>1. j \in 1..Len(open)
          BY <1>3, <4>3
        <5> QED
          BY <3>3, <3>4, <3>5, <4>1, <5>1
      <4> QED
        BY <4>2, <4>3
    <3> QED
      BY <3>2, <3>5
  <2>5. \A i, j \in DOMAIN work' : i < j => index'[work'[i].fn] < index'[work'[j].fn]
    <3>1. \A i \in 1..L : index'[work'[i].fn] = index[work[i].fn] /\ index[work[i].fn] < next
      BY <1>3, <1>4, <1>6, <1>7
    <3>2. \A i, j \in 1..L : i < j => index[work[i].fn] < index[work[j].fn]
      BY <1>1, <1>3 DEF InOrder
    <3>3. index'[work'[L + 1].fn] = next
      BY <1>4, <1>7
    <3> QED
      BY <1>3, <1>5, <3>1, <3>2, <3>3
  <2>6. Within' \subseteq Opened'
    <3>1. \A i \in 1..(L + 1) : work'[i].fn \in Opened \cup {f}
      BY <1>3, <1>4
    <3> QED
      BY <1>5, <1>10, <3>1 DEF Within
  <2> QED
    BY <1>8, <1>9, <2>1, <2>2, <2>3, <2>4, <2>5, <2>6 DEF InOrder
<1>16. ClosedSound'
  <2>1. Closed' = Closed
    BY <1>6, <1>7, <1>8, <1>10 DEF Closed
  <2>2. \A x : IsRecursive(graph, x)' = IsRecursive(graph, x)
               /\ Component(graph, x)' = Component(graph, x)
    BY <1>2 DEF IsRecursive, Component
  <2> QED
    BY <1>1, <1>2, <2>1, <2>2 DEF ClosedSound
<1>17. CallsHandled'
  <2>1. \A x \in Opened' : \A y \in Handled(x)' : Reached(y)'
    <3> SUFFICES ASSUME NEW x \in Opened, NEW y \in Handled(x)' PROVE Reached(y)'
      BY <1>10, <1>13
    <3>1. y \in Handled(x) \/ y = f
      BY <1>13
    <3>2. y \in Funcs
      BY <1>2, <1>3, <1>12, <3>1 DEF Handled
    <3>3. y \in R \cup {f}
      BY <1>1, <3>1, <3>2 DEF CallsHandled
    <3> QED
      BY <1>8, <3>3
  <2>2. ASSUME NEW i \in 1..(L + 1), NEW w, w = work'[i].fn
        PROVE  /\ work'[i].todo \subseteq Callees(graph, w)
               /\ work'[i].selfCall <=> w \in Handled(w)'
    <3>1. CASE i = L + 1
      <4>1. w = f /\ work'[i].todo = Callees(graph, f) /\ work'[i].selfCall = FALSE
        BY <1>4, <2>2, <3>1
      <4> QED
        BY <1>13, <4>1
    <3>2. CASE i \in 1..L /\ i # L
      <4>1. w = work[i].fn /\ work'[i] = work[i] /\ w \in Opened /\ ~(w = work[L].fn)
        <5>1. w = work[i].fn /\ work'[i] = work[i] /\ w \in Opened
          BY <1>3, <1>4, <2>2, <3>2
        <5>2. L \in 1..L /\ i < L
          BY <1>3, <3>2
        <5>3. index[work[i].fn] < index[work[L].fn] /\ index[work[i].fn] \in Nat
          BY <1>1, <1>3, <3>2, <5>2 DEF InOrder
        <5> QED
          BY <5>1, <5>3
      <4>2. Handled(w)' = Handled(w)
        BY <1>13, <4>1
      <4>3. work[i].todo \subseteq Callees(graph, w) /\ (work[i].selfCall <=> w \in Handled(w))
        BY <1>1, <1>3, <3>2, <4>1 DEF CallsHandled
      <4> QED
        BY <4>1, <4>2, <4>3
    <3>3. CASE i \in 1..L /\ i = L
      <4>1. /\ w = work[L].fn /\ work'[L].todo = work[L].todo \ {f}
            /\ work'[L].selfCall = (work[L].selfCall \/ f = w)
            /\ w \in Opened /\ f # w
        BY <1>3, <1>4, <1>6, <2>2, <3>3
      <4>2. work[L].todo \subseteq Callees(graph, w) /\ (work[L].selfCall <=> w \in Handled(w))
        BY <1>1, <1>3, <3>3, <4>1 DEF CallsHandled
      <4>3. w \in Handled(w)' <=> w \in Handled(w)
        BY <1>13, <4>1
      <4>4. work'[L].selfCall <=> work[L].selfCall
        BY <1>3, <3>3, <4>1 DEF Frames
      <4> QED
        BY <3>3, <4>1, <4>2, <4>3, <4>4
    <3> QED
      BY <1>3, <3>1, <3>2, <3>3
  <2>3. ASSUME NEW i \in DOMAIN work'
        PROVE  /\ work'[i].todo \subseteq Callees(graph', work'[i].fn)
               /\ work'[i].selfCall <=> (work[i].fn \in Handled(work[i].fn))'
    <3>1. PICK w : w = work'[i].fn
      OBVIOUS
    <3>2. Handled(w)' = (Handled(work[i].fn))'
      BY <3>1 DEF Handled
    <3> QED
      BY <1>2, <1>5, <2>2, <3>1, <3>2
  <2> QED
    BY <2>1, <2>3 DEF CallsHandled
(* The new function is carried by nobody but itself.                       *)
<1>18. /\ \A x \in Opened, i \in 1..L : Carries(i, x)' <=> Carries(i, x)
       /\ \A x \in Opened : ~Carries(L + 1, x)'
       /\ \A i \in 1..L : ~Carries(i, f)'
       /\ Carries(L + 1, f)'
  <2>1. \A i \in 1..L : index'[work'[i].fn] = index[work[i].fn] /\ index[work[i].fn] < next
    BY <1>3, <1>4, <1>6, <1>7
  <2>2. index'[work'[L + 1].fn] = next
    BY <1>4, <1>7
  <2>3. \A x \in Opened : index'[x] = index[x] /\ index[x] \in Nat /\ index[x] < next
    BY <1>3, <1>6, <1>7
  <2>4. ASSUME NEW x \in Opened, NEW i \in 1..L PROVE Carries(i, x)' <=> Carries(i, x)
    <3>1. CASE i = L
      <4>1. i + 1 \in DOMAIN work' /\ i + 1 \notin DOMAIN work /\ index'[work'[i + 1].fn] = next
        BY <1>3, <1>5, <2>2, <3>1
      <4> QED
        BY <1>3, <2>1, <2>3, <4>1 DEF Carries
    <3>2. CASE i # L
      <4>1. i + 1 \in DOMAIN work' /\ i + 1 \in DOMAIN work /\ i + 1 \in 1..L
        BY <1>3, <1>5, <3>2
      <4> QED
        BY <1>3, <2>1, <2>3, <4>1 DEF Carries
    <3> QED
      BY <3>1, <3>2
  <2>5. \A x \in Opened : ~Carries(L + 1, x)'
    <3> SUFFICES ASSUME NEW x \in Opened PROVE ~Carries(L + 1, x)'
      OBVIOUS
    <3>1. ~(next <= index[x]) /\ index'[x] = index[x]
      BY <1>6, <2>3
    <3> QED
      BY <2>2, <3>1 DEF Carries
  <2>6. ASSUME NEW i \in 1..L PROVE ~Carries(i, f)'
    <3>1. i + 1 \in DOMAIN work' /\ index'[work'[i + 1].fn] <= next
      <4>1. i + 1 \in 1..L \/ i + 1 = L + 1
        BY <1>3
      <4> QED
        BY <1>3, <1>5, <1>6, <2>1, <2>2, <4>1
    <3>2. index'[work'[i + 1].fn] \in Nat
      <4>1. i + 1 \in 1..L \/ i + 1 = L + 1
        BY <1>3
      <4> QED
        BY <1>3, <1>6, <2>1, <2>2, <4>1
    <3> QED
      BY <1>6, <1>7, <3>1, <3>2 DEF Carries
  <2>7. Carries(L + 1, f)'
    BY <1>3, <1>5, <1>6, <1>7, <2>2 DEF Carries
  <2> QED
    BY <2>4, <2>5, <2>6, <2>7
(* The function on top calls it, so those below reach it.                  *)
<1>19. \A i \in 1..L : To(work[i].fn, f)
  <2> SUFFICES ASSUME NEW i \in 1..L PROVE To(work[i].fn, f)
    OBVIOUS
  <2>1. L \in 1..L /\ work # <<>>
    BY <1>3
  <2>2. f \in Callees(graph, work[L].fn)
    <3>1. f \in work[L].todo
      BY <2>1 DEF NumberedAfter, Inner
    <3> QED
      BY <1>1, <1>3, <2>1, <3>1 DEF CallsHandled
  <2>3. To(work[L].fn, f)
    BY <1>1, <1>3, <2>1, <2>2, Reaches
  <2>4. To(work[i].fn, work[L].fn)
    <3>1. index[work[i].fn] <= index[work[L].fn]
      <4>1. i < L => index[work[i].fn] < index[work[L].fn]
        BY <1>1, <1>3, <2>1 DEF InOrder
      <4>2. i = L \/ i < L
        BY <1>3
      <4> QED
        BY <1>3, <2>1, <4>1, <4>2
    <3> QED
      BY <1>1, <1>3, <2>1, <3>1 DEF OpenReaches
  <2> QED
    BY <1>1, <1>2, <1>3, <2>1, <2>3, <2>4, Reaches
<1>20. OpenReaches'
  <2>1. ASSUME NEW i \in 1..(L + 1), NEW x \in Opened \cup {f}, index'[work'[i].fn] <= index'[x]
        PROVE  To(work'[i].fn, x)
    <3>1. CASE x = f /\ i = L + 1
      BY <1>4, <3>1 DEF To
    <3>2. CASE x = f /\ i \in 1..L
      BY <1>4, <1>19, <3>2
    <3>3. CASE x \in Opened /\ i = L + 1
      <4>1. work'[i].fn = f
        BY <1>4, <3>3
      <4>2. x \in Funcs /\ x # f /\ x \in R
        BY <1>3, <1>7, <3>3
      <4>3. index'[work'[i].fn] = next /\ index'[x] = index[x]
        BY <1>7, <4>1, <4>2
      <4>4. index[x] \in Nat /\ index[x] < next
        BY <1>6, <4>2
      <4> QED
        BY <1>6, <2>1, <4>3, <4>4
    <3>4. CASE x \in Opened /\ i \in 1..L
      <4>1. index[work[i].fn] <= index[x] /\ work'[i].fn = work[i].fn
        BY <1>3, <1>4, <1>7, <2>1, <3>4
      <4> QED
        BY <1>1, <1>3, <3>4, <4>1 DEF OpenReaches
    <3> QED
      BY <1>3, <3>1, <3>2, <3>3, <3>4
  <2>2. ASSUME NEW x \in Opened \cup {f}
        PROVE  \E i \in 1..(L + 1) : Carries(i, x)' /\ To(x, work'[i].fn)
    <3>1. CASE x = f
      <4>1. To(f, work'[L + 1].fn) /\ L + 1 \in 1..(L + 1)
        BY <1>3, <1>4 DEF To
      <4> QED
        BY <1>18, <3>1, <4>1
    <3>2. CASE x \in Opened
      <4>1. PICK i \in 1..L : Carries(i, x) /\ To(x, work[i].fn)
        BY <1>1, <1>3, <3>2 DEF OpenReaches
      <4>2. i \in 1..(L + 1) /\ To(x, work'[i].fn)
        BY <1>3, <1>4, <4>1
      <4> QED
        BY <1>18, <3>2, <4>1, <4>2
    <3> QED
      BY <3>1, <3>2
  <2> QED
    BY <1>5, <1>10, <1>11, <2>1, <2>2 DEF OpenReaches
<1>21. LowSound'
  <2>1. ASSUME NEW i \in 1..L
        PROVE  /\ low'[work'[i].fn] <= index'[work'[i].fn]
               /\ \E z \in Opened \cup {f} : index'[z] = low'[work'[i].fn] /\ To(work'[i].fn, z)
               /\ \A x \in Opened \cup {f} : Carries(i, x)' =>
                    \A y \in Handled(x)' \cap (Opened \cup {f}) : low'[work'[i].fn] <= index'[y]
    <3>1. /\ work'[i].fn = work[i].fn /\ low'[work[i].fn] = low[work[i].fn]
          /\ index'[work[i].fn] = index[work[i].fn] /\ index[work[i].fn] \in Nat
          /\ index[work[i].fn] < next
      BY <1>3, <1>4, <1>6, <1>7
    <3>2. /\ low[work[i].fn] <= index[work[i].fn]
          /\ \E z \in Opened : index[z] = low[work[i].fn] /\ To(work[i].fn, z)
          /\ \A x \in Opened : Carries(i, x) =>
               \A y \in Handled(x) \cap Opened : low[work[i].fn] <= index[y]
      BY <1>1, <1>3 DEF LowSound
    <3>3. \E z \in Opened \cup {f} : index'[z] = low'[work'[i].fn] /\ To(work'[i].fn, z)
      BY <1>7, <1>3, <3>1, <3>2
    <3>4. low[work[i].fn] \in Nat
      BY <1>3, <3>2
    <3>5. ASSUME NEW x \in Opened \cup {f}, Carries(i, x)', NEW y \in Handled(x)', y \in Opened \cup {f}
          PROVE  low'[work'[i].fn] <= index'[y]
      <4>1. x \in Opened /\ Carries(i, x)
        BY <1>18, <3>5
      <4>2. CASE y = f
        BY <1>6, <1>7, <3>1, <3>2, <3>4, <4>2
      <4>3. CASE y # f
        <5>1. y \in Handled(x) /\ y \in Opened /\ index'[y] = index[y]
          BY <1>3, <1>7, <1>13, <3>5, <4>1, <4>3
        <5> QED
          BY <3>1, <3>2, <4>1, <5>1
      <4> QED
        BY <4>2, <4>3
    <3> QED
      BY <3>1, <3>2, <3>3, <3>5
  <2>2. /\ low'[work'[L + 1].fn] <= index'[work'[L + 1].fn]
        /\ \E z \in Opened \cup {f} : index'[z] = low'[work'[L + 1].fn] /\ To(work'[L + 1].fn, z)
        /\ \A x \in Opened \cup {f} : Carries(L + 1, x)' =>
             \A y \in Handled(x)' \cap (Opened \cup {f}) : low'[work'[L + 1].fn] <= index'[y]
    <3>1. work'[L + 1].fn = f /\ To(f, f) /\ low'[f] <= index'[f]
      BY <1>4, <1>6, <1>7 DEF To
    <3>2. \A x \in Opened \cup {f} : Carries(L + 1, x)' => Handled(x)' = {}
      BY <1>13, <1>18
    <3> QED
      BY <1>7, <3>1, <3>2
  <2>3. ASSUME NEW i \in 1..(L + 1)
        PROVE  /\ low'[work'[i].fn] <= index'[work'[i].fn]
               /\ \E z \in Opened' : index'[z] = low'[work'[i].fn] /\ (To(work[i].fn, z))'
               /\ \A x \in Opened' : Carries(i, x)' =>
                    \A y \in Handled(x)' \cap Opened' : low'[work'[i].fn] <= index'[y]
    <3>1. i \in 1..L \/ i = L + 1
      BY <1>3
    <3>2. /\ low'[work'[i].fn] <= index'[work'[i].fn]
          /\ \E z \in Opened \cup {f} : index'[z] = low'[work'[i].fn] /\ To(work'[i].fn, z)
          /\ \A x \in Opened \cup {f} : Carries(i, x)' =>
               \A y \in Handled(x)' \cap (Opened \cup {f}) : low'[work'[i].fn] <= index'[y]
      BY <2>1, <2>2, <3>1
    <3>3. PICK w : w = work'[i].fn
      OBVIOUS
    <3>4. \A z : To(w, z)' <=> To(w, z)
      BY <1>11
    <3>5. \A z : (To(work[i].fn, z))' <=> To(w, z)
      BY <3>3, <3>4 DEF To
    <3> QED
      BY <1>10, <3>2, <3>3, <3>5
  <2> QED
    BY <1>5, <2>3 DEF LowSound
<1> QED
  BY <1>14, <1>15, <1>16, <1>17, <1>20, <1>21 DEF SearchInv

(* Looking at a function reached before keeps the invariant.               *)
LEMMA SeenKeeps ==
  ASSUME SearchInv, work # <<>>, NEW callee \in Inner.todo, SeenCallee(callee), graph' = graph
  PROVE  SearchInv'
<1>0. \E L, f : L = Len(work) /\ f = Inner.fn
  OBVIOUS
<1> PICK L, f : L = Len(work) /\ f = Inner.fn
  BY <1>0
<1>1. /\ SearchTypes /\ InOrder /\ ClosedSound /\ CallsHandled /\ OpenReaches /\ LowSound
      /\ graph \in CallGraphs
  BY DEF SearchInv, SearchTypes
<1>2. /\ Reached(callee) /\ index' = index /\ open' = open /\ found' = found
      /\ low' = IF callee # f /\ callee \in Opened
                THEN [low EXCEPT ![f] = Lower(@, index[callee])] ELSE low
      /\ work' = Stepped(callee)
  BY DEF SeenCallee, Opened
<1>3. /\ L \in Nat /\ DOMAIN work = 1..L
      /\ \A i \in 1..L : /\ work[i] \in Frames /\ work[i].fn \in Opened
                         /\ work[i].fn \in Funcs /\ work[i].todo \subseteq Funcs
                         /\ index[work[i].fn] \in Nat
      /\ \A x \in Opened : x \in Funcs /\ Reached(x) /\ index[x] \in Nat
  BY <1>1, OnTheStacks
<1>4. /\ work' \in Seq(Frames) /\ Len(work') = L
      /\ \A i \in 1..L :
           /\ work'[i].fn = work[i].fn
           /\ i # L => work'[i] = work[i]
           /\ i = L => /\ work'[i].todo = work[i].todo \ {callee}
                       /\ work'[i].selfCall = (work[i].selfCall \/ callee = work[i].fn)
  BY <1>2, SteppedStack
<1>5. /\ L \in 1..L /\ f = work[L].fn /\ DOMAIN work' = 1..L /\ callee \in work[L].todo
      /\ callee \in Callees(graph, f) /\ callee \in Funcs /\ f \in Opened /\ f \in Funcs
      /\ To(f, callee)
  <2>1. L \in 1..L /\ f = work[L].fn /\ DOMAIN work' = 1..L /\ callee \in work[L].todo
    BY <1>3, <1>4 DEF Inner
  <2> QED
    BY <1>1, <1>3, <2>1, Reaches DEF CallsHandled
<1>6. Opened' = Opened /\ Closed' = Closed /\ \A x : Reached(x)' = Reached(x)
  BY <1>2 DEF Opened, Closed, Reached
<1>7. \A x, y : To(x, y)' = To(x, y)
  BY DEF To
<1>8. \A i \in 1..L : \A x : Carries(i, x)' <=> Carries(i, x)
  <2> SUFFICES ASSUME NEW i \in 1..L, NEW x PROVE Carries(i, x)' <=> Carries(i, x)
    OBVIOUS
  <2>1. i + 1 \in DOMAIN work => i + 1 \in 1..L
    BY <1>3
  <2> QED
    BY <1>2, <1>3, <1>4, <1>5, <2>1 DEF Carries
<1>9. \A x : Handled(x)' = Handled(x) \cup (IF x = f THEN {callee} ELSE {})
  <2> SUFFICES ASSUME NEW x
               PROVE  Handled(x)' = Handled(x) \cup (IF x = f THEN {callee} ELSE {})
    OBVIOUS
  <2>1. Handled(x)' = {y \in Callees(graph, x) :
                         \A i \in 1..L : work[i].fn = x => y \notin work'[i].todo}
    BY <1>4, <1>5 DEF Handled
  <2>2. Handled(x) = {y \in Callees(graph, x) :
                         \A i \in 1..L : work[i].fn = x => y \notin work[i].todo}
    BY <1>3 DEF Handled
  <2>3. CASE x = f
    <3>1. \A i \in 1..L : work[i].fn = x => i = L
      BY <1>1, <1>3, <1>5, <2>3 DEF InOrder
    <3> QED
      BY <1>4, <1>5, <2>1, <2>2, <2>3, <3>1
  <2>4. CASE x # f
    <3>1. \A i \in 1..L : work[i].fn = x => work'[i].todo = work[i].todo
      BY <1>4, <1>5, <2>4
    <3> QED
      BY <2>1, <2>2, <2>4, <3>1
  <2> QED
    BY <2>3, <2>4
(* The low number of the function on top may fall, to what it has reached. *)
<1>10. /\ low' \in [Funcs -> Nat \cup {Unnumbered}]
       /\ \A x \in Funcs : x # f => low'[x] = low[x]
       /\ low[f] \in Nat /\ low'[f] \in Nat /\ low'[f] <= low[f]
       /\ callee \in Opened => low'[f] <= index[callee]
       /\ low'[f] # low[f] => callee \in Opened /\ low'[f] = index[callee]
  <2>1. low[f] \in Nat /\ low[f] <= index[f]
    BY <1>1, <1>3, <1>5 DEF LowSound
  <2>2. low \in [Funcs -> Nat \cup {Unnumbered}]
    BY <1>1 DEF SearchTypes
  <2>3. CASE callee # f /\ callee \in Opened
    <3>1. index[callee] \in Nat /\ Lower(low[f], index[callee]) \in Nat
      BY <1>3, <2>1, <2>3 DEF Lower
    <3>2. low' = [low EXCEPT ![f] = Lower(low[f], index[callee])]
      BY <1>2, <2>3
    <3>3. low'[f] = Lower(low[f], index[callee]) /\ low' \in [Funcs -> Nat \cup {Unnumbered}]
          /\ \A x \in Funcs : x # f => low'[x] = low[x]
      BY <1>5, <2>2, <3>1, <3>2
    <3> QED
      BY <2>1, <2>3, <3>1, <3>3 DEF Lower
  <2>4. CASE ~(callee # f /\ callee \in Opened)
    BY <1>2, <1>3, <1>5, <2>1, <2>2, <2>4
  <2> QED
    BY <2>3, <2>4
<1>11. SearchTypes'
  BY <1>1, <1>2, <1>4, <1>10 DEF SearchTypes
<1>12. InOrder'
  <2>1. Within' = Within
    BY <1>3, <1>4, <1>5 DEF Within
  <2>2. {h \in Funcs : Reached(h)}' = {h \in Funcs : Reached(h)}
    BY <1>6
  <2>3. \A i, j \in DOMAIN work' : i < j => index[work'[i].fn] < index[work'[j].fn]
    BY <1>1, <1>3, <1>4, <1>5 DEF InOrder
  <2> QED
    BY <1>1, <1>2, <1>6, <2>1, <2>2, <2>3 DEF InOrder
<1>13. ClosedSound'
  BY <1>1, <1>2, <1>6 DEF ClosedSound, IsRecursive, Component
<1>14. CallsHandled'
  <2>1. \A x \in Opened : \A y \in Handled(x)' : Reached(y)
    BY <1>1, <1>2, <1>9 DEF CallsHandled
  <2>2. ASSUME NEW i \in 1..L, NEW w, w = work[i].fn
        PROVE  /\ work'[i].todo \subseteq Callees(graph, w)
               /\ work'[i].selfCall <=> w \in Handled(w)'
    <3>1. work[i].todo \subseteq Callees(graph, w) /\ (work[i].selfCall <=> w \in Handled(w))
      BY <1>1, <1>3, <2>2 DEF CallsHandled
    <3>2. CASE i = L
      <4>1. work'[i].selfCall <=> work[i].selfCall \/ callee = w
        BY <1>3, <1>4, <2>2, <3>2 DEF Frames
      <4> QED
        BY <1>4, <1>5, <1>9, <2>2, <3>1, <3>2, <4>1
    <3>3. CASE i # L
      <4>1. i < L
        BY <1>3, <3>3
      <4>2. index[w] < index[f] /\ index[w] \in Nat
        BY <1>1, <1>3, <1>5, <2>2, <4>1 DEF InOrder
      <4>3. w # f /\ work'[i] = work[i]
        BY <1>4, <3>3, <4>2
      <4> QED
        BY <1>9, <3>1, <4>3
    <3> QED
      BY <3>2, <3>3
  <2>3. ASSUME NEW i \in DOMAIN work'
        PROVE  /\ work'[i].todo \subseteq Callees(graph', work'[i].fn)
               /\ work'[i].selfCall <=> (work[i].fn \in Handled(work[i].fn))'
    <3>1. PICK w : w = work'[i].fn /\ w = work[i].fn
      BY <1>4, <1>5
    <3>2. Handled(w)' = (Handled(work[i].fn))'
      BY <3>1 DEF Handled
    <3> QED
      BY <1>5, <2>2, <3>1, <3>2
  <2> QED
    BY <1>6, <2>1, <2>3 DEF CallsHandled
<1>15. OpenReaches'
  <2>1. \A i \in 1..L : \A x : (To(work[i].fn, x))' <=> To(work[i].fn, x)
    BY <1>4, <1>7 DEF To
  <2>2. \A i \in 1..L : \A x : (To(x, work[i].fn))' <=> To(x, work[i].fn)
    BY <1>4, <1>7 DEF To
  <2> QED
    BY <1>1, <1>2, <1>3, <1>4, <1>5, <1>6, <1>8, <2>1, <2>2 DEF OpenReaches
<1>16. LowSound'
  <2>1. ASSUME NEW i \in 1..L, NEW w, w = work[i].fn
        PROVE  /\ low'[w] <= index[w]
               /\ \E z \in Opened : index[z] = low'[w] /\ To(w, z)
               /\ \A x \in Opened : Carries(i, x) =>
                    \A y \in Handled(x)' \cap Opened : low'[w] <= index[y]
    <3>1. /\ low[w] <= index[w]
          /\ \E z \in Opened : index[z] = low[w] /\ To(w, z)
          /\ \A x \in Opened : Carries(i, x) =>
               \A y \in Handled(x) \cap Opened : low[w] <= index[y]
      BY <1>1, <1>3, <2>1 DEF LowSound
    <3>2. w \in Funcs /\ index[w] \in Nat /\ low[w] \in Nat
      BY <1>3, <2>1, <3>1
    <3>3. low'[w] \in Nat /\ low'[w] <= low[w]
      BY <1>10, <3>2
    <3>4. \E z \in Opened : index[z] = low'[w] /\ To(w, z)
      BY <1>5, <1>10, <3>1, <3>2
    <3>5. ASSUME NEW x \in Opened, Carries(i, x), NEW y \in Handled(x)' \cap Opened
          PROVE  low'[w] <= index[y]
      <4>1. CASE y \in Handled(x)
        <5>1. low[w] <= index[y] /\ index[y] \in Nat
          BY <1>3, <3>1, <3>5, <4>1
        <5> QED
          BY <3>2, <3>3, <5>1
      <4>2. CASE y \notin Handled(x)
        <5>1. x = f /\ y = callee
          BY <1>9, <3>5, <4>2
        <5>2. i = L
          <6>1. CASE i < L
            <7>1. i + 1 \in 1..L /\ i + 1 <= L
              BY <1>3, <6>1
            <7>2. index[work[i + 1].fn] <= index[work[L].fn]
              <8>1. i + 1 < L => index[work[i + 1].fn] < index[work[L].fn]
                BY <1>1, <1>3, <1>5, <7>1 DEF InOrder
              <8> QED
                BY <1>3, <1>5, <7>1, <8>1
            <7>3. index[f] < index[work[i + 1].fn]
              BY <1>3, <3>5, <5>1, <7>1 DEF Carries
            <7> QED
              BY <1>3, <1>5, <7>1, <7>2, <7>3
          <6> QED
            BY <1>3, <6>1
        <5> QED
          BY <1>5, <1>10, <2>1, <3>5, <5>1, <5>2
      <4> QED
        BY <4>1, <4>2
    <3> QED
      BY <1>3, <2>1, <3>1, <3>2, <3>3, <3>4, <3>5
  <2>2. ASSUME NEW i \in 1..L
        PROVE  (/\ low[work[i].fn] <= index[work[i].fn]
                /\ \E z \in Opened : index[z] = low[work[i].fn] /\ To(work[i].fn, z)
                /\ \A x \in Opened : Carries(i, x) =>
                     \A y \in Handled(x) \cap Opened : low[work[i].fn] <= index[y])'
    <3>1. PICK w : w = work'[i].fn /\ w = work[i].fn
      BY <1>4
    <3>2. \A z : (To(work[i].fn, z))' <=> To(w, z)
      BY <1>7, <3>1 DEF To
    <3> QED
      BY <1>2, <1>6, <1>8, <2>1, <3>1, <3>2
  <2> QED
    BY <1>5, <2>2 DEF LowSound
<1> QED
  BY <1>11, <1>12, <1>13, <1>14, <1>15, <1>16 DEF SearchInv

(* What leaving the function on top does to the stack it is on.            *)
Leaving == SearchInv /\ work # <<>> /\ Inner.todo = {} /\ Leave /\ graph' = graph

LEMMA StackAfterLeave ==
  ASSUME Leaving, NEW L, NEW f, L = Len(work), f = Inner.fn
  PROVE  /\ SearchTypes /\ InOrder /\ ClosedSound /\ CallsHandled /\ OpenReaches /\ LowSound
         /\ graph \in CallGraphs
         /\ L \in Nat /\ DOMAIN work = 1..L /\ L \in 1..L
         /\ \A i \in 1..L : /\ work[i] \in Frames /\ work[i].fn \in Opened
                            /\ work[i].fn \in Funcs /\ index[work[i].fn] \in Nat
                            /\ low[work[i].fn] \in Nat
                            /\ i < L => index[work[i].fn] < index[f]
         /\ \A x \in Opened : x \in Funcs /\ Reached(x) /\ index[x] \in Nat
         /\ f = work[L].fn /\ f \in Funcs /\ f \in Opened /\ work[L].todo = {}
         /\ work' \in Seq(Frames) /\ Len(work') = L - 1 /\ DOMAIN work' = 1..(L - 1)
         /\ \A i \in 1..(L - 1) : i \in 1..L /\ i < L /\ work'[i] = work[i]
         /\ index' = index
         /\ \A x \in Funcs : Reached(x)' = Reached(x)
         /\ \A x : Handled(x)' = Handled(x)
         /\ \A x, y : To(x, y)' = To(x, y)
<1>1. /\ SearchTypes /\ InOrder /\ ClosedSound /\ CallsHandled /\ OpenReaches /\ LowSound
      /\ graph \in CallGraphs
  BY DEF Leaving, SearchInv, SearchTypes
<1>2. /\ L \in Nat /\ DOMAIN work = 1..L
      /\ \A i \in 1..L : /\ work[i] \in Frames /\ work[i].fn \in Opened
                         /\ work[i].fn \in Funcs /\ index[work[i].fn] \in Nat
      /\ \A x \in Opened : x \in Funcs /\ Reached(x) /\ index[x] \in Nat
  BY <1>1, OnTheStacks
<1>3. L \in 1..L /\ f = work[L].fn /\ work[L].todo = {}
  BY <1>2 DEF Leaving, Inner
<1>4. \A i \in 1..L : low[work[i].fn] \in Nat /\ (i < L => index[work[i].fn] < index[f])
  <2> SUFFICES ASSUME NEW i \in 1..L
               PROVE  low[work[i].fn] \in Nat /\ (i < L => index[work[i].fn] < index[f])
    OBVIOUS
  <2>1. PICK z \in Opened : index[z] = low[work[i].fn]
    BY <1>1, <1>2 DEF LowSound
  <2>2. i < L => index[work[i].fn] < index[f]
    BY <1>1, <1>2, <1>3 DEF InOrder
  <2> QED
    BY <1>2, <2>1, <2>2
<1>5. /\ work' \in Seq(Frames) /\ Len(work') = L - 1 /\ DOMAIN work' = 1..(L - 1)
      /\ \A i \in 1..(L - 1) : i \in 1..L /\ i < L /\ work'[i] = work[i]
  <2>1. work' = SubSeq(work, 1, L - 1)
    BY DEF Leaving, Leave, InnerDone
  <2>2. work \in Seq(Frames)
    BY <1>1 DEF SearchTypes
  <2>3. work' \in Seq(Frames) /\ Len(work') = L - 1
        /\ \A i \in 1..(L - 1) : i \in 1..L /\ i < L /\ work'[i] = work[i]
    BY <1>2, <1>3, <2>1, <2>2, SubSeqProperties
  <2> QED
    BY <2>3
<1>6. index' = index /\ \A x \in Funcs : Reached(x)' = Reached(x)
  BY DEF Leaving, Leave, Reached
<1>7. ASSUME NEW x PROVE Handled(x)' = Handled(x)
  <2>1. Handled(x)' = {y \in Callees(graph, x) :
                         \A i \in 1..(L - 1) : work[i].fn = x => y \notin work[i].todo}
    BY <1>5 DEF Handled, Leaving
  <2>2. Handled(x) = {y \in Callees(graph, x) :
                         \A i \in 1..L : work[i].fn = x => y \notin work[i].todo}
    BY <1>2 DEF Handled
  <2>3. \A i \in 1..L : i \in 1..(L - 1) \/ i = L
    BY <1>2
  <2> QED
    BY <1>3, <1>5, <2>1, <2>2, <2>3
<1>8. \A x, y : To(x, y)' = To(x, y)
  BY DEF To, Leaving
<1> QED
  BY <1>1, <1>2, <1>3, <1>4, <1>5, <1>6, <1>7, <1>8

(* Whoever called the function carries what it carried.                    *)
LEMMA CarriedAfterLeave ==
  ASSUME Leaving, NEW L, NEW f, L = Len(work), f = Inner.fn
  PROVE  /\ \A i \in 1..(L - 1) : i # L - 1 => \A x \in Opened : Carries(i, x)' <=> Carries(i, x)
         /\ L > 1 => \A x \in Opened : Carries(L - 1, x)' <=> Carries(L - 1, x) \/ Carries(L, x)
         /\ \A x \in Opened : Carries(L, x) <=> index[f] <= index[x]
         /\ \A i \in 1..(L - 1), x \in Opened : Carries(i, x) => index[x] < index[f]
         /\ low' \in [Funcs -> Nat \cup {Unnumbered}]
         /\ \A i \in 1..(L - 1) : i # L - 1 => low'[work[i].fn] = low[work[i].fn]
         /\ L > 1 => low'[work[L - 1].fn] = Lower(low[work[L - 1].fn], low[f])
<1>1. /\ SearchTypes /\ InOrder
      /\ L \in Nat /\ DOMAIN work = 1..L /\ L \in 1..L
      /\ \A i \in 1..L : /\ work[i] \in Frames /\ work[i].fn \in Opened
                         /\ work[i].fn \in Funcs /\ index[work[i].fn] \in Nat
                         /\ low[work[i].fn] \in Nat
                         /\ i < L => index[work[i].fn] < index[f]
      /\ \A x \in Opened : x \in Funcs /\ Reached(x) /\ index[x] \in Nat
      /\ f = work[L].fn /\ f \in Funcs /\ f \in Opened
      /\ work' \in Seq(Frames) /\ Len(work') = L - 1 /\ DOMAIN work' = 1..(L - 1)
      /\ \A i \in 1..(L - 1) : i \in 1..L /\ i < L /\ work'[i] = work[i]
      /\ index' = index
  BY StackAfterLeave
<1>2. ASSUME NEW i \in 1..(L - 1), i # L - 1, NEW x \in Opened
      PROVE  Carries(i, x)' <=> Carries(i, x)
  <2>1. i + 1 \in 1..(L - 1) /\ i + 1 \in 1..L
    BY <1>1, <1>2
  <2> QED
    BY <1>1, <2>1 DEF Carries
<1>3. \A x \in Opened : Carries(L, x) <=> index[f] <= index[x]
  <2>1. L + 1 \notin 1..L
    BY <1>1
  <2> QED
    BY <1>1, <2>1 DEF Carries
<1>4. ASSUME L > 1, NEW x \in Opened
      PROVE  Carries(L - 1, x)' <=> Carries(L - 1, x) \/ Carries(L, x)
  <2>1. L - 1 \in 1..(L - 1) /\ (L - 1) + 1 = L /\ L \notin 1..(L - 1)
    BY <1>1, <1>4
  <2>2. Carries(L - 1, x)' <=> index[work[L - 1].fn] <= index[x]
    <3>1. (Carries(L - 1, x))' <=> index'[work'[L - 1].fn] <= index'[x]
      BY <1>1, <2>1 DEF Carries
    <3> QED
      BY <1>1, <2>1, <3>1
  <2>3. Carries(L - 1, x) <=> index[work[L - 1].fn] <= index[x] /\ index[x] < index[f]
    BY <1>1, <2>1 DEF Carries
  <2>4. index[work[L - 1].fn] < index[f] /\ index[work[L - 1].fn] \in Nat /\ index[x] \in Nat
        /\ index[f] \in Nat
    BY <1>1, <2>1
  <2> QED
    BY <1>3, <2>2, <2>3, <2>4
<1>5. ASSUME NEW i \in 1..(L - 1), NEW x \in Opened, Carries(i, x) PROVE index[x] < index[f]
  <2>1. i + 1 \in 1..L
    BY <1>1
  <2>2. index[x] < index[work[i + 1].fn] /\ index[work[i + 1].fn] \in Nat
    BY <1>1, <1>5, <2>1 DEF Carries
  <2>3. i + 1 = L \/ index[work[i + 1].fn] < index[f]
    BY <1>1, <2>1
  <2> QED
    BY <1>1, <2>2, <2>3
<1>6. low' = IF L = 1 THEN low
             ELSE [low EXCEPT ![work[L - 1].fn] = Lower(@, low[f])]
  <2>1. InnerDone = SubSeq(work, 1, L - 1) /\ work \in Seq(Frames)
    BY <1>1 DEF InnerDone, SearchTypes
  <2>2. Len(InnerDone) = L - 1 /\ \A i \in 1..(L - 1) : InnerDone[i] = work[i]
    BY <1>1, <2>1, SubSeqProperties
  <2>3. InnerDone = <<>> <=> L = 1
    <3>1. InnerDone \in Seq(Frames)
      BY <1>1, <2>1, SubSeqProperties
    <3>2. InnerDone # <<>> => Len(InnerDone) \in Nat \ {0}
      BY <3>1, EmptySeq
    <3>3. InnerDone = <<>> => Len(InnerDone) = 0
      OBVIOUS
    <3> QED
      BY <1>1, <2>2, <3>2, <3>3
  <2>4. L # 1 => InnerDone[Len(InnerDone)] = work[L - 1]
    BY <1>1, <2>2
  <2> QED
    BY <2>3, <2>4 DEF Leaving, Leave
<1>7. /\ low' \in [Funcs -> Nat \cup {Unnumbered}]
      /\ \A i \in 1..(L - 1) : i # L - 1 => low'[work[i].fn] = low[work[i].fn]
      /\ L > 1 => low'[work[L - 1].fn] = Lower(low[work[L - 1].fn], low[f])
  <2>0. low \in [Funcs -> Nat \cup {Unnumbered}]
    BY <1>1 DEF SearchTypes
  <2>1. CASE L = 1
    BY <1>1, <1>6, <2>0, <2>1
  <2>2. CASE L # 1
    <3> DEFINE p == work[L - 1].fn
    <3>1. L - 1 \in 1..(L - 1) /\ p \in Funcs /\ low[p] \in Nat /\ low[f] \in Nat
      BY <1>1, <2>2
    <3>2. Lower(low[p], low[f]) \in Nat
      BY <3>1 DEF Lower
    <3>3. ASSUME NEW i \in 1..(L - 1), i # L - 1 PROVE work[i].fn # p
      <4>1. i < L - 1 /\ i \in DOMAIN work /\ L - 1 \in DOMAIN work
        BY <1>1, <3>1, <3>3
      <4>2. index[work[i].fn] < index[p]
        BY <1>1, <4>1 DEF InOrder
      <4> QED
        BY <1>1, <4>1, <4>2
    <3>4. low' = [low EXCEPT ![p] = Lower(low[p], low[f])]
      BY <1>6, <2>2
    <3> HIDE DEF p
    <3>5. low' \in [Funcs -> Nat \cup {Unnumbered}] /\ low'[p] = Lower(low[p], low[f])
          /\ \A x \in Funcs : x # p => low'[x] = low[x]
      BY <2>0, <3>1, <3>2, <3>4
    <3> QED
      BY <1>1, <3>3, <3>5 DEF p
  <2> QED
    BY <2>1, <2>2
<1> QED
  BY <1>2, <1>3, <1>4, <1>5, <1>7

(* Leaving a function that reaches one entered before it.                  *)
LEMMA LeaveOpenKeeps ==
  ASSUME Leaving, low[Inner.fn] # index[Inner.fn]
  PROVE  SearchInv'
<1>0. \E L, f : L = Len(work) /\ f = Inner.fn
  OBVIOUS
<1> PICK L, f : L = Len(work) /\ f = Inner.fn
  BY <1>0
<1>1. /\ SearchTypes /\ InOrder /\ ClosedSound /\ CallsHandled /\ OpenReaches /\ LowSound
      /\ graph \in CallGraphs
      /\ L \in Nat /\ DOMAIN work = 1..L /\ L \in 1..L
      /\ \A i \in 1..L : /\ work[i] \in Frames /\ work[i].fn \in Opened
                         /\ work[i].fn \in Funcs /\ index[work[i].fn] \in Nat
                         /\ low[work[i].fn] \in Nat
                         /\ i < L => index[work[i].fn] < index[f]
      /\ \A x \in Opened : x \in Funcs /\ Reached(x) /\ index[x] \in Nat
      /\ f = work[L].fn /\ f \in Funcs /\ f \in Opened /\ work[L].todo = {}
      /\ work' \in Seq(Frames) /\ Len(work') = L - 1 /\ DOMAIN work' = 1..(L - 1)
      /\ \A i \in 1..(L - 1) : i \in 1..L /\ i < L /\ work'[i] = work[i]
      /\ index' = index
      /\ \A x \in Funcs : Reached(x)' = Reached(x)
      /\ \A x : Handled(x)' = Handled(x)
      /\ \A x, y : To(x, y)' = To(x, y)
  BY StackAfterLeave
<1>2. /\ \A i \in 1..(L - 1) : i # L - 1 => \A x \in Opened : Carries(i, x)' <=> Carries(i, x)
      /\ L > 1 => \A x \in Opened : Carries(L - 1, x)' <=> Carries(L - 1, x) \/ Carries(L, x)
      /\ \A x \in Opened : Carries(L, x) <=> index[f] <= index[x]
      /\ \A i \in 1..(L - 1), x \in Opened : Carries(i, x) => index[x] < index[f]
      /\ low' \in [Funcs -> Nat \cup {Unnumbered}]
      /\ \A i \in 1..(L - 1) : i # L - 1 => low'[work[i].fn] = low[work[i].fn]
      /\ L > 1 => low'[work[L - 1].fn] = Lower(low[work[L - 1].fn], low[f])
  BY CarriedAfterLeave
<1>3. open' = open /\ found' = found /\ graph' = graph
  BY DEF Leaving, Leave
<1>4. Opened' = Opened /\ Closed' = Closed
  BY <1>1, <1>3 DEF Opened, Closed
(* It reaches a function entered earlier, and so does all it carries.      *)
<1>5. PICK z \in Opened : index[z] = low[f] /\ To(f, z) /\ index[z] < index[f]
  <2>1. PICK z \in Opened : index[z] = low[f] /\ To(f, z)
    BY <1>1 DEF LowSound
  <2>2. low[f] <= index[f] /\ low[f] # index[f]
    BY <1>1 DEF LowSound
  <2> QED
    BY <1>1, <2>1, <2>2
<1>6. PICK j \in 1..(L - 1) : Carries(j, z) /\ To(z, work[j].fn)
  <2>1. PICK j \in 1..L : Carries(j, z) /\ To(z, work[j].fn)
    BY <1>1 DEF OpenReaches
  <2>2. j # L
    BY <1>1, <1>2, <1>5, <2>1
  <2> QED
    BY <1>1, <2>1, <2>2
<1>7. L > 1 /\ L - 1 \in 1..(L - 1) /\ L - 1 \in 1..L
  BY <1>1, <1>6
<1>8. PICK p : p = work[L - 1].fn
  OBVIOUS
<1>9. p \in Funcs /\ p \in Opened /\ index[p] \in Nat /\ low[p] \in Nat /\ index[p] < index[f]
  BY <1>1, <1>7, <1>8
<1>10. \A x \in Opened : Carries(L, x) => To(x, p)
  <2>1. To(work[j].fn, p)
    <3>1. j = L - 1 \/ index[work[j].fn] < index[p]
      <4>1. j \in 1..L /\ L - 1 \in 1..L /\ (j = L - 1 \/ j < L - 1)
        BY <1>1, <1>6, <1>7
      <4> QED
        BY <1>1, <1>8, <4>1 DEF InOrder
    <3>2. index[work[j].fn] <= index[p]
      BY <1>1, <1>6, <1>8, <1>9, <3>1
    <3> QED
      BY <1>1, <1>6, <1>9, <3>2 DEF OpenReaches
  <2>2. To(f, p)
    BY <1>1, <1>5, <1>6, <1>9, <2>1, Reaches
  <2> SUFFICES ASSUME NEW x \in Opened, Carries(L, x) PROVE To(x, p)
    OBVIOUS
  <2>3. To(x, f)
    <3>1. PICK i \in 1..L : Carries(i, x) /\ To(x, work[i].fn)
      BY <1>1 DEF OpenReaches
    <3>2. i = L
      <4>1. ~(index[x] < index[f])
        BY <1>1, <1>2, <2>2
      <4>2. i \notin 1..(L - 1)
        BY <1>2, <3>1, <4>1
      <4> QED
        BY <1>1, <4>2
    <3> QED
      BY <1>1, <3>1, <3>2
  <2> QED
    BY <1>1, <1>9, <2>2, <2>3, Reaches
<1>11. SearchTypes'
  BY <1>1, <1>2, <1>3 DEF SearchTypes
<1>12. InOrder'
  <2>1. Within' \subseteq Opened
    BY <1>1 DEF Within
  <2>2. {h \in Funcs : Reached(h)}' = {h \in Funcs : Reached(h)}
    BY <1>1
  <2>3. \A i, k \in DOMAIN work' : i < k => index[work'[i].fn] < index[work'[k].fn]
    BY <1>1 DEF InOrder
  <2>4. \A x \in Opened : Reached(x)'
    BY <1>1
  <2>5. \A x, h \in Funcs : Reached(x)' /\ index[x] = index[h] => x = h
    BY <1>1 DEF InOrder
  <2>6. \A x \in Funcs : Reached(x)' => index[x] < Cardinality({h \in Funcs : Reached(h)})
    BY <1>1 DEF InOrder
  <2>7. \A i, k \in DOMAIN open : i < k => index[open[i]] < index[open[k]]
    BY <1>1 DEF InOrder
  <2> QED
    BY <1>1, <1>3, <1>4, <2>1, <2>2, <2>3, <2>4, <2>5, <2>6, <2>7 DEF InOrder
<1>13. ClosedSound'
  BY <1>1, <1>3, <1>4 DEF ClosedSound, IsRecursive, Component
<1>14. CallsHandled'
  <2>1. \A x \in Opened : \A y \in Handled(x)' : Reached(y)'
    <3> SUFFICES ASSUME NEW x \in Opened, NEW y \in Handled(x) PROVE Reached(y)'
      BY <1>1
    <3>1. Reached(y) /\ y \in Funcs
      BY <1>1, CalleesAreFuncs DEF CallsHandled, Handled
    <3> QED
      BY <1>1, <3>1
  <2>2. ASSUME NEW i \in DOMAIN work'
        PROVE  /\ work'[i].todo \subseteq Callees(graph', work'[i].fn)
               /\ work'[i].selfCall <=> (work[i].fn \in Handled(work[i].fn))'
    <3>1. PICK w : w = work'[i].fn /\ w = work[i].fn
      BY <1>1
    <3>2. Handled(w)' = (Handled(work[i].fn))'
      BY <3>1 DEF Handled
    <3>3. work[i].todo \subseteq Callees(graph, w) /\ (work[i].selfCall <=> w \in Handled(w))
      BY <1>1, <3>1 DEF CallsHandled
    <3> QED
      BY <1>1, <1>3, <3>1, <3>2, <3>3
  <2> QED
    BY <1>4, <2>1, <2>2 DEF CallsHandled
<1>15. OpenReaches'
  <2>1. ASSUME NEW i \in 1..(L - 1), NEW x \in Opened, index[work[i].fn] <= index[x]
        PROVE  To(work[i].fn, x)
    BY <1>1, <2>1 DEF OpenReaches
  <2>2. ASSUME NEW x \in Opened
        PROVE  \E i \in 1..(L - 1) : Carries(i, x)' /\ To(x, work[i].fn)
    <3>1. PICK i \in 1..L : Carries(i, x) /\ To(x, work[i].fn)
      BY <1>1 DEF OpenReaches
    <3>2. CASE i = L
      BY <1>2, <1>7, <1>8, <1>10, <3>1, <3>2
    <3>3. CASE i # L
      <4>1. i \in 1..(L - 1)
        BY <1>1, <3>3
      <4> QED
        BY <1>2, <1>7, <3>1, <4>1
    <3> QED
      BY <3>2, <3>3
  <2>3. \A i \in 1..(L - 1) : \A x : (To(work[i].fn, x))' <=> To(work[i].fn, x)
    BY <1>1 DEF To
  <2>4. \A i \in 1..(L - 1) : \A x : (To(x, work[i].fn))' <=> To(x, work[i].fn)
    BY <1>1 DEF To
  <2> QED
    BY <1>1, <1>4, <2>1, <2>2, <2>3, <2>4 DEF OpenReaches
<1>16. LowSound'
  <2>1. ASSUME NEW i \in 1..(L - 1), NEW w, w = work[i].fn
        PROVE  /\ low'[w] <= index[w]
               /\ \E y \in Opened : index[y] = low'[w] /\ To(w, y)
               /\ \A x \in Opened : Carries(i, x)' =>
                    \A y \in Handled(x) \cap Opened : low'[w] <= index[y]
    <3>1. /\ low[w] <= index[w]
          /\ \E y \in Opened : index[y] = low[w] /\ To(w, y)
          /\ \A x \in Opened : Carries(i, x) =>
               \A y \in Handled(x) \cap Opened : low[w] <= index[y]
      BY <1>1, <2>1 DEF LowSound
    <3>2. CASE i # L - 1
      BY <1>2, <2>1, <3>1, <3>2
    <3>3. CASE i = L - 1
      <4>1. w = p /\ low'[p] = Lower(low[p], low[f]) /\ low[f] \in Nat
        BY <1>1, <1>2, <1>7, <1>8, <2>1, <3>3
      <4>2. low'[p] \in Nat /\ low'[p] <= low[p] /\ low'[p] <= low[f]
            /\ (low'[p] = low[p] \/ low'[p] = low[f])
        BY <1>9, <4>1 DEF Lower
      <4>3. To(p, z)
        <5>1. To(p, f)
          <6>1. index[p] <= index[f]
            BY <1>1, <1>9
          <6> QED
            BY <1>1, <1>7, <1>8, <6>1 DEF OpenReaches
        <5> QED
          BY <1>1, <1>5, <1>9, <5>1, Reaches
      <4>4. ASSUME NEW x \in Opened, Carries(i, x)', NEW y \in Handled(x) \cap Opened
            PROVE  low'[p] <= index[y]
        <5>1. Carries(L - 1, x) \/ Carries(L, x)
          BY <1>2, <1>7, <3>3, <4>4
        <5>2. Carries(L, x) => low[f] <= index[y]
          BY <1>1, <4>4 DEF LowSound
        <5>3. Carries(L - 1, x) => low[p] <= index[y]
          BY <3>1, <3>3, <4>1, <4>4
        <5> QED
          BY <1>1, <1>9, <4>1, <4>2, <4>4, <5>1, <5>2, <5>3
      <4>5. low'[p] <= index[p]
        BY <1>9, <3>1, <4>1, <4>2
      <4>6. \E y \in Opened : index[y] = low'[p] /\ To(p, y)
        BY <1>5, <3>1, <4>1, <4>2, <4>3
      <4> QED
        BY <4>1, <4>4, <4>5, <4>6
    <3> QED
      BY <3>2, <3>3
  <2>2. ASSUME NEW i \in 1..(L - 1)
        PROVE  (/\ low[work[i].fn] <= index[work[i].fn]
                /\ \E y \in Opened : index[y] = low[work[i].fn] /\ To(work[i].fn, y)
                /\ \A x \in Opened : Carries(i, x) =>
                     \A y \in Handled(x) \cap Opened : low[work[i].fn] <= index[y])'
    <3>1. PICK w : w = work'[i].fn /\ w = work[i].fn
      BY <1>1
    <3>2. \A y : (To(work[i].fn, y))' <=> To(w, y)
      BY <1>1, <3>1 DEF To
    <3> QED
      BY <1>1, <1>4, <2>1, <3>1, <3>2
  <2> QED
    BY <1>1, <2>2 DEF LowSound
<1> QED
  BY <1>11, <1>12, <1>13, <1>14, <1>15, <1>16 DEF SearchInv

(* A finite set with a member has another exactly if it has more than one. *)
LEMMA Another ==
  ASSUME NEW S, IsFiniteSet(S), NEW x \in S
  PROVE  Cardinality(S) > 1 <=> \E y \in S : y # x
<1>1. IsFiniteSet(S \ {x}) /\ x \notin S \ {x} /\ S = (S \ {x}) \cup {x}
  BY FS_Difference
<1>2. Cardinality(S \ {x}) \in Nat /\ Cardinality(S) = Cardinality(S \ {x}) + 1
  BY <1>1, FS_AddElement, FS_CardinalityType
<1>3. Cardinality(S \ {x}) = 0 <=> S \ {x} = {}
  BY <1>1, FS_EmptySet
<1> QED
  BY <1>2, <1>3

(* Leaving a function that reaches nothing entered before it closes its    *)
(* component.                                                              *)
LEMMA LeaveClosedKeeps ==
  ASSUME Leaving, low[Inner.fn] = index[Inner.fn]
  PROVE  SearchInv'
<1>0. \E L, f : L = Len(work) /\ f = Inner.fn
  OBVIOUS
<1> PICK L, f : L = Len(work) /\ f = Inner.fn
  BY <1>0
<1>1. /\ SearchTypes /\ InOrder /\ ClosedSound /\ CallsHandled /\ OpenReaches /\ LowSound
      /\ graph \in CallGraphs
      /\ L \in Nat /\ DOMAIN work = 1..L /\ L \in 1..L
      /\ \A i \in 1..L : /\ work[i] \in Frames /\ work[i].fn \in Opened
                         /\ work[i].fn \in Funcs /\ index[work[i].fn] \in Nat
                         /\ low[work[i].fn] \in Nat
                         /\ i < L => index[work[i].fn] < index[f]
      /\ \A x \in Opened : x \in Funcs /\ Reached(x) /\ index[x] \in Nat
      /\ f = work[L].fn /\ f \in Funcs /\ f \in Opened /\ work[L].todo = {}
      /\ work' \in Seq(Frames) /\ Len(work') = L - 1 /\ DOMAIN work' = 1..(L - 1)
      /\ \A i \in 1..(L - 1) : i \in 1..L /\ i < L /\ work'[i] = work[i]
      /\ index' = index
      /\ \A x \in Funcs : Reached(x)' = Reached(x)
      /\ \A x : Handled(x)' = Handled(x)
      /\ \A x, y : To(x, y)' = To(x, y)
  BY StackAfterLeave
<1>2. /\ \A i \in 1..(L - 1) : i # L - 1 => \A x \in Opened : Carries(i, x)' <=> Carries(i, x)
      /\ L > 1 => \A x \in Opened : Carries(L - 1, x)' <=> Carries(L - 1, x) \/ Carries(L, x)
      /\ \A x \in Opened : Carries(L, x) <=> index[f] <= index[x]
      /\ \A i \in 1..(L - 1), x \in Opened : Carries(i, x) => index[x] < index[f]
      /\ low' \in [Funcs -> Nat \cup {Unnumbered}]
      /\ \A i \in 1..(L - 1) : i # L - 1 => low'[work[i].fn] = low[work[i].fn]
      /\ L > 1 => low'[work[L - 1].fn] = Lower(low[work[L - 1].fn], low[f])
  BY CarriedAfterLeave
<1>3. graph' = graph /\ Close(f) /\ low[f] = index[f] /\ index[f] \in Nat
  BY <1>1 DEF Leaving, Leave
(* The members are the functions opened since.                             *)
<1>4. PICK C : C = {x \in Opened : index[f] <= index[x]}
  OBVIOUS
<1>5. /\ Opened' = Opened \ C
      /\ \E at \in 1..Len(open) : open' = SubSeq(open, 1, at - 1)
      /\ found' = found \cup {[members |-> C, recursive |-> Cardinality(C) > 1 \/ Inner.selfCall]}
  <2>1. /\ Len(open) \in Nat /\ DOMAIN open = 1..Len(open) /\ open \in Seq(Funcs)
        /\ \A i \in 1..Len(open) : open[i] \in Opened
        /\ \A x \in Opened : \E i \in 1..Len(open) : open[i] = x
    BY <1>1, OnTheStacks DEF SearchTypes
  <2> DEFINE at == CHOOSE i \in DOMAIN open : open[i] = f
  <2>2. at \in 1..Len(open) /\ open[at] = f
    BY <1>1, <2>1
  <2>3. /\ open' = SubSeq(open, 1, at - 1)
        /\ found' = found \cup {[members   |-> {open[i] : i \in at .. Len(open)},
                                 recursive |-> Cardinality({open[i] : i \in at .. Len(open)}) > 1
                                               \/ Inner.selfCall]}
    BY <1>3 DEF Close
  <2> HIDE DEF at
  <2>4. \A i, k \in 1..Len(open) : i < k => index[open[i]] < index[open[k]]
    BY <1>1, <2>1 DEF InOrder
  <2>5. \A i \in 1..Len(open) : index[f] <= index[open[i]] <=> at <= i
    <3> SUFFICES ASSUME NEW i \in 1..Len(open) PROVE index[f] <= index[open[i]] <=> at <= i
      OBVIOUS
    <3>1. index[open[i]] \in Nat
      BY <1>1, <2>1
    <3>2. CASE i < at
      BY <1>3, <2>2, <2>4, <3>1, <3>2
    <3>3. CASE i = at
      BY <1>3, <2>2, <3>3
    <3>4. CASE i > at
      BY <1>3, <2>2, <2>4, <3>1, <3>4
    <3> QED
      BY <2>1, <2>2, <3>2, <3>3, <3>4
  <2>6. {open[i] : i \in at .. Len(open)} = C
    <3>1. \A i \in at .. Len(open) : i \in 1..Len(open) /\ at <= i
      BY <2>1, <2>2
    <3>2. \A i \in at .. Len(open) : open[i] \in C
      BY <1>4, <2>1, <2>5, <3>1
    <3>3. ASSUME NEW x \in C PROVE \E i \in at .. Len(open) : open[i] = x
      <4>1. PICK i \in 1..Len(open) : open[i] = x
        BY <1>4, <2>1
      <4>2. i \in at .. Len(open)
        BY <1>4, <2>1, <2>2, <2>5, <4>1
      <4> QED
        BY <4>1, <4>2
    <3> QED
      BY <3>2, <3>3
  <2>7. Opened' = Opened \ C
    <3>1. Len(open') = at - 1 /\ open' \in Seq(Funcs)
          /\ \A i \in 1..(at - 1) : i \in 1..Len(open) /\ open'[i] = open[i] /\ ~(at <= i)
      BY <2>1, <2>2, <2>3, SubSeqProperties
    <3>2. DOMAIN open' = 1..(at - 1)
      BY <3>1
    <3>3. \A i \in 1..(at - 1) : open'[i] \in Opened \ C
      BY <1>4, <2>1, <2>5, <3>1
    <3>4. ASSUME NEW x \in Opened \ C PROVE \E i \in 1..(at - 1) : open'[i] = x
      <4>1. PICK i \in 1..Len(open) : open[i] = x
        BY <2>1
      <4>2. i \in 1..(at - 1)
        BY <1>4, <2>1, <2>2, <2>5, <4>1
      <4> QED
        BY <3>1, <4>1, <4>2
    <3> QED
      BY <3>2, <3>3, <3>4 DEF Opened
  <2> QED
    BY <2>2, <2>3, <2>6, <2>7
<1>6. /\ C \subseteq Opened /\ C \subseteq Funcs /\ f \in C
      /\ \A x \in C : index[f] <= index[x] /\ Carries(L, x)
      /\ \A x \in Opened \ C : x \in Opened /\ ~Carries(L, x) /\ index[x] < index[f]
  <2>1. \A x \in Opened : index[f] <= index[x] \/ index[x] < index[f]
    BY <1>1, <1>3
  <2> QED
    BY <1>1, <1>2, <1>3, <1>4, <2>1
<1>7. Closed' = Closed \cup C
  <2>1. Closed' = {x \in Funcs : Reached(x)} \ (Opened \ C)
    BY <1>1, <1>5 DEF Closed
  <2> QED
    BY <1>1, <1>6, <2>1 DEF Closed
(* They call one another and what is closed, nothing else.                 *)
<1>8. \A x \in C : Callees(graph, x) \subseteq Closed \cup C
  <2> SUFFICES ASSUME NEW x \in C, NEW y \in Callees(graph, x) PROVE y \in Closed \cup C
    OBVIOUS
  <2>1. y \in Handled(x)
    <3>1. \A i \in 1..L : work[i].fn = x => i = L
      <4> SUFFICES ASSUME NEW i \in 1..L, work[i].fn = x, i # L PROVE FALSE
        OBVIOUS
      <4>1. i < L
        BY <1>1
      <4>2. index[x] < index[f] /\ index[x] \in Nat /\ index[f] <= index[x]
        BY <1>1, <1>6, <4>1
      <4> QED
        BY <1>3, <4>2
    <3> QED
      BY <1>1, <3>1 DEF Handled
  <2>2. Reached(y) /\ y \in Funcs
    BY <1>1, <1>6, <2>1, CalleesAreFuncs DEF CallsHandled
  <2>3. CASE y \in Opened
    <3>1. low[f] <= index[y]
      BY <1>1, <1>6, <2>1, <2>3 DEF LowSound
    <3> QED
      BY <1>3, <1>4, <2>3, <3>1
  <2>4. CASE y \notin Opened
    BY <2>2, <2>4 DEF Closed
  <2> QED
    BY <2>3, <2>4
<1>9. \A x, y \in C : To(x, y)
  <2>1. \A x \in C : To(f, x)
    BY <1>1, <1>6 DEF OpenReaches
  <2>2. \A x \in C : To(x, f)
    <3> SUFFICES ASSUME NEW x \in C PROVE To(x, f)
      OBVIOUS
    <3>1. PICK i \in 1..L : Carries(i, x) /\ To(x, work[i].fn)
      BY <1>1, <1>6 DEF OpenReaches
    <3>2. i = L
      <4>1. ~(index[x] < index[f])
        BY <1>1, <1>3, <1>6
      <4>2. i \notin 1..(L - 1)
        BY <1>2, <1>6, <3>1, <4>1
      <4> QED
        BY <1>1, <4>2
    <3> QED
      BY <1>1, <3>1, <3>2
  <2> QED
    BY <1>1, <1>6, <2>1, <2>2, Reaches
<1>10. ASSUME NEW x \in C
       PROVE  C = Component(graph, x)
              /\ (IsRecursive(graph, x) <=> Cardinality(C) > 1 \/ Inner.selfCall)
  <2>0. x \in Funcs
    BY <1>6
  <2>1. \A h \in Closed : Below(graph, h) \subseteq Closed
    <3>1. Closed \subseteq Funcs
      BY DEF Closed
    <3>2. \A h \in Closed : Callees(graph, h) \subseteq Closed
      BY <1>1 DEF ClosedSound
    <3> QED
      BY <1>1, <3>1, <3>2, BelowIsLeast
  <2>2. Below(graph, x) \subseteq Closed \cup C
    <3>1. \A h \in (Closed \cup C) \cap Funcs : Callees(graph, h) \subseteq Closed \cup C
      BY <1>1, <1>8 DEF ClosedSound
    <3> QED
      BY <1>1, <1>8, <2>0, <3>1, BelowIsLeast
  <2>3. \A y \in C : y # x => y \in Below(graph, x) /\ x \in Below(graph, y)
    BY <1>9 DEF To
  <2>4. \A h \in Below(graph, x) : x \in Below(graph, h) => h \in C
    <3> SUFFICES ASSUME NEW h \in Below(graph, x), x \in Below(graph, h), h \notin C PROVE FALSE
      OBVIOUS
    <3>1. h \in Closed /\ x \notin Closed
      BY <1>6, <2>2 DEF Closed
    <3> QED
      BY <2>1, <3>1
  <2>5. C = Component(graph, x)
    BY <2>3, <2>4 DEF Component
  <2>6. IsFiniteSet(C)
    BY <1>6, FuncsAssumption, FS_Subset
  <2>7. Inner.selfCall <=> f \in Callees(graph, f)
    <3>1. work[L].selfCall <=> f \in Handled(f)
      BY <1>1 DEF CallsHandled
    <3>2. Handled(f) = Callees(graph, f)
      <4>1. \A i \in 1..L : work[i].fn = f => work[i].todo = {}
        <5> SUFFICES ASSUME NEW i \in 1..L, work[i].fn = f PROVE i = L
          BY <1>1
        <5>1. ~(i < L)
          BY <1>1, <1>3
        <5> QED
          BY <1>1, <5>1
      <4> QED
        BY <1>1, <4>1 DEF Handled
    <3> QED
      BY <3>1, <3>2 DEF Inner
  <2>8. CASE \E y \in C : y # x
    <3>1. PICK y \in C : y # x
      BY <2>8
    <3>2. y \in Below(graph, x) /\ x \in Below(graph, y)
      BY <2>3, <3>1
    <3>3. x \in Below(graph, x)
      BY <1>1, <2>0, <3>2, BelowGoesOn
    <3> QED
      BY <2>5, <2>6, <3>1, <3>3, Another DEF IsRecursive
  <2>9. CASE C = {x}
    <3>1. x = f /\ ~(Cardinality(C) > 1)
      BY <1>6, <2>6, <2>9, Another
    <3>2. f \in Callees(graph, f) => f \in Below(graph, f)
      BY <1>1, BelowIsLeast
    <3>3. ASSUME f \in Below(graph, f) PROVE f \in Callees(graph, f)
      <4>1. PICK c \in Callees(graph, f) : f = c \/ f \in Below(graph, c)
        BY <1>1, <3>3, BelowGoesOn
      <4>2. c \in Below(graph, f)
        BY <1>1, BelowIsLeast
      <4>3. f \in Below(graph, c) => c \in C
        BY <2>4, <3>1, <4>2
      <4> QED
        BY <2>9, <3>1, <4>1, <4>3
    <3> QED
      BY <2>5, <2>7, <3>1, <3>2, <3>3 DEF IsRecursive
  <2> QED
    BY <2>8, <2>9, <1>10
<1>11. \A i \in 1..(L - 1) : /\ work[i].fn \in Opened \ C /\ work[i].fn \in Funcs
                             /\ low'[work[i].fn] = low[work[i].fn]
                             /\ low[work[i].fn] <= index[work[i].fn]
                             /\ index[work[i].fn] < index[f]
  <2> SUFFICES ASSUME NEW i \in 1..(L - 1)
               PROVE  /\ work[i].fn \in Opened \ C /\ work[i].fn \in Funcs
                      /\ low'[work[i].fn] = low[work[i].fn]
                      /\ low[work[i].fn] <= index[work[i].fn]
                      /\ index[work[i].fn] < index[f]
    OBVIOUS
  <2>1. /\ work[i].fn \in Opened /\ work[i].fn \in Funcs /\ index[work[i].fn] < index[f]
        /\ index[work[i].fn] \in Nat /\ low[work[i].fn] \in Nat
        /\ low[work[i].fn] <= index[work[i].fn]
    BY <1>1 DEF LowSound
  <2>2. ~(index[f] <= index[work[i].fn])
    BY <1>3, <2>1
  <2>3. low'[work[i].fn] = low[work[i].fn]
    <3>1. CASE i = L - 1
      <4>1. Lower(low[work[i].fn], low[f]) = low[work[i].fn]
        BY <1>3, <2>1 DEF Lower
      <4> QED
        BY <1>1, <1>2, <3>1, <4>1
    <3>2. CASE i # L - 1
      BY <1>2, <3>2
    <3> QED
      BY <3>1, <3>2
  <2> QED
    BY <1>4, <2>1, <2>2, <2>3
<1>12. \A i \in 1..(L - 1), x \in Opened \ C : Carries(i, x)' <=> Carries(i, x)
  <2> SUFFICES ASSUME NEW i \in 1..(L - 1), NEW x \in Opened \ C
               PROVE  Carries(i, x)' <=> Carries(i, x)
    OBVIOUS
  <2>1. x \in Opened /\ ~Carries(L, x)
    BY <1>6
  <2>2. i = L - 1 => L > 1
    BY <1>1
  <2> QED
    BY <1>2, <2>1, <2>2
<1>13. SearchTypes'
  <2>1. open' \in Seq(Funcs)
    <3>1. PICK at \in 1..Len(open) : open' = SubSeq(open, 1, at - 1)
      BY <1>5
    <3>2. Len(open) \in Nat /\ \A i \in 1..Len(open) : open[i] \in Funcs
      BY <1>1 DEF SearchTypes
    <3>3. 1 \in Int /\ at - 1 \in Int /\ \A i \in 1..(at - 1) : open[i] \in Funcs
      BY <3>1, <3>2
    <3> QED
      BY <3>1, <3>3, SubSeqProperties
  <2>2. found' \in SUBSET [members : SUBSET Funcs, recursive : BOOLEAN]
    <3>1. (Cardinality(C) > 1 \/ Inner.selfCall) \in BOOLEAN
      BY <1>1 DEF Frames, Inner
    <3>2. C \in SUBSET Funcs
      BY <1>6
    <3>3. found \in SUBSET [members : SUBSET Funcs, recursive : BOOLEAN]
      BY <1>1 DEF SearchTypes
    <3>4. PICK flag \in BOOLEAN : flag = (Cardinality(C) > 1 \/ Inner.selfCall)
      BY <3>1
    <3>5. found' = found \cup {[members |-> C, recursive |-> flag]}
      BY <1>5, <3>4
    <3> QED
      BY <3>2, <3>3, <3>5
  <2> QED
    BY <1>1, <1>2, <1>3, <2>1, <2>2 DEF SearchTypes
<1>14. InOrder'
  <2>1. Within' \subseteq Opened'
    <3>1. \A i \in DOMAIN work' : work'[i].fn \in Opened \ C
      BY <1>1, <1>11
    <3> QED
      BY <1>5, <3>1 DEF Within
  <2>2. {h \in Funcs : Reached(h)}' = {h \in Funcs : Reached(h)}
    BY <1>1
  <2>3. \A i, k \in DOMAIN work' : i < k => index[work'[i].fn] < index[work'[k].fn]
    BY <1>1 DEF InOrder
  <2>4. \A x \in Opened' : Reached(x)'
    BY <1>1, <1>5
  <2>5. \A x, h \in Funcs : Reached(x)' /\ index[x] = index[h] => x = h
    BY <1>1 DEF InOrder
  <2>6. \A x \in Funcs : Reached(x)' => index[x] < Cardinality({h \in Funcs : Reached(h)})
    BY <1>1 DEF InOrder
  <2>7. \A i, k \in DOMAIN open' : i < k => index[open'[i]] < index[open'[k]]
    <3>1. PICK at \in 1..Len(open) : open' = SubSeq(open, 1, at - 1)
      BY <1>5
    <3>2. /\ Len(open) \in Nat /\ DOMAIN open = 1..Len(open)
          /\ \A i \in 1..Len(open) : open[i] \in Funcs
      BY <1>1 DEF SearchTypes
    <3>3. 1 \in Int /\ at - 1 \in Int /\ \A i \in 1..(at - 1) : open[i] \in Funcs
      BY <3>1, <3>2
    <3>4. Len(open') = at - 1 /\ open' \in Seq(Funcs)
          /\ \A i \in 1..(at - 1) : i \in 1..Len(open) /\ open'[i] = open[i]
      BY <3>1, <3>2, <3>3, SubSeqProperties
    <3>5. DOMAIN open' = 1..(at - 1)
      BY <3>4
    <3> QED
      BY <1>1, <3>2, <3>4, <3>5 DEF InOrder
  <2> QED
    BY <1>1, <2>1, <2>2, <2>3, <2>4, <2>5, <2>6, <2>7 DEF InOrder
<1>15. ClosedSound'
  <2>1. PICK new : new = [members |-> C, recursive |-> Cardinality(C) > 1 \/ Inner.selfCall]
    OBVIOUS
  <2>2. found' = found \cup {new} /\ new.members = C
        /\ (new.recursive <=> Cardinality(C) > 1 \/ Inner.selfCall)
    BY <1>5, <2>1
  <2>3. Closed' = UNION {c.members : c \in found'}
    <3>1. Closed = UNION {c.members : c \in found}
      BY <1>1 DEF ClosedSound
    <3> QED
      BY <1>7, <2>2, <3>1
  <2>4. \A x \in Closed' : Callees(graph, x) \subseteq Closed'
    BY <1>1, <1>7, <1>8 DEF ClosedSound
  <2>5. ASSUME NEW c \in found'
        PROVE  /\ c.members # {}
               /\ \A x \in c.members :
                    c.members = Component(graph, x) /\ (c.recursive <=> IsRecursive(graph, x))
    <3>1. CASE c \in found
      BY <1>1, <3>1 DEF ClosedSound
    <3>2. CASE c = new
      BY <1>6, <1>10, <2>2, <3>2
    <3> QED
      BY <2>2, <3>1, <3>2
  <2> QED
    BY <1>3, <2>3, <2>4, <2>5 DEF ClosedSound, IsRecursive, Component
<1>16. CallsHandled'
  <2>1. \A x \in Opened' : \A y \in Handled(x)' : Reached(y)'
    <3> SUFFICES ASSUME NEW x \in Opened \ C, NEW y \in Handled(x) PROVE Reached(y)'
      BY <1>1, <1>5
    <3>1. Reached(y) /\ y \in Funcs
      BY <1>1, CalleesAreFuncs DEF CallsHandled, Handled
    <3> QED
      BY <1>1, <3>1
  <2>2. ASSUME NEW i \in DOMAIN work'
        PROVE  /\ work'[i].todo \subseteq Callees(graph', work'[i].fn)
               /\ work'[i].selfCall <=> (work[i].fn \in Handled(work[i].fn))'
    <3>1. PICK w : w = work'[i].fn /\ w = work[i].fn
      BY <1>1
    <3>2. Handled(w)' = (Handled(work[i].fn))'
      BY <3>1 DEF Handled
    <3>3. work[i].todo \subseteq Callees(graph, w) /\ (work[i].selfCall <=> w \in Handled(w))
      BY <1>1, <3>1 DEF CallsHandled
    <3> QED
      BY <1>1, <1>3, <3>1, <3>2, <3>3
  <2> QED
    BY <2>1, <2>2 DEF CallsHandled
<1>17. OpenReaches'
  <2>1. ASSUME NEW i \in 1..(L - 1), NEW x \in Opened, index[work[i].fn] <= index[x]
        PROVE  To(work[i].fn, x)
    BY <1>1, <2>1 DEF OpenReaches
  <2>2. ASSUME NEW x \in Opened \ C
        PROVE  \E i \in 1..(L - 1) : Carries(i, x)' /\ To(x, work[i].fn)
    <3>1. PICK i \in 1..L : Carries(i, x) /\ To(x, work[i].fn)
      BY <1>1 DEF OpenReaches
    <3>2. i \in 1..(L - 1)
      BY <1>1, <1>6, <3>1
    <3> QED
      BY <1>12, <3>1, <3>2
  <2>3. \A i \in 1..(L - 1) : \A x : (To(work[i].fn, x))' <=> To(work[i].fn, x)
    BY <1>1 DEF To
  <2>4. \A i \in 1..(L - 1) : \A x : (To(x, work[i].fn))' <=> To(x, work[i].fn)
    BY <1>1 DEF To
  <2> QED
    BY <1>1, <1>5, <2>1, <2>2, <2>3, <2>4 DEF OpenReaches
<1>18. LowSound'
  <2>1. ASSUME NEW i \in 1..(L - 1), NEW w, w = work[i].fn
        PROVE  /\ low'[w] <= index[w]
               /\ \E y \in Opened \ C : index[y] = low'[w] /\ To(w, y)
               /\ \A x \in Opened \ C : Carries(i, x)' =>
                    \A y \in Handled(x) \cap (Opened \ C) : low'[w] <= index[y]
    <3>1. /\ low[w] <= index[w]
          /\ \E y \in Opened : index[y] = low[w] /\ To(w, y)
          /\ \A x \in Opened : Carries(i, x) =>
               \A y \in Handled(x) \cap Opened : low[w] <= index[y]
      BY <1>1, <2>1 DEF LowSound
    <3>2. low'[w] = low[w] /\ index[w] < index[f] /\ index[w] \in Nat /\ low[w] \in Nat
      BY <1>1, <1>11, <2>1
    <3>3. \A y \in Opened : index[y] = low[w] => y \notin C
      BY <1>3, <1>6, <3>1, <3>2
    <3> QED
      BY <1>12, <3>1, <3>2, <3>3
  <2>2. ASSUME NEW i \in 1..(L - 1)
        PROVE  (/\ low[work[i].fn] <= index[work[i].fn]
                /\ \E y \in Opened : index[y] = low[work[i].fn] /\ To(work[i].fn, y)
                /\ \A x \in Opened : Carries(i, x) =>
                     \A y \in Handled(x) \cap Opened : low[work[i].fn] <= index[y])'
    <3>1. PICK w : w = work'[i].fn /\ w = work[i].fn
      BY <1>1
    <3>2. \A y : (To(work[i].fn, y))' <=> To(w, y)
      BY <1>1, <3>1 DEF To
    <3> QED
      BY <1>1, <1>5, <2>1, <3>1, <3>2
  <2> QED
    BY <1>1, <2>2 DEF LowSound
<1> QED
  BY <1>13, <1>14, <1>15, <1>16, <1>17, <1>18 DEF SearchInv

LEMMA LeaveKeeps ==
  ASSUME Leaving
  PROVE  SearchInv'
BY LeaveOpenKeeps, LeaveClosedKeeps

LEMMA SearchStarts ==
  ASSUME SearchInit, graph \in CallGraphs
  PROVE  SearchInv
<1>1. /\ work = <<>> /\ open = <<>> /\ found = {} /\ DOMAIN work = {} /\ DOMAIN open = {}
      /\ \A f \in Funcs : index[f] = Unnumbered
      /\ index = [f \in Funcs |-> Unnumbered] /\ low = [f \in Funcs |-> Unnumbered]
  BY DEF SearchInit
<1>2. Opened = {} /\ Within = {} /\ Closed = {}
  BY <1>1 DEF Opened, Within, Closed, Reached
<1>3. SearchTypes
  BY <1>1 DEF SearchTypes
<1>4. InOrder
  BY <1>1, <1>2 DEF InOrder, Reached
<1>5. ClosedSound
  BY <1>1, <1>2 DEF ClosedSound
<1>6. CallsHandled /\ OpenReaches /\ LowSound
  BY <1>1, <1>2 DEF CallsHandled, OpenReaches, LowSound
<1> QED
  BY <1>3, <1>4, <1>5, <1>6 DEF SearchInv

LEMMA SearchKeeps ==
  ASSUME SearchInv, Search, graph' = graph
  PROVE  SearchInv'
<1>1. CASE Root
  <2>1. PICK f \in Funcs : ~Reached(f) /\ Number(f, <<>>)
    BY <1>1 DEF Root
  <2>2. NumberedAfter(f, <<>>)
    BY <1>1, <2>1 DEF NumberedAfter, Root
  <2> QED
    BY <2>2, NumberKeeps
<1>2. ASSUME work # <<>>, NEW callee \in Inner.todo, SeenCallee(callee)
      PROVE  SearchInv'
  BY <1>2, SeenKeeps
<1>3. ASSUME work # <<>>, NEW callee \in Inner.todo, NewCallee(callee)
      PROVE  SearchInv'
  <2>1. callee \in Funcs
    <3>1. /\ Len(work) \in Nat
          /\ \A i \in 1..Len(work) : work[i].todo \subseteq Funcs
      BY OnTheStacks DEF SearchInv
    <3>2. Len(work) \in 1..Len(work)
      BY <1>3, <3>1, EmptySeq DEF SearchInv, SearchTypes
    <3> QED
      BY <3>1, <3>2 DEF Inner
  <2>2. NumberedAfter(callee, Stepped(callee))
    BY <1>3, <2>1 DEF NumberedAfter, NewCallee
  <2> QED
    BY <2>2, NumberKeeps
<1>4. CASE work # <<>> /\ Inner.todo = {} /\ Leave
  BY <1>4, LeaveKeeps DEF Leaving
<1> QED
  BY <1>1, <1>2, <1>3, <1>4 DEF Search

(* Once every function has been left, the closed components are all.       *)
LEMMA SearchEnds ==
  ASSUME SearchInv, Searched
  PROVE  /\ Marked = {f \in Funcs : IsRecursive(graph, f)}
         /\ Cycles = {Component(graph, f) : f \in Marked}
<1>1. ClosedSound /\ OpenReaches /\ found \subseteq [members : SUBSET Funcs, recursive : BOOLEAN]
  BY DEF SearchInv, SearchTypes
<1>2. Opened = {}
  <2>1. DOMAIN work = {}
    BY DEF Searched
  <2> QED
    BY <1>1, <2>1 DEF OpenReaches
<1>3. \A f \in Funcs : \E c \in found : f \in c.members
  <2>1. Closed = Funcs
    BY <1>2 DEF Closed, Searched
  <2> QED
    BY <1>1, <2>1 DEF ClosedSound
<1>4. \A c \in found : \A f \in c.members :
        /\ f \in Funcs /\ c.members = Component(graph, f)
        /\ c.recursive <=> IsRecursive(graph, f)
  BY <1>1 DEF ClosedSound
<1>5. Marked = {f \in Funcs : IsRecursive(graph, f)}
  BY <1>3, <1>4 DEF Marked
<1>6. ASSUME NEW S \in Cycles PROVE \E f \in Marked : S = Component(graph, f)
  <2>1. PICK c \in found : c.recursive /\ S = c.members
    BY DEF Cycles
  <2>2. PICK f \in c.members : TRUE
    BY <1>1 DEF ClosedSound
  <2> QED
    BY <1>4, <2>1, <2>2 DEF Marked
<1>7. ASSUME NEW f \in Marked PROVE Component(graph, f) \in Cycles
  <2>1. PICK c \in found : c.recursive /\ f \in c.members
    BY DEF Marked
  <2> QED
    BY <1>4, <2>1 DEF Cycles
<1> QED
  BY <1>5, <1>6, <1>7

LEMMA SearchStays ==
  ASSUME SearchInv, UNCHANGED <<graph, search>>
  PROVE  SearchInv'
<1>1. /\ graph' = graph /\ index' = index /\ low' = low
      /\ open' = open /\ work' = work /\ found' = found
  BY DEF search
<1>2. Opened' = Opened /\ Within' = Within /\ Closed' = Closed
  BY <1>1 DEF Opened, Within, Closed, Reached
<1>3. SearchTypes'
  BY <1>1 DEF SearchInv, SearchTypes
<1>4. InOrder'
  BY <1>1, <1>2 DEF SearchInv, InOrder, Reached
<1>5. ClosedSound'
  BY <1>1, <1>2 DEF SearchInv, ClosedSound
<1>6. CallsHandled'
  BY <1>1, <1>2 DEF SearchInv, CallsHandled, Handled, Reached
<1>7. OpenReaches'
  BY <1>1, <1>2 DEF SearchInv, OpenReaches, Carries, To
<1>8. LowSound'
  BY <1>1, <1>2 DEF SearchInv, LowSound, Carries, To, Handled
<1> QED
  BY <1>3, <1>4, <1>5, <1>6, <1>7, <1>8 DEF SearchInv

-----------------------------------------------------------------------------
(* The program                                                             *)

SearchedInv == SearchInv /\ (stage # "search" => Searched)

LEMMA SearchedAlways == Spec => []SearchedInv
<1>1. Init => SearchedInv
  <2> SUFFICES ASSUME Init PROVE SearchedInv
    OBVIOUS
  <2>1. graph \in CallGraphs /\ SearchInit /\ stage = "search"
    BY GraphsAssumption DEF Init, CallGraphs
  <2> QED
    BY <2>1, SearchStarts DEF SearchedInv
<1>2. SearchedInv /\ [Next]_vars => SearchedInv'
  <2> SUFFICES ASSUME SearchedInv, [Next]_vars PROVE SearchedInv'
    OBVIOUS
  <2>1. CASE FindRecursion
    <3>1. SearchInv'
      BY <2>1, SearchKeeps DEF SearchedInv, FindRecursion
    <3>2. stage' # "search" => Searched'
      BY <2>1 DEF FindRecursion
    <3> QED
      BY <3>1, <3>2 DEF SearchedInv
  <2>2. ASSUME UNCHANGED <<graph, search>>, stage # "search" \/ stage' = stage PROVE SearchedInv'
    <3>1. SearchInv'
      BY <2>2, SearchStays DEF SearchedInv
    <3>2. Searched' = Searched
      BY <2>2 DEF Searched, search, Reached
    <3> QED
      BY <2>2, <3>1, <3>2 DEF SearchedInv
  <2>3. CASE Measure
    BY <2>2, <2>3 DEF Measure
  <2>4. CASE \E f \in Funcs : \E s \in graph[f] : Save(s)
    BY <2>2, <2>4 DEF Save
  <2>5. CASE Enter
    BY <2>2, <2>5 DEF Enter
  <2>6. CASE Return
    BY <2>2, <2>6 DEF Return
  <2>7. CASE Exit
    BY <2>2, <2>7 DEF Exit
  <2>8. CASE Stopped \/ UNCHANGED vars
    BY <2>2, <2>8 DEF Stopped, vars
  <2> QED
    BY <2>1, <2>3, <2>4, <2>5, <2>6, <2>7, <2>8 DEF Next
<1> QED
  BY <1>1, <1>2, PTL DEF Spec

(* However the callees are ordered, the components closed are those of     *)
(* mutual reachability, and a function is marked recursive exactly when    *)
(* it can reach itself: the explicit walk of callgraph.go and isel's agree.*)
THEOREM ComponentsAreFound == Spec => []SearchesAgree
<1>1. SearchedInv => SearchesAgree
  BY SearchEnds DEF SearchedInv, SearchesAgree
<1> QED
  BY <1>1, SearchedAlways, PTL

-----------------------------------------------------------------------------
(* The running program                                                     *)

Activation == [func : Funcs, holds : Nat, calling : Funcs \cup {Nobody}]

Running == stage \in {"run", "returned", "faulted"}

(* What an activation holds is what the call it makes holds.               *)
HoldsItsShare(g, a) ==
  IF a.calling = Nobody THEN a.holds = Prologue(g, a.func)
  ELSE \E c \in g[a.func] : c.callee = a.calling /\ a.holds = Held(g, a.func, c)

(* Each activation but the last has called the next.                       *)
Calls(g, s) ==
  /\ s \in Seq(Activation) /\ Len(s) >= 1 /\ s[1].func = Entry
  /\ \A i \in 1..Len(s) : i < Len(s) => s[i].calling = s[i + 1].func
  /\ \A i \in 1..Len(s) : HoldsItsShare(g, s[i])

RunInv ==
  /\ stage \in {"search", "measure", "run", "returned", "faulted"}
  /\ Running =>
       /\ left \in Nat
       /\ reports = Reports(graph, Cycles, left)
       /\ refused = (TooDeep(graph, left) \/ \E r \in reports : r.kind = "refused")
       /\ Calls(graph, stack)
       /\ IF stage = "faulted" THEN HeldBy(stack) > left ELSE HeldBy(stack) <= left

SumUpTo(s, n, f) == f = [i \in 0..n |-> IF i = 0 THEN 0 ELSE f[i - 1] + s[i].holds]

(* The activations' shares add up.                                         *)
LEMMA HeldSteps ==
  ASSUME NEW s \in Seq(Activation)
  PROVE  /\ HeldUpTo(s, 0) = 0
         /\ \A n \in 0..Len(s) : HeldUpTo(s, n) \in Nat
         /\ \A n \in 1..Len(s) : HeldUpTo(s, n) = HeldUpTo(s, n - 1) + s[n].holds
<1> DEFINE t == [i \in 1..Len(s) |-> s[i].holds]
<1>0. Len(s) \in Nat /\ \A i \in 1..Len(s) : s[i] \in Activation
  OBVIOUS
<1>1. Len(s) \in Nat /\ \A i \in 1..Len(s) : s[i].holds \in Nat
  BY <1>0 DEF Activation
<1>2. t \in Seq(Nat) /\ Len(t) = Len(s)
  <2>1. t \in [1..Len(s) -> Nat]
    BY <1>1
  <2> HIDE DEF t
  <2> QED
    BY <1>1, <2>1
<1>3. \A i \in 1..Len(s) : t[i] = s[i].holds
  OBVIOUS
<1> HIDE DEF t
<1>4. /\ Facts!SumFirst(t, 0) = 0
      /\ \A n \in 0..Len(s) : Facts!SumFirst(t, n) \in Nat
      /\ \A n \in 1..Len(s) : Facts!SumFirst(t, n) = Facts!SumFirst(t, n - 1) + s[n].holds
  BY <1>2, <1>3, Facts!SumFirstSteps
<1>5. ASSUME NEW n \in 0..Len(s) PROVE HeldUpTo(s, n) = Facts!SumFirst(t, n)
  <2> DEFINE h == [i \in 0..n |-> Facts!SumFirst(t, i)]
             f == CHOOSE e : SumUpTo(s, n, e)
  <2>1. n \in Nat /\ n <= Len(s)
    BY <1>1
  <2>2. SumUpTo(s, n, h)
    <3>1. \A i \in 0..n : h[i] = IF i = 0 THEN 0 ELSE h[i - 1] + s[i].holds
      <4>0. 0 \in 0..n /\ h[0] = 0 /\ \A i \in 0..n : i # 0 => i \in 1..n
        BY <1>4, <2>1
      <4> SUFFICES ASSUME NEW i \in 1..n PROVE h[i] = h[i - 1] + s[i].holds
        BY <4>0
      <4>1. i \in 1..Len(s) /\ i \in 0..n /\ i - 1 \in 0..n
        BY <2>1
      <4> QED
        BY <1>4, <4>1
    <3> QED
      BY <3>1 DEF SumUpTo
  <2>3. SumUpTo(s, n, f)
    <3> HIDE DEF h
    <3> QED
      BY <2>2
  <2>4. HeldUpTo(s, n) = f[n]
    BY DEF HeldUpTo, SumUpTo
  <2> HIDE DEF f, h
  <2>5. f[0] = 0 /\ \A i \in 1..n : f[i] = f[i - 1] + s[i].holds
    BY <2>1, <2>3 DEF SumUpTo
  <2> DEFINE g == [i \in 0..n |-> Facts!SumFirst(t, i)]
  <2>6. f[0] = g[0] /\ \A i \in 1..n : f[i - 1] = g[i - 1] => f[i] = g[i]
    <3>1. \A i \in 1..n : i \in 1..Len(s) /\ i \in 0..n /\ i - 1 \in 0..n
      BY <2>1
    <3> QED
      BY <1>4, <2>1, <2>5, <3>1
  <2> HIDE DEF g
  <2>7. \A i \in 0..n : f[i] = g[i]
    BY <2>1, <2>6, Facts!StepAlike
  <2> QED
    BY <2>1, <2>4, <2>7 DEF g
<1>6. 0 \in 0..Len(s) /\ \A n \in 1..Len(s) : n \in 0..Len(s) /\ n - 1 \in 0..Len(s)
  BY <1>1
<1> QED
  BY <1>4, <1>5, <1>6

(* They add up alike in two stacks that begin alike.                       *)
LEMMA HeldAlike ==
  ASSUME NEW s \in Seq(Activation), NEW t \in Seq(Activation), NEW n \in Nat,
         n <= Len(s), n <= Len(t), \A i \in 1..n : s[i] = t[i]
  PROVE  HeldUpTo(s, n) = HeldUpTo(t, n)
<1> DEFINE f == [i \in 0..n |-> HeldUpTo(s, i)]
           g == [i \in 0..n |-> HeldUpTo(t, i)]
<1>1. f[0] = g[0]
  BY HeldSteps
<1>2. \A i \in 1..n : f[i - 1] = g[i - 1] => f[i] = g[i]
  <2> SUFFICES ASSUME NEW i \in 1..n, f[i - 1] = g[i - 1] PROVE f[i] = g[i]
    OBVIOUS
  <2>1. i \in 0..n /\ i - 1 \in 0..n /\ i \in 1..Len(s) /\ i \in 1..Len(t)
    OBVIOUS
  <2> QED
    BY <2>1, HeldSteps
<1> HIDE DEF f, g
<1>3. \A i \in 0..n : f[i] = g[i]
  BY <1>1, <1>2, Facts!StepAlike, ZenonT(60)
<1> QED
  BY <1>3 DEF f, g

(* What a stack holds once its last activation changes, or another enters. *)
LEMMA HeldAfter ==
  ASSUME NEW s \in Seq(Activation), NEW a \in Activation
  PROVE  /\ HeldBy(Append(s, a)) = HeldBy(s) + a.holds
         /\ \A n \in 1..Len(s) :
              LET t == [SubSeq(s, 1, n) EXCEPT ![n] = a]
              IN  /\ t \in Seq(Activation) /\ Len(t) = n /\ t[n] = a
                  /\ \A i \in 1..(n - 1) : t[i] = s[i]
                  /\ HeldBy(t) = HeldUpTo(s, n - 1) + a.holds
<1>0. Len(s) \in Nat /\ \A i \in 1..Len(s) : s[i] \in Activation
  OBVIOUS
<1>1. HeldBy(Append(s, a)) = HeldBy(s) + a.holds
  <2> DEFINE t == Append(s, a)
  <2>1. t \in Seq(Activation) /\ Len(t) = Len(s) + 1 /\ t[Len(s) + 1] = a
        /\ \A i \in 1..Len(s) : t[i] = s[i]
    BY <1>0
  <2> HIDE DEF t
  <2>2. HeldUpTo(t, Len(s)) = HeldUpTo(s, Len(s))
    BY <1>0, <2>1, HeldAlike
  <2>3. Len(s) + 1 \in 1..Len(t) /\ (Len(s) + 1) - 1 = Len(s)
    BY <1>0, <2>1
  <2>4. HeldUpTo(t, Len(s) + 1) = HeldUpTo(t, Len(s)) + a.holds
    BY <2>1, <2>3, HeldSteps
  <2> QED
    BY <2>1, <2>2, <2>4 DEF HeldBy, t
<1>2. ASSUME NEW n \in 1..Len(s), NEW t, t = [SubSeq(s, 1, n) EXCEPT ![n] = a]
      PROVE  /\ t \in Seq(Activation) /\ Len(t) = n /\ t[n] = a
             /\ \A i \in 1..(n - 1) : t[i] = s[i]
             /\ HeldBy(t) = HeldUpTo(s, n - 1) + a.holds
  <2> DEFINE p == SubSeq(s, 1, n)
  <2>1. p \in Seq(Activation) /\ Len(p) = n /\ \A i \in 1..n : p[i] = s[i]
    <3>1. \A i \in 1..n : s[i] \in Activation
      BY <1>0
    <3>2. n \in Int /\ 1 \in Int /\ 1 <= n /\ n - 1 + 1 = n /\ \A i \in 1..n : 1 + i - 1 = i
      BY <1>0
    <3> QED
      BY <3>1, <3>2, SubSeqProperties
  <2>2. t = [p EXCEPT ![n] = a] /\ n \in 1..n
    BY <1>2
  <2> HIDE DEF p
  <2>3. t \in Seq(Activation) /\ Len(t) = n /\ t[n] = a /\ \A i \in 1..(n - 1) : t[i] = s[i]
    BY <2>1, <2>2
  <2>4. n - 1 \in Nat /\ n - 1 <= Len(s) /\ n - 1 <= Len(t) /\ n \in 1..Len(t)
    BY <1>0, <2>3
  <2>5. HeldUpTo(t, n - 1) = HeldUpTo(s, n - 1)
    BY <2>3, <2>4, HeldAlike
  <2>6. HeldUpTo(t, n) = HeldUpTo(t, n - 1) + a.holds
    BY <2>3, <2>4, HeldSteps
  <2> QED
    BY <2>3, <2>5, <2>6 DEF HeldBy
<1> QED
  BY <1>1, <1>2

(* The shares of activations, by the graph's calls.                        *)
LEMMA Shares ==
  ASSUME NEW g \in CallGraphs, NEW f \in Funcs
  PROVE  /\ Prologue(g, f) \in 0..1 /\ (f = Entry => Prologue(g, f) = 0)
         /\ \A c \in g[f] : /\ c.callee \in Funcs /\ c.callee \in Callees(g, f)
                            /\ c.saves \in Nat
                            /\ Held(g, f, c) \in Nat /\ Held(g, f, c) = Prologue(g, f) + c.saves
         /\ Nobody \notin Funcs
<1>1. Prologue(g, f) \in 0..1 /\ (f = Entry => Prologue(g, f) = 0)
  BY DEF Prologue
<1>2. ASSUME NEW c \in g[f]
      PROVE  /\ c.callee \in Funcs /\ c.callee \in Callees(g, f) /\ c.saves \in Nat
             /\ Held(g, f, c) \in Nat /\ Held(g, f, c) = Prologue(g, f) + c.saves
  <2>1. c \in Site
    BY DEF CallGraphs
  <2> QED
    BY <1>1, <2>1 DEF Site, Held, Callees
<1>3. Nobody \notin Funcs
  BY GraphsAssumption DEF Nobody
<1> QED
  BY <1>1, <1>2, <1>3

(* An activation's share covers its return address.                        *)
LEMMA ShareCoversPrologue ==
  ASSUME NEW g \in CallGraphs, NEW a \in Activation, HoldsItsShare(g, a)
  PROVE  a.func \in Funcs /\ a.holds \in Nat /\ a.holds >= Prologue(g, a.func)
<1>1. a.func \in Funcs /\ a.holds \in Nat
  BY DEF Activation
<1>2. CASE a.calling = Nobody
  BY <1>1, <1>2, Shares DEF HoldsItsShare
<1>3. CASE a.calling # Nobody
  <2>1. PICK c \in g[a.func] : a.holds = Held(g, a.func, c)
    BY <1>3 DEF HoldsItsShare
  <2> QED
    BY <1>1, <2>1, Shares
<1> QED
  BY <1>1, <1>2, <1>3

LEMMA Enterings ==
  ASSUME graph \in CallGraphs, NEW f \in Funcs
  PROVE  /\ Entering(f) \in Activation /\ Entering(f).func = f
         /\ Entering(f).holds = Prologue(graph, f) /\ Entering(f).calling = Nobody
         /\ HoldsItsShare(graph, Entering(f))
BY Shares DEF Entering, Activation, HoldsItsShare

(* The chain of calls after its last activation changes, or another enters.*)
LEMMA CallsAfterChange ==
  ASSUME NEW g, NEW s, Calls(g, s), NEW n \in 1..Len(s), NEW t \in Seq(Activation),
         Len(t) = n, \A i \in 1..(n - 1) : t[i] = s[i],
         t[n].func = s[n].func, HoldsItsShare(g, t[n])
  PROVE  Calls(g, t)
<1>0. Len(s) \in Nat
  BY DEF Calls
<1>1. \A i \in 1..n : i \in 1..Len(s) /\ t[i].func = s[i].func
  BY <1>0
<1>2. \A i \in 1..n : HoldsItsShare(g, t[i])
  <2> SUFFICES ASSUME NEW i \in 1..n, i # n PROVE HoldsItsShare(g, t[i])
    OBVIOUS
  <2>1. i \in 1..(n - 1) /\ i \in 1..Len(s)
    BY <1>0
  <2> QED
    BY <2>1 DEF Calls
<1>3. ASSUME NEW i \in 1..n, i < n PROVE t[i].calling = t[i + 1].func
  <2>1. i \in 1..(n - 1) /\ i \in 1..Len(s) /\ i < Len(s) /\ i + 1 \in 1..n
    BY <1>0, <1>3
  <2>2. t[i].calling = s[i + 1].func
    BY <2>1 DEF Calls
  <2> QED
    BY <1>1, <2>1, <2>2
<1>4. 1 \in 1..n /\ n >= 1
  BY <1>0
<1> QED
  BY <1>1, <1>2, <1>3, <1>4 DEF Calls

LEMMA CallsAfterEntry ==
  ASSUME NEW g, NEW s, Calls(g, s), NEW a \in Activation, s[Len(s)].calling = a.func,
         HoldsItsShare(g, a)
  PROVE  Calls(g, Append(s, a))
<1> DEFINE t == Append(s, a)
<1>0. Len(s) \in Nat /\ Len(s) >= 1 /\ s \in Seq(Activation)
  BY DEF Calls
<1>1. t \in Seq(Activation) /\ Len(t) = Len(s) + 1 /\ t[Len(s) + 1] = a
      /\ \A i \in 1..Len(s) : t[i] = s[i]
  BY <1>0
<1> HIDE DEF t
<1>2. ASSUME NEW i \in 1..Len(t)
      PROVE  HoldsItsShare(g, t[i]) /\ (i < Len(t) => t[i].calling = t[i + 1].func)
  <2>1. CASE i = Len(s) + 1
    BY <1>0, <1>1, <2>1
  <2>2. CASE i = Len(s)
    BY <1>0, <1>1, <2>2 DEF Calls
  <2>3. CASE i < Len(s)
    <3>1. i \in 1..Len(s) /\ i + 1 \in 1..Len(s)
      BY <1>0, <2>3
    <3> QED
      BY <1>1, <2>3, <3>1 DEF Calls
  <2> QED
    BY <1>0, <1>1, <2>1, <2>2, <2>3
<1>3. t[1].func = Entry /\ Len(t) >= 1
  BY <1>0, <1>1 DEF Calls
<1> QED
  BY <1>1, <1>2, <1>3 DEF Calls, t

(* The facts a step of the running program starts from.                    *)
LEMMA AtTop ==
  ASSUME SearchedInv, RunInv, stage = "run"
  PROVE  /\ graph \in CallGraphs /\ left \in Nat /\ Calls(graph, stack)
         /\ Len(stack) \in 1..Len(stack) /\ Len(stack) \in Nat /\ stack \in Seq(Activation)
         /\ Top = stack[Len(stack)]
         /\ \A i \in 1..Len(stack) : /\ stack[i] \in Activation /\ stack[i].func \in Funcs
                                     /\ HoldsItsShare(graph, stack[i])
                                     /\ stack[i].holds \in Nat
                                     /\ stack[i].holds >= Prologue(graph, stack[i].func)
         /\ HeldBy(stack) <= left
<1>1. graph \in CallGraphs /\ left \in Nat /\ Calls(graph, stack) /\ HeldBy(stack) <= left
  BY DEF SearchedInv, SearchInv, SearchTypes, RunInv, Running
<1>2. stack \in Seq(Activation) /\ Len(stack) \in Nat /\ Len(stack) >= 1
      /\ \A i \in 1..Len(stack) : HoldsItsShare(graph, stack[i])
  BY <1>1 DEF Calls
<1>3. \A i \in 1..Len(stack) : stack[i] \in Activation
  BY <1>2
<1>4. \A i \in 1..Len(stack) : /\ stack[i].func \in Funcs /\ stack[i].holds \in Nat
                               /\ stack[i].holds >= Prologue(graph, stack[i].func)
  BY <1>1, <1>2, <1>3, ShareCoversPrologue
<1> QED
  BY <1>1, <1>2, <1>3, <1>4 DEF Top

(* A push leaves a chain of calls, and faults exactly past the last slot.  *)
LEMMA PushKeeps ==
  ASSUME SearchedInv, RunInv, stage = "run", NEW s, Calls(graph, s), HeldBy(s) \in Nat,
         Reaching(s), UNCHANGED <<graph, search, verdict>>
  PROVE  RunInv'
<1>1. graph' = graph /\ found' = found /\ left' = left /\ reports' = reports
      /\ refused' = refused /\ stack' = s
  BY DEF search, verdict, Reaching
<1>2. stage' = (IF HeldBy(s) <= left THEN "run" ELSE "faulted")
  BY DEF Reaching, Fits
<1>3. /\ left \in Nat /\ reports = Reports(graph, Cycles, left)
      /\ refused = (TooDeep(graph, left) \/ \E r \in reports : r.kind = "refused")
  BY DEF RunInv, Running
<1>4. Cycles' = Cycles
  BY <1>1 DEF Cycles
<1>5. Calls(graph', stack')
  BY <1>1
<1>6. HeldBy(stack') = HeldBy(s)
  BY <1>1
<1>7. IF stage' = "faulted" THEN HeldBy(stack') > left ELSE HeldBy(stack') <= left
  BY <1>2, <1>3, <1>6
<1>8. stage' \in {"search", "measure", "run", "returned", "faulted"}
  BY <1>2
<1> QED
  BY <1>1, <1>3, <1>4, <1>5, <1>7, <1>8 DEF RunInv, Running

LEMMA SaveKeeps ==
  ASSUME SearchedInv, RunInv, NEW f \in Funcs, NEW s \in graph[f], Save(s)
  PROVE  RunInv'
<1> DEFINE L == Len(stack)
           a == [func |-> Top.func, holds |-> Top.holds + s.saves, calling |-> s.callee]
<1>0. stage = "run" /\ Top.calling = Nobody /\ s \in graph[Top.func]
  BY DEF Save
<1>1. /\ graph \in CallGraphs /\ Calls(graph, stack) /\ L \in 1..Len(stack) /\ L \in Nat
      /\ stack \in Seq(Activation) /\ Top = stack[L] /\ Top \in Activation /\ Top.func \in Funcs
      /\ HoldsItsShare(graph, Top) /\ Top.holds \in Nat
  BY <1>0, AtTop
<1>2. Top.holds = Prologue(graph, Top.func)
  BY <1>0, <1>1 DEF HoldsItsShare
<1>3. s.callee \in Funcs /\ s.saves \in Nat /\ Top.holds + s.saves = Held(graph, Top.func, s)
      /\ s.callee # Nobody
  BY <1>0, <1>1, <1>2, Shares
<1>4. a \in Activation /\ a.func = stack[L].func
  BY <1>1, <1>3 DEF Activation
<1>5. HoldsItsShare(graph, a)
  <2>1. a.calling = s.callee /\ a.func = Top.func /\ a.holds = Held(graph, Top.func, s)
    BY <1>3
  <2> HIDE DEF a
  <2> QED
    BY <1>0, <1>3, <2>1 DEF HoldsItsShare
<1>6. [stack EXCEPT ![Len(stack)].holds = @ + s.saves, ![Len(stack)].calling = s.callee]
      = [SubSeq(stack, 1, L) EXCEPT ![L] = a]
  <2>1. SubSeq(stack, 1, L) = stack
    <3>1. \A i \in 1..L : stack[i] \in Activation
      BY <1>1
    <3>2. 1 \in Int /\ L \in Int
      BY <1>1
    <3>3. SubSeq(stack, 1, L) = [i \in 1..L |-> stack[i]]
      <4>1. L - 1 + 1 = L
        BY <1>1
      <4>2. \A i \in 1..L : 1 + i - 1 = i /\ i + 1 - 1 = i
        BY <1>1
      <4> QED
        BY <1>1, <4>1, <4>2
    <3> QED
      BY <1>1, <3>3
  <2>2. [Top EXCEPT !.holds = @ + s.saves, !.calling = s.callee] = a
    <3>1. ASSUME NEW x \in Activation, NEW h \in Nat, NEW c
          PROVE  [x EXCEPT !.holds = x.holds + h, !.calling = c]
                 = [func |-> x.func, holds |-> x.holds + h, calling |-> c]
      <4>1. PICK y : y = [x EXCEPT !.holds = x.holds + h]
        OBVIOUS
      <4>2. y = [func |-> x.func, holds |-> x.holds + h, calling |-> x.calling]
        BY <4>1 DEF Activation
      <4>3. [y EXCEPT !.calling = c] = [func |-> x.func, holds |-> x.holds + h, calling |-> c]
        BY <4>2
      <4> QED
        BY <4>1, <4>3
    <3> QED
      BY <1>1, <1>3, <3>1
  <2>3. [stack EXCEPT ![L].holds = @ + s.saves, ![L].calling = s.callee]
        = [stack EXCEPT ![L] = [Top EXCEPT !.holds = @ + s.saves, !.calling = s.callee]]
    BY <1>1 DEF Activation
  <2> QED
    BY <2>1, <2>2, <2>3
<1> HIDE DEF a
<1>7. PICK t : t = [SubSeq(stack, 1, L) EXCEPT ![L] = a]
  OBVIOUS
<1>8. /\ t \in Seq(Activation) /\ Len(t) = L /\ t[L] = a
      /\ \A i \in 1..(L - 1) : t[i] = stack[i]
      /\ HeldBy(t) = HeldUpTo(stack, L - 1) + a.holds
  BY <1>1, <1>4, <1>7, HeldAfter
<1>9. Calls(graph, t)
  BY <1>1, <1>4, <1>5, <1>8, CallsAfterChange
<1>10. HeldBy(t) \in Nat
  BY <1>8, HeldSteps DEF HeldBy
<1>11. Reaching(t)
  BY <1>6, <1>7 DEF Save
<1> QED
  BY <1>0, <1>9, <1>10, <1>11, PushKeeps DEF Save

LEMMA EnterKeeps ==
  ASSUME SearchedInv, RunInv, Enter
  PROVE  RunInv'
<1>0. stage = "run" /\ Top.calling # Nobody
  BY DEF Enter
<1>1. /\ graph \in CallGraphs /\ Calls(graph, stack) /\ Len(stack) \in 1..Len(stack)
      /\ stack \in Seq(Activation) /\ Top = stack[Len(stack)] /\ Top \in Activation
  BY <1>0, AtTop
<1>2. Top.calling \in Funcs
  BY <1>0, <1>1 DEF Activation
<1>3. PICK a : a = Entering(Top.calling)
  OBVIOUS
<1>4. a \in Activation /\ a.func = Top.calling /\ HoldsItsShare(graph, a)
  BY <1>1, <1>2, <1>3, Enterings
<1>5. PICK t : t = Append(stack, a)
  OBVIOUS
<1>6. Calls(graph, t)
  BY <1>1, <1>4, <1>5, CallsAfterEntry
<1>7. HeldBy(t) \in Nat
  <2>1. t \in Seq(Activation) /\ Len(t) \in 0..Len(t)
    BY <1>6 DEF Calls
  <2> QED
    BY <2>1, HeldSteps DEF HeldBy
<1>8. Reaching(t)
  BY <1>3, <1>5 DEF Enter
<1> QED
  BY <1>0, <1>6, <1>7, <1>8, PushKeeps DEF Enter

LEMMA ReturnKeeps ==
  ASSUME SearchedInv, RunInv, Return
  PROVE  RunInv'
<1>0. stage = "run" /\ Len(stack) > 1 /\ stage' = stage
      /\ graph' = graph /\ found' = found /\ left' = left /\ reports' = reports
      /\ refused' = refused
  BY DEF Return, search, verdict
<1>1. PICK n, a : n = Len(stack) - 1 /\ a = Entering(stack[n].func)
  OBVIOUS
<1>2. /\ graph \in CallGraphs /\ Calls(graph, stack) /\ Len(stack) \in Nat
      /\ stack \in Seq(Activation) /\ left \in Nat /\ HeldBy(stack) <= left
      /\ \A i \in 1..Len(stack) : /\ stack[i] \in Activation /\ stack[i].func \in Funcs
                                  /\ stack[i].holds \in Nat
                                  /\ stack[i].holds >= Prologue(graph, stack[i].func)
  BY <1>0, AtTop
<1>3. n \in 1..Len(stack) /\ n \in Nat /\ n + 1 = Len(stack) /\ n - 1 \in 0..Len(stack)
      /\ n + 1 \in 1..Len(stack) /\ n \in 0..Len(stack)
  BY <1>0, <1>1, <1>2
<1>4. a \in Activation /\ a.func = stack[n].func /\ HoldsItsShare(graph, a)
      /\ a.holds = Prologue(graph, stack[n].func) /\ a.holds \in Nat
  <2>1. stack[n].func \in Funcs
    BY <1>2, <1>3
  <2> QED
    BY <1>1, <1>2, <2>1, Enterings, Shares
<1>5. stack' = [SubSeq(stack, 1, n) EXCEPT ![n] = a]
  BY <1>1 DEF Return
<1>6. PICK t : t = [SubSeq(stack, 1, n) EXCEPT ![n] = a]
  OBVIOUS
<1>7. /\ t \in Seq(Activation) /\ Len(t) = n /\ t[n] = a
      /\ \A i \in 1..(n - 1) : t[i] = stack[i]
      /\ HeldBy(t) = HeldUpTo(stack, n - 1) + a.holds
  BY <1>2, <1>3, <1>4, <1>6, HeldAfter
<1>8. Calls(graph, t)
  BY <1>2, <1>3, <1>4, <1>7, CallsAfterChange
<1>9. HeldBy(t) <= left
  <2>1. /\ HeldUpTo(stack, n) = HeldUpTo(stack, n - 1) + stack[n].holds
        /\ HeldUpTo(stack, n + 1) = HeldUpTo(stack, n) + stack[n + 1].holds
        /\ HeldUpTo(stack, n - 1) \in Nat /\ HeldUpTo(stack, n) \in Nat
    <3>1. (n + 1) - 1 = n
      BY <1>3
    <3> QED
      BY <1>2, <1>3, <3>1, HeldSteps
  <2>2. HeldBy(stack) = HeldUpTo(stack, n + 1)
    BY <1>3 DEF HeldBy
  <2>3. stack[n].holds >= a.holds /\ stack[n].holds \in Nat /\ stack[n + 1].holds \in Nat
    BY <1>2, <1>3, <1>4
  <2>4. PICK before, own, next, less, all :
          /\ before = HeldUpTo(stack, n - 1) /\ own = stack[n].holds /\ next = stack[n + 1].holds
          /\ less = a.holds /\ all = HeldBy(stack)
    OBVIOUS
  <2>5. /\ before \in Nat /\ own \in Nat /\ next \in Nat /\ less \in Int /\ less <= own
        /\ all = before + own + next
    BY <1>4, <2>1, <2>2, <2>3, <2>4 DEF Activation
  <2>6. all <= left /\ left \in Nat /\ HeldBy(t) = before + less
    BY <1>2, <1>7, <2>4
  <2> QED
    BY <2>5, <2>6
<1>10. Cycles' = Cycles
  BY <1>0 DEF Cycles
<1>11. stack' = t
  BY <1>5, <1>6
<1>12. Calls(graph', stack') /\ HeldBy(stack') <= left
  BY <1>0, <1>8, <1>9, <1>11
<1> QED
  BY <1>0, <1>10, <1>12 DEF RunInv, Running

LEMMA MeasureKeeps ==
  ASSUME SearchedInv, Measure
  PROVE  RunInv'
<1>1. /\ left' \in Nat /\ stage' = "run" /\ graph' = graph /\ found' = found
      /\ reports' = Reports(graph, Cycles, left')
      /\ refused' = (TooDeep(graph, left') \/ \E r \in reports' : r.kind = "refused")
      /\ stack' = <<Entering(Entry)>>
  BY GraphsAssumption DEF Measure, search
<1>2. graph \in CallGraphs /\ Cycles' = Cycles
  BY <1>1 DEF SearchedInv, SearchInv, SearchTypes, Cycles
<1>3. PICK a : a = Entering(Entry)
  OBVIOUS
<1>4. /\ a \in Activation /\ a.func = Entry /\ a.holds = 0 /\ HoldsItsShare(graph, a)
  BY <1>2, <1>3, Enterings, Shares, FuncsAssumption
<1>5. PICK s : s = <<a>>
  OBVIOUS
<1>6. s \in Seq(Activation) /\ Len(s) = 1 /\ s[1] = a
  BY <1>4, <1>5
<1>7. Calls(graph, s)
  BY <1>4, <1>6 DEF Calls
<1>8. HeldBy(s) = 0
  <2>1. 0 \in 0..Len(s) /\ 1 \in 1..Len(s) /\ 1 - 1 = 0
    BY <1>6
  <2>2. HeldUpTo(s, 0) = 0 /\ HeldUpTo(s, 1) = HeldUpTo(s, 0) + s[1].holds
    BY <1>6, <2>1, HeldSteps
  <2> QED
    BY <1>4, <1>6, <2>2 DEF HeldBy
<1>9. stack' = s
  BY <1>1, <1>3, <1>5
<1>10. Calls(graph', stack') /\ HeldBy(stack') = 0
  BY <1>1, <1>7, <1>8, <1>9
<1> QED
  BY <1>1, <1>2, <1>10 DEF RunInv, Running

(* The activations of a running program are a chain of calls from the      *)
(* entry point; they hold no more than is left until the push that faults. *)
THEOREM RunAlways == Spec => [](SearchedInv /\ RunInv)
<1>1. Init => RunInv
  BY DEF Init, RunInv, Running
<1>2. SearchedInv /\ RunInv /\ [Next]_vars => RunInv'
  <2> SUFFICES ASSUME SearchedInv, RunInv, [Next]_vars PROVE RunInv'
    OBVIOUS
  <2>1. CASE FindRecursion
    BY <2>1 DEF FindRecursion, RunInv, Running
  <2>2. CASE Measure
    BY <2>2, MeasureKeeps
  <2>3. CASE \E f \in Funcs : \E s \in graph[f] : Save(s)
    BY <2>3, SaveKeeps
  <2>4. CASE Enter
    BY <2>4, EnterKeeps
  <2>5. CASE Return
    BY <2>5, ReturnKeeps
  <2>6. CASE Exit
    BY <2>6 DEF Exit, RunInv, Running, Cycles, search, verdict
  <2>7. CASE Stopped \/ UNCHANGED vars
    BY <2>7 DEF Stopped, vars, RunInv, Running, Cycles, search, verdict
  <2> QED
    BY <2>1, <2>2, <2>3, <2>4, <2>5, <2>6, <2>7 DEF Next
<1> QED
  BY <1>1, <1>2, SearchedAlways, PTL DEF Spec

(* A chain of calls enters only what lies below each of its activations.   *)
LEMMA ChainDescends ==
  ASSUME NEW g \in CallGraphs, NEW s, Calls(g, s)
  PROVE  /\ Len(s) \in Nat
         /\ \A i \in 1..Len(s) :
              /\ s[i].func \in Funcs /\ s[i] \in Activation
              /\ s[i].calling # Nobody => s[i].calling \in Callees(g, s[i].func)
         /\ \A i, j \in 1..Len(s) : i < j => s[j].func \in Below(g, s[i].func)
<1>0. s \in Seq(Activation) /\ Len(s) \in Nat /\ \A i \in 1..Len(s) : s[i] \in Activation
  BY DEF Calls
<1>1. \A i \in 1..Len(s) : s[i].func \in Funcs
  BY <1>0 DEF Activation
<1>2. \A i \in 1..Len(s) : s[i].calling # Nobody => s[i].calling \in Callees(g, s[i].func)
  <2> SUFFICES ASSUME NEW i \in 1..Len(s), s[i].calling # Nobody
               PROVE  s[i].calling \in Callees(g, s[i].func)
    OBVIOUS
  <2>1. HoldsItsShare(g, s[i])
    BY DEF Calls
  <2> QED
    BY <2>1 DEF HoldsItsShare, Callees
<1>3. \A i \in 1..Len(s) : i < Len(s) =>
        i + 1 \in 1..Len(s) /\ s[i + 1].func \in Callees(g, s[i].func)
  <2> SUFFICES ASSUME NEW i \in 1..Len(s), i < Len(s)
               PROVE  i + 1 \in 1..Len(s) /\ s[i + 1].func \in Callees(g, s[i].func)
    OBVIOUS
  <2>1. i + 1 \in 1..Len(s) /\ s[i].calling = s[i + 1].func
    BY <1>0 DEF Calls
  <2>2. s[i + 1].func # Nobody
    BY <1>1, <2>1, Shares
  <2> QED
    BY <1>2, <2>1, <2>2
<1> DEFINE D == {d \in Nat : \A i \in 1..Len(s) : i + 1 + d <= Len(s) =>
                               s[i + 1 + d].func \in Below(g, s[i].func)}
<1>4. 0 \in D
  <2>1. \A i \in 1..Len(s) : i + 1 + 0 = i + 1 /\ (i + 1 <= Len(s) => i < Len(s))
    BY <1>0
  <2> QED
    BY <1>1, <1>3, <2>1, BelowIsLeast
<1>5. ASSUME NEW d \in Nat, d \in D PROVE d + 1 \in D
  <2> SUFFICES ASSUME NEW i \in 1..Len(s), i + 1 + (d + 1) <= Len(s)
               PROVE  s[i + 1 + (d + 1)].func \in Below(g, s[i].func)
    OBVIOUS
  <2>1. i + 1 + d \in 1..Len(s) /\ i + 1 + d < Len(s) /\ (i + 1 + d) + 1 = i + 1 + (d + 1)
    BY <1>0
  <2>2. s[i + 1 + d].func \in Below(g, s[i].func)
    BY <1>0, <1>5, <2>1
  <2> QED
    BY <1>1, <1>3, <2>1, <2>2, BelowIsLeast
<1> HIDE DEF D
<1>6. \A d \in Nat : d \in D
  BY <1>4, <1>5, Facts!Induction
<1>7. ASSUME NEW i \in 1..Len(s), NEW j \in 1..Len(s), i < j
      PROVE  s[j].func \in Below(g, s[i].func)
  <2>1. PICK d \in Nat : i + 1 + d = j
    <3>1. j - i - 1 \in Nat /\ i + 1 + (j - i - 1) = j
      BY <1>0, <1>7
    <3> QED
      BY <3>1
  <2>2. j <= Len(s) /\ d \in D
    BY <1>0, <1>6
  <2>3. s[i + 1 + d].func \in Below(g, s[i].func)
    BY <2>1, <2>2 DEF D
  <2> QED
    BY <2>1, <2>3
<1> QED
  BY <1>0, <1>1, <1>2, <1>7

LEMMA ReportNames ==
  ASSUME NEW g, NEW cycle, NEW n
  PROVE  Report(g, cycle, n).cycle = cycle
BY DEF Report

(* Every recursion the program can reach is reported.                      *)
LEMMA ReportOfEach ==
  ASSUME SearchedInv, RunInv, Running, NEW f \in Funcs, IsRecursive(graph, f),
         f = Entry \/ f \in Below(graph, Entry)
  PROVE  /\ Component(graph, f) \in Cycles
         /\ \E r \in reports : r = Report(graph, Component(graph, f), left)
<1>1. Searched /\ SearchInv
  BY DEF SearchedInv, Running
<1>2. f \in Marked /\ Component(graph, f) \in Cycles
  BY <1>1, SearchEnds
<1>3. f \in Component(graph, f) \cap Reachable(graph)
  BY DEF Component, Reachable
<1>4. reports = Reports(graph, Cycles, left)
  BY DEF RunInv
<1> QED
  BY <1>2, <1>3, <1>4 DEF Reports

(* Whatever is activated twice at once has been reported, with everything  *)
(* active in between, as one recursion: no run of the compiled program     *)
(* recurses without a report of frames.Measure, however it branches.       *)
THEOREM EachRecursionIsReported == Spec => []RecursionReported
<1>1. SearchedInv /\ RunInv => RecursionReported
  <2> SUFFICES ASSUME SearchedInv, RunInv, Running,
                      NEW i \in DOMAIN stack, NEW j \in DOMAIN stack,
                      i < j, stack[i].func = stack[j].func
               PROVE  \E r \in reports : {stack[k].func : k \in i..j} \subseteq r.cycle
    BY DEF RecursionReported, Running
  <2>1. graph \in CallGraphs /\ Calls(graph, stack)
    BY DEF SearchedInv, SearchInv, SearchTypes, RunInv
  <2>2. /\ Len(stack) \in Nat /\ DOMAIN stack = 1..Len(stack)
        /\ \A k \in 1..Len(stack) : stack[k].func \in Funcs
        /\ \A k, m \in 1..Len(stack) : k < m => stack[m].func \in Below(graph, stack[k].func)
        /\ stack[1].func = Entry
    BY <2>1, ChainDescends DEF Calls
  <2>3. PICK f \in Funcs : f = stack[i].func
    BY <2>2
  <2>4. IsRecursive(graph, f)
    BY <2>2, <2>3 DEF IsRecursive
  <2>5. f \in Below(graph, Entry)
    <3>1. 1 \in 1..Len(stack) /\ 1 < j
      BY <2>2
    <3> QED
      BY <2>2, <2>3, <3>1
  <2>6. PICK r \in reports : r = Report(graph, Component(graph, f), left)
    BY <2>4, <2>5, ReportOfEach
  <2>7. r.cycle = Component(graph, f)
    BY <2>6, ReportNames
  <2>8. ASSUME NEW k \in i..j PROVE stack[k].func \in Component(graph, f)
    <3>1. k \in 1..Len(stack)
      BY <2>2
    <3>2. CASE k = i \/ k = j
      BY <2>3, <3>2 DEF Component
    <3>3. CASE i < k /\ k < j
      <4>1. stack[k].func \in Below(graph, f) /\ f \in Below(graph, stack[k].func)
        BY <2>2, <2>3, <3>1, <3>3
      <4> QED
        BY <2>2, <3>1, <4>1 DEF Component
    <3> QED
      BY <2>2, <3>1, <3>2, <3>3
  <2> QED
    BY <2>7, <2>8
<1> QED
  BY <1>1, RunAlways, PTL

-----------------------------------------------------------------------------
(* Greatest members, and functions defined by what lies below              *)

LEMMA SmallerSubset ==
  ASSUME NEW S, IsFiniteSet(S), NEW T \in SUBSET S, T # S
  PROVE  IsFiniteSet(T) /\ Cardinality(T) \in Nat /\ Cardinality(S) \in Nat
         /\ Cardinality(T) < Cardinality(S)
<1>1. IsFiniteSet(T) /\ Cardinality(T) <= Cardinality(S) /\ Cardinality(T) # Cardinality(S)
  BY FS_Subset
<1>2. Cardinality(T) \in Nat /\ Cardinality(S) \in Nat
  BY <1>1, FS_CardinalityType
<1> QED
  BY <1>1, <1>2

LEMMA Greatest ==
  ASSUME NEW S \in SUBSET Nat, IsFiniteSet(S), S # {}
  PROVE  Max(S) \in S /\ \A n \in S : n <= Max(S)
<1> DEFINE Above(n) == {m \in S : m > n}
           T == {Cardinality(Above(n)) : n \in S}
<1>1. T \in SUBSET Nat /\ T # {}
  <2>1. ASSUME NEW n \in S PROVE Cardinality(Above(n)) \in Nat
    <3>1. IsFiniteSet(Above(n))
      BY FS_Subset
    <3> QED
      BY <3>1, FS_CardinalityType
  <2> QED
    BY <2>1
<1>2. PICK n \in S : \A m \in S : Cardinality(Above(n)) <= Cardinality(Above(m))
  <2>1. \E x \in T : \A y \in T : x <= y
    <3> HIDE DEF T
    <3> QED
      BY <1>1, Facts!LeastNatural
  <2> QED
    BY <2>1
<1>3. ASSUME NEW m \in Above(n) PROVE FALSE
  <2>0. n \in Nat /\ m \in Nat /\ m \in S /\ m > n
    OBVIOUS
  <2>1. Above(m) \in SUBSET Above(n) /\ m \in Above(n) /\ m \notin Above(m)
    <3>1. \A k \in S : k > m => k > n
      BY <2>0
    <3>2. ~(m > m)
      BY <2>0
    <3> QED
      BY <2>0, <3>1, <3>2
  <2>2. IsFiniteSet(Above(n))
    BY FS_Subset
  <2>3. Cardinality(Above(m)) < Cardinality(Above(n)) /\ Cardinality(Above(m)) \in Nat
        /\ Cardinality(Above(n)) \in Nat
    <3> HIDE DEF Above
    <3> QED
      BY <2>1, <2>2, SmallerSubset
  <2> QED
    BY <1>2, <2>3
<1>4. \A m \in S : n >= m
  BY <1>3
<1> QED
  BY <1>4 DEF Max

(* Each value depends on values of lower rank only.                        *)
Ranked(D, W, rank, step) ==
  \A h, k \in [D -> W] : \A f \in D :
    (\A u \in D : rank[u] < rank[f] => h[u] = k[u]) => step[<<h, f>>] = step[<<k, f>>]

Typed(D, W, step) == \A h \in [D -> W] : \A f \in D : step[<<h, f>>] \in W

Solves(D, step, h) == \A f \in D : h[f] = step[<<h, f>>]

AlikeByRank(D, rank, h, k) ==
  \A f \in D : (\A u \in D : rank[u] < rank[f] => h[u] = k[u]) => h[f] = k[f]

(* A definition like that has a solution.                                  *)
LEMMA RankedFixedPoint ==
  ASSUME NEW D, NEW W, NEW w \in W, NEW step, NEW N \in Nat, NEW rank \in [D -> 0..N],
         Typed(D, W, step), Ranked(D, W, rank, step)
  PROVE  \E h \in [D -> W] : Solves(D, step, h)
<1> USE DEF Typed, Ranked, Solves
<1> DEFINE S == [D -> W]
           next == [p \in S \X Nat |-> [f \in D |-> step[<<p[1], f>>]]]
           a == [f \in D |-> w]
<1>1. \A h \in S, n \in Nat : next[<<h, n>>] = [f \in D |-> step[<<h, f>>]]
  OBVIOUS
<1>2. a \in S /\ \A h \in S, n \in Nat : next[<<h, n>>] \in S
  BY <1>1
<1> HIDE DEF next, a, S
<1>3. PICK r : Facts!Iteration(r, S, a, next)
  BY <1>2, Facts!Iterates
<1>4. \A n \in Nat : r[n] \in S
  BY <1>3 DEF Facts!Iteration
<1>10. \A n \in Nat : \A f \in D : r[n + 1][f] = step[<<r[n], f>>]
  <2> SUFFICES ASSUME NEW n \in Nat, NEW f \in D PROVE r[n + 1][f] = step[<<r[n], f>>]
    OBVIOUS
  <2>1. r[n + 1] = [i \in D |-> step[<<r[n], i>>]]
    BY <1>1, <1>3, <1>4 DEF Facts!Iteration
  <2> QED
    BY <2>1
<1>11. \A n \in Nat : r[n] \in [D -> W]
  BY <1>4 DEF S
<1> DEFINE E == {n \in Nat : \A f \in D : rank[f] < n => r[n + 1][f] = r[n][f]}
<1>5. 0 \in E
  OBVIOUS
<1>6. ASSUME NEW n \in Nat, n \in E PROVE n + 1 \in E
  <2> SUFFICES ASSUME NEW f \in D, rank[f] < n + 1 PROVE r[(n + 1) + 1][f] = r[n + 1][f]
    OBVIOUS
  <2>1. n + 1 \in Nat /\ r[n] \in [D -> W] /\ r[n + 1] \in [D -> W]
    BY <1>11
  <2>2. r[(n + 1) + 1][f] = step[<<r[n + 1], f>>] /\ r[n + 1][f] = step[<<r[n], f>>]
    BY <1>10, <2>1
  <2>3. \A u \in D : rank[u] < rank[f] => rank[u] < n
    OBVIOUS
  <2>4. \A u \in D : rank[u] < rank[f] => r[n + 1][u] = r[n][u]
    BY <1>6, <2>3
  <2> QED
    BY <2>1, <2>2, <2>4
<1> HIDE DEF E
<1>7. N + 1 \in E
  BY <1>5, <1>6, Facts!Induction
<1>8. \A f \in D : rank[f] < N + 1
  OBVIOUS
<1>9. \A f \in D : r[N + 1][f] = step[<<r[N + 1], f>>]
  <2> SUFFICES ASSUME NEW f \in D PROVE r[N + 1][f] = step[<<r[N + 1], f>>]
    OBVIOUS
  <2>1. N + 1 \in Nat /\ r[(N + 1) + 1][f] = r[N + 1][f]
    BY <1>7, <1>8 DEF E
  <2> QED
    BY <1>10, <2>1
<1> QED
  BY <1>9, <1>11

(* It has no other.                                                        *)
LEMMA RankedAlike ==
  ASSUME NEW D, NEW N \in Nat, NEW rank \in [D -> 0..N], NEW h, NEW k,
         AlikeByRank(D, rank, h, k)
  PROVE  \A f \in D : h[f] = k[f]
<1> USE DEF AlikeByRank
<1> DEFINE E == {n \in Nat : \A f \in D : rank[f] < n => h[f] = k[f]}
<1>1. 0 \in E
  OBVIOUS
<1>2. ASSUME NEW n \in Nat, n \in E PROVE n + 1 \in E
  <2>1. ASSUME NEW f \in D, rank[f] < n + 1 PROVE h[f] = k[f]
    <3>1. \A u \in D : rank[u] < rank[f] => rank[u] < n
      BY <2>1
    <3> QED
      BY <1>2, <3>1
  <2> QED
    BY <2>1
<1> HIDE DEF E
<1>3. N + 1 \in E
  BY <1>1, <1>2, Facts!Induction
<1>4. \A f \in D : rank[f] < N + 1
  OBVIOUS
<1> QED
  BY <1>3, <1>4 DEF E

(* How many functions lie below ranks the callee under its caller, how     *)
(* many lie above the other way round.                                     *)
Above(g, f) == {u \in Funcs : f \in Below(g, u)}

LEMMA CallsByRank ==
  ASSUME NEW g \in CallGraphs, NEW u \in Funcs, NEW f \in Callees(g, u)
  PROVE  /\ f \in Funcs
         /\ ~IsRecursive(g, f) => Cardinality(Below(g, f)) < Cardinality(Below(g, u))
         /\ ~IsRecursive(g, u) => Cardinality(Above(g, u)) < Cardinality(Above(g, f))
<1>1. f \in Funcs /\ f \in Below(g, u) /\ Below(g, f) \subseteq Below(g, u)
      /\ Below(g, u) \in SUBSET Funcs
  BY BelowIsLeast, BelowGoesOn
<1>2. ASSUME ~IsRecursive(g, f) PROVE Cardinality(Below(g, f)) < Cardinality(Below(g, u))
  <2>1. IsFiniteSet(Below(g, u))
    BY <1>1, FuncsAssumption, FS_Subset
  <2>2. Below(g, f) # Below(g, u)
    BY <1>1, <1>2 DEF IsRecursive
  <2> QED
    BY <1>1, <2>1, <2>2, SmallerSubset
<1>3. ASSUME ~IsRecursive(g, u) PROVE Cardinality(Above(g, u)) < Cardinality(Above(g, f))
  <2>1. u \in Above(g, f) /\ u \notin Above(g, u)
    BY <1>1, <1>3 DEF Above, IsRecursive
  <2>2. Above(g, u) \subseteq Above(g, f)
    BY BelowIsLeast DEF Above
  <2>3. IsFiniteSet(Above(g, f))
    BY FuncsAssumption, FS_Subset DEF Above
  <2> QED
    BY <2>1, <2>2, <2>3, SmallerSubset
<1> QED
  BY <1>1, <1>2, <1>3

LEMMA Ranks ==
  ASSUME NEW g \in CallGraphs
  PROVE  /\ Cardinality(Funcs) \in Nat
         /\ [f \in Funcs |-> Cardinality(Below(g, f))] \in [Funcs -> 0..Cardinality(Funcs)]
         /\ [f \in Funcs |-> Cardinality(Above(g, f))] \in [Funcs -> 0..Cardinality(Funcs)]
<1>1. Cardinality(Funcs) \in Nat
  BY FuncsAssumption, FS_CardinalityType
<1>2. ASSUME NEW T \in SUBSET Funcs PROVE Cardinality(T) \in 0..Cardinality(Funcs)
  <2>1. IsFiniteSet(T) /\ Cardinality(T) <= Cardinality(Funcs)
    BY FuncsAssumption, FS_Subset
  <2>2. Cardinality(T) \in Nat
    BY <2>1, FS_CardinalityType
  <2> QED
    BY <1>1, <2>1, <2>2
<1>3. \A f \in Funcs : Below(g, f) \in SUBSET Funcs /\ Above(g, f) \in SUBSET Funcs
  BY BelowIsLeast DEF Above
<1> QED
  BY <1>1, <1>2, <1>3

-----------------------------------------------------------------------------
(* Widest                                                                  *)

Candidates == [amount : Nat, exact : BOOLEAN]
Widths == [amount : Nat, exact : BOOLEAN, seen : BOOLEAN]

LEMMA Images ==
  ASSUME NEW D, IsFiniteSet(D), NEW h, h = [x \in D |-> h[x]]
  PROVE  IsFiniteSet({h[x] : x \in D})
<1> DEFINE T == {h[x] : x \in D}
<1>1. h \in [D -> T] /\ \A t \in T : \E x \in D : h[x] = t
  OBVIOUS
<1> HIDE DEF T
<1>2. h \in Surjection(D, T)
  BY <1>1 DEF Surjection
<1>3. IsFiniteSet(T)
  BY <1>2, FS_Surjection
<1> QED
  BY <1>3 DEF T

(* An amount at least that of every candidate, and theirs if exact.        *)
LEMMA WidestOf ==
  ASSUME NEW C \in SUBSET Candidates, IsFiniteSet(C)
  PROVE  /\ Widest(C) \in Widths
         /\ Widest(C).seen <=> C # {}
         /\ \A c \in C : c.amount <= Widest(C).amount
         /\ Widest(C).exact => \A c \in C : c.exact /\ c.amount = Widest(C).amount
         /\ C = {} => Widest(C).amount = 0
<1> DEFINE h == [c \in C |-> c.amount]
           A == {h[c] : c \in C}
           M == A \cup {0}
<1>1. \A c \in C : c.amount \in Nat /\ h[c] = c.amount
  BY DEF Candidates
<1>2. IsFiniteSet(A)
  <2>1. h = [c \in C |-> h[c]]
    OBVIOUS
  <2> HIDE DEF h
  <2> QED
    BY <2>1, Images
<1>3. M \in SUBSET Nat /\ IsFiniteSet(M) /\ M # {}
  <2>1. IsFiniteSet({0})
    BY FS_Singleton
  <2>2. IsFiniteSet(M)
    <3> HIDE DEF A
    <3> QED
      BY <1>2, <2>1, FS_Union
  <2> QED
    BY <1>1, <2>2
<1>4. {c.amount : c \in C} \cup {0} = M
  BY <1>1
<1> HIDE DEF M
<1>5. PICK m : m = Max(M)
  OBVIOUS
<1>6. m \in M /\ m \in Nat /\ \A n \in M : n <= m
  BY <1>3, <1>5, Greatest
<1>7. PICK b \in BOOLEAN : b = (\A c, d \in C : c.exact /\ c.amount = d.amount)
  OBVIOUS
<1>8. PICK z \in BOOLEAN : z = (C # {})
  OBVIOUS
<1>9. Widest(C) = [amount |-> m, exact |-> b, seen |-> z]
  BY <1>4, <1>5, <1>7, <1>8 DEF Widest
<1>10. Widest(C) \in Widths /\ Widest(C).amount = m /\ Widest(C).exact = b /\ Widest(C).seen = z
  BY <1>6, <1>9 DEF Widths
<1>11. \A c \in C : c.amount \in M
  BY <1>1 DEF M
<1>12. ASSUME b, NEW c \in C PROVE c.exact /\ c.amount = m
  <2>1. \A d \in C : c.exact /\ d.amount = c.amount
    BY <1>7, <1>12
  <2>2. c.amount <= m /\ c.amount \in Nat
    BY <1>1, <1>6, <1>11
  <2>3. CASE m = 0
    BY <2>1, <2>2, <2>3
  <2>4. CASE m # 0
    <3>1. PICK d \in C : m = d.amount
      BY <1>1, <1>6, <2>4 DEF M
    <3> QED
      BY <2>1, <3>1
  <2> QED
    BY <2>3, <2>4
<1>13. C = {} => m = 0
  BY <1>6 DEF M
<1> QED
  BY <1>6, <1>8, <1>10, <1>11, <1>12, <1>13

LEMMA CandidateOf ==
  ASSUME NEW n \in Nat, NEW b \in BOOLEAN
  PROVE  Candidate(n, b) \in Candidates /\ Candidate(n, b).amount = n /\ Candidate(n, b).exact = b
BY DEF Candidate, Candidates

LEMMA PlusOf ==
  ASSUME NEW n \in Nat, NEW w \in Widths
  PROVE  Plus(n, w) \in Candidates /\ Plus(n, w).amount = n + w.amount /\ Plus(n, w).exact = w.exact
<1>1. n + w.amount \in Nat /\ w.exact \in BOOLEAN
  BY DEF Widths
<1> QED
  BY <1>1, CandidateOf DEF Plus

LEMMA NothingSeen == Unseen \in Widths /\ ~Unseen.seen
<1>1. {} \in SUBSET Candidates /\ IsFiniteSet({})
  BY FS_EmptySet
<1> QED
  BY <1>1, WidestOf DEF Unseen

-----------------------------------------------------------------------------
(* What is below, and what is above                                        *)

FiniteGraphs == {g \in CallGraphs : \A f \in Funcs : IsFiniteSet(g[f])}

AllCalls(g) == UNION {{<<u, s>> : s \in g[u]} : u \in Funcs}

LEMMA CallsAreFinite ==
  ASSUME NEW g \in FiniteGraphs
  PROVE  IsFiniteSet(AllCalls(g))
<1> DEFINE h == [u \in Funcs |-> {<<u, s>> : s \in g[u]}]
           All == {h[u] : u \in Funcs}
<1>1. IsFiniteSet(All)
  <2>1. h = [u \in Funcs |-> h[u]]
    OBVIOUS
  <2> HIDE DEF h
  <2> QED
    BY <2>1, FuncsAssumption, Images
<1>2. ASSUME NEW u \in Funcs PROVE IsFiniteSet(h[u])
  <2> DEFINE j == [s \in g[u] |-> <<u, s>>]
  <2>1. IsFiniteSet({j[s] : s \in g[u]})
    <3>1. j = [s \in g[u] |-> j[s]] /\ IsFiniteSet(g[u])
      BY DEF FiniteGraphs
    <3> HIDE DEF j
    <3> QED
      BY <3>1, Images
  <2>2. h[u] = {j[s] : s \in g[u]}
    OBVIOUS
  <2> QED
    BY <2>1, <2>2
<1>3. IsFiniteSet(UNION All)
  <2>1. \A T \in All : IsFiniteSet(T)
    BY <1>2
  <2> HIDE DEF All
  <2> QED
    BY <1>1, <2>1, FS_UNION
<1>4. AllCalls(g) = UNION All
  BY DEF AllCalls
<1> QED
  BY <1>3, <1>4

(* Candidates made one from each of some calls, and perhaps one more.      *)
LEMMA FiniteCandidates ==
  ASSUME NEW g \in FiniteGraphs, NEW h, h = [p \in AllCalls(g) |-> h[p]],
         NEW c, NEW C, \A x \in C : x = c \/ \E p \in AllCalls(g) : x = h[p]
  PROVE  IsFiniteSet(C)
<1>1. IsFiniteSet({h[p] : p \in AllCalls(g)})
  BY CallsAreFinite, Images
<1>2. IsFiniteSet({h[p] : p \in AllCalls(g)} \cup {c})
  BY <1>1, FS_Singleton, FS_Union
<1> QED
  BY <1>2, FS_Subset

OwnEnd(g, f) ==
  IF \E h \in Callees(g, f) : IsRecursive(g, h) THEN {} ELSE {Candidate(Prologue(g, f), TRUE)}

Onward(g, b, f) == {t \in g[f] : ~IsRecursive(g, t.callee) /\ b[t.callee].seen}

Deepening(g, b, f) == {Plus(Held(g, f, s), b[s.callee]) : s \in Onward(g, b, f)} \cup OwnEnd(g, f)

DeepestBody(g, b, f) ==
  IF IsRecursive(g, f) THEN Unseen ELSE Widest(Deepening(g, b, f))

LEMMA DeepeningTypes ==
  ASSUME NEW g \in FiniteGraphs, NEW b \in [Funcs -> Widths], NEW f \in Funcs
  PROVE  /\ Deepening(g, b, f) \in SUBSET Candidates /\ IsFiniteSet(Deepening(g, b, f))
         /\ DeepestBody(g, b, f) \in Widths
<1> DEFINE h == [p \in AllCalls(g) |-> Plus(Held(g, p[1], p[2]), b[p[2].callee])]
           c == Candidate(Prologue(g, f), TRUE)
<1>0. g \in CallGraphs /\ Prologue(g, f) \in Nat
      /\ \A s \in g[f] : s.callee \in Funcs /\ Held(g, f, s) \in Nat
  BY Shares DEF FiniteGraphs
<1>1. OwnEnd(g, f) \subseteq {c} /\ c \in Candidates
  BY <1>0, CandidateOf DEF OwnEnd
<1>2. ASSUME NEW s \in g[f]
      PROVE  /\ Plus(Held(g, f, s), b[s.callee]) \in Candidates
             /\ \E p \in AllCalls(g) : Plus(Held(g, f, s), b[s.callee]) = h[p]
  <2>1. b[s.callee] \in Widths
    BY <1>0
  <2>2. <<f, s>> \in AllCalls(g)
    BY DEF AllCalls
  <2>3. h[<<f, s>>] = Plus(Held(g, f, s), b[s.callee])
    BY <2>2
  <2> QED
    BY <1>0, <2>1, <2>2, <2>3, PlusOf
<1>3. h = [p \in AllCalls(g) |-> h[p]]
  OBVIOUS
<1> HIDE DEF h, c
<1>4. Deepening(g, b, f) \in SUBSET Candidates
  BY <1>1, <1>2 DEF Deepening, Onward
<1>5. \A x \in Deepening(g, b, f) : x = c \/ \E p \in AllCalls(g) : x = h[p]
  BY <1>1, <1>2 DEF Deepening, Onward
<1>6. IsFiniteSet(Deepening(g, b, f))
  BY <1>3, <1>5, FiniteCandidates
<1> QED
  BY <1>4, <1>6, WidestOf, NothingSeen DEF DeepestBody

LEMMA DeepestLooksBelow ==
  ASSUME NEW g \in CallGraphs, NEW f \in Funcs, NEW b, NEW c,
         \A u \in Funcs : Cardinality(Below(g, u)) < Cardinality(Below(g, f)) => b[u] = c[u]
  PROVE  DeepestBody(g, b, f) = DeepestBody(g, c, f)
<1>1. \A s \in g[f] : ~IsRecursive(g, s.callee) => b[s.callee] = c[s.callee]
  <2> SUFFICES ASSUME NEW s \in g[f], ~IsRecursive(g, s.callee)
               PROVE  b[s.callee] = c[s.callee]
    OBVIOUS
  <2>1. s.callee \in Callees(g, f)
    BY Shares
  <2> QED
    BY <2>1, CallsByRank
<1>2. Onward(g, b, f) = Onward(g, c, f)
  BY <1>1 DEF Onward
<1>3. \A s \in Onward(g, b, f) : b[s.callee] = c[s.callee]
  BY <1>1 DEF Onward
<1>4. {Plus(Held(g, f, s), b[s.callee]) : s \in Onward(g, b, f)}
      = {Plus(Held(g, f, s), c[s.callee]) : s \in Onward(g, c, f)}
  BY <1>2, <1>3
<1>5. Deepening(g, b, f) = Deepening(g, c, f)
  BY <1>4 DEF Deepening
<1> QED
  BY <1>5 DEF DeepestBody

(* The depths below are what their definition says, in every call graph.   *)
THEOREM DeepestSolved ==
  ASSUME NEW g \in FiniteGraphs
  PROVE  /\ DeepestBelow(g) \in [Funcs -> Widths]
         /\ \A f \in Funcs : DeepestBelow(g)[f] = DeepestBody(g, DeepestBelow(g), f)
<1> DEFINE step == [p \in [Funcs -> Widths] \X Funcs |-> DeepestBody(g, p[1], p[2])]
           rank == [f \in Funcs |-> Cardinality(Below(g, f))]
           d == CHOOSE b : b = [f \in Funcs |-> DeepestBody(g, b, f)]
<1>0. g \in CallGraphs
  BY DEF FiniteGraphs
<1>1. \A h \in [Funcs -> Widths], f \in Funcs : step[<<h, f>>] = DeepestBody(g, h, f)
  OBVIOUS
<1>2. \A f \in Funcs : rank[f] = Cardinality(Below(g, f))
  OBVIOUS
<1>3. rank \in [Funcs -> 0..Cardinality(Funcs)] /\ Cardinality(Funcs) \in Nat
  BY <1>0, Ranks
<1> HIDE DEF step, rank
<1>4. Typed(Funcs, Widths, step)
  BY <1>1, DeepeningTypes DEF Typed
<1>5. Ranked(Funcs, Widths, rank, step)
  <2> SUFFICES ASSUME NEW h \in [Funcs -> Widths], NEW k \in [Funcs -> Widths], NEW f \in Funcs,
                      \A u \in Funcs : rank[u] < rank[f] => h[u] = k[u]
               PROVE  DeepestBody(g, h, f) = DeepestBody(g, k, f)
    BY <1>1 DEF Ranked
  <2> QED
    BY <1>0, <1>2, DeepestLooksBelow
<1>6. PICK h \in [Funcs -> Widths] : \A f \in Funcs : h[f] = step[<<h, f>>]
  <2>1. \E h \in [Funcs -> Widths] : Solves(Funcs, step, h)
    BY <1>3, <1>4, <1>5, NothingSeen, RankedFixedPoint
  <2> QED
    BY <2>1 DEF Solves
<1>7. h = [f \in Funcs |-> DeepestBody(g, h, f)]
  BY <1>1, <1>6
<1>8. d = [f \in Funcs |-> DeepestBody(g, d, f)]
  BY <1>7
<1>9. DeepestBelow(g) = d
  BY DEF DeepestBelow, DeepestBody, Deepening, Onward, OwnEnd
<1> HIDE DEF d
<1>10. \A f \in Funcs : d[f] = DeepestBody(g, d, f)
  BY <1>8
<1>11. AlikeByRank(Funcs, rank, d, h)
  <2> SUFFICES ASSUME NEW f \in Funcs, \A u \in Funcs : rank[u] < rank[f] => d[u] = h[u]
               PROVE  d[f] = h[f]
    BY DEF AlikeByRank
  <2>1. d[f] = DeepestBody(g, d, f) /\ h[f] = DeepestBody(g, h, f)
    BY <1>1, <1>6, <1>10
  <2>2. DeepestBody(g, d, f) = DeepestBody(g, h, f)
    BY <1>0, <1>2, DeepestLooksBelow
  <2> QED
    BY <2>1, <2>2
<1>12. \A f \in Funcs : d[f] = h[f]
  <2>1. PICK k, N, r : k = d /\ N = Cardinality(Funcs) /\ r = rank
    OBVIOUS
  <2>2. N \in Nat /\ r \in [Funcs -> 0..N] /\ AlikeByRank(Funcs, r, k, h)
    BY <1>3, <1>11, <2>1
  <2>3. \A f \in Funcs : k[f] = h[f]
    BY <2>2, RankedAlike
  <2> QED
    BY <2>1, <2>3
<1>13. d \in [Funcs -> Widths]
  BY <1>8, <1>12
<1> QED
  BY <1>9, <1>10, <1>13

Live(g) == {u \in Reachable(g) : ~IsRecursive(g, u)}

Callers(g, f) == {u \in Reachable(g) : f \in Callees(g, u)}

Arriving(g, e, f) ==
  (IF f = Entry THEN {Candidate(0, TRUE)} ELSE {})
  \cup UNION {{Plus(Held(g, u, s), e[u]) : s \in {t \in g[u] : t.callee = f}} : u \in Callers(g, f)}

EnteredBody(g, e, f) ==
  IF f \notin Live(g) \/ \E u \in Callers(g, f) : IsRecursive(g, u) \/ ~e[u].seen
  THEN Unseen ELSE Widest(Arriving(g, e, f))

LEMMA ReachableFuncs ==
  ASSUME NEW g \in CallGraphs
  PROVE  Reachable(g) \in SUBSET Funcs
BY BelowIsLeast, FuncsAssumption DEF Reachable

LEMMA ArrivingTypes ==
  ASSUME NEW g \in FiniteGraphs, NEW e \in [Funcs -> Widths], NEW f \in Funcs
  PROVE  /\ Arriving(g, e, f) \in SUBSET Candidates /\ IsFiniteSet(Arriving(g, e, f))
         /\ EnteredBody(g, e, f) \in Widths
<1> DEFINE h == [p \in AllCalls(g) |-> Plus(Held(g, p[1], p[2]), e[p[1]])]
           c == Candidate(0, TRUE)
<1>0. g \in CallGraphs /\ Reachable(g) \in SUBSET Funcs
  BY ReachableFuncs DEF FiniteGraphs
<1>1. c \in Candidates
  BY CandidateOf
<1>2. ASSUME NEW u \in Funcs, NEW s \in g[u]
      PROVE  /\ Plus(Held(g, u, s), e[u]) \in Candidates
             /\ \E p \in AllCalls(g) : Plus(Held(g, u, s), e[u]) = h[p]
  <2>1. Held(g, u, s) \in Nat /\ e[u] \in Widths
    BY <1>0, Shares
  <2>2. <<u, s>> \in AllCalls(g)
    BY DEF AllCalls
  <2>3. h[<<u, s>>] = Plus(Held(g, u, s), e[u])
    BY <2>2
  <2> QED
    BY <2>1, <2>2, <2>3, PlusOf
<1>3. h = [p \in AllCalls(g) |-> h[p]]
  OBVIOUS
<1> HIDE DEF h, c
<1>4. ASSUME NEW x \in Arriving(g, e, f)
      PROVE  x \in Candidates /\ (x = c \/ \E p \in AllCalls(g) : x = h[p])
  <2>1. CASE x = c
    BY <1>1, <2>1
  <2>2. CASE x # c
    <3>1. PICK u \in Callers(g, f) : x \in {Plus(Held(g, u, s), e[u]) : s \in {t \in g[u] : t.callee = f}}
      BY <2>2 DEF Arriving, c
    <3>2. PICK s \in g[u] : x = Plus(Held(g, u, s), e[u])
      BY <3>1
    <3>3. u \in Funcs
      BY <1>0 DEF Callers
    <3> QED
      BY <1>2, <3>2, <3>3
  <2> QED
    BY <2>1, <2>2
<1>5. Arriving(g, e, f) \in SUBSET Candidates
  BY <1>4
<1>6. IsFiniteSet(Arriving(g, e, f))
  <2>1. \A x \in Arriving(g, e, f) : x = c \/ \E p \in AllCalls(g) : x = h[p]
    BY <1>4
  <2> QED
    BY <1>3, <2>1, FiniteCandidates
<1> QED
  BY <1>5, <1>6, WidestOf, NothingSeen DEF EnteredBody

LEMMA EnteredLooksAbove ==
  ASSUME NEW g \in CallGraphs, NEW f \in Funcs, NEW e, NEW c,
         \A u \in Funcs : Cardinality(Above(g, u)) < Cardinality(Above(g, f)) => e[u] = c[u]
  PROVE  EnteredBody(g, e, f) = EnteredBody(g, c, f)
<1>1. CASE \E u \in Callers(g, f) : IsRecursive(g, u)
  BY <1>1 DEF EnteredBody
<1>2. CASE \A u \in Callers(g, f) : ~IsRecursive(g, u)
  <2>1. \A u \in Callers(g, f) : e[u] = c[u]
    BY <1>2, ReachableFuncs, CallsByRank DEF Callers
  <2>2. {{Plus(Held(g, u, s), e[u]) : s \in {t \in g[u] : t.callee = f}} : u \in Callers(g, f)}
        = {{Plus(Held(g, u, s), c[u]) : s \in {t \in g[u] : t.callee = f}} : u \in Callers(g, f)}
    BY <2>1
  <2>3. Arriving(g, e, f) = Arriving(g, c, f)
    BY <2>2 DEF Arriving
  <2> QED
    BY <2>1, <2>3 DEF EnteredBody
<1> QED
  BY <1>1, <1>2

(* What chains hold on entry is what its definition says.                  *)
THEOREM EnteredSolved ==
  ASSUME NEW g \in FiniteGraphs
  PROVE  /\ Entered(g) \in [Funcs -> Widths]
         /\ \A f \in Funcs : Entered(g)[f] = EnteredBody(g, Entered(g), f)
<1> DEFINE step == [p \in [Funcs -> Widths] \X Funcs |-> EnteredBody(g, p[1], p[2])]
           rank == [f \in Funcs |-> Cardinality(Above(g, f))]
           d == CHOOSE e : e = [f \in Funcs |-> EnteredBody(g, e, f)]
<1>0. g \in CallGraphs
  BY DEF FiniteGraphs
<1>1. \A h \in [Funcs -> Widths], f \in Funcs : step[<<h, f>>] = EnteredBody(g, h, f)
  OBVIOUS
<1>2. \A f \in Funcs : rank[f] = Cardinality(Above(g, f))
  OBVIOUS
<1>3. rank \in [Funcs -> 0..Cardinality(Funcs)] /\ Cardinality(Funcs) \in Nat
  BY <1>0, Ranks
<1> HIDE DEF step, rank
<1>4. Typed(Funcs, Widths, step)
  BY <1>1, ArrivingTypes DEF Typed
<1>5. Ranked(Funcs, Widths, rank, step)
  <2> SUFFICES ASSUME NEW h \in [Funcs -> Widths], NEW k \in [Funcs -> Widths], NEW f \in Funcs,
                      \A u \in Funcs : rank[u] < rank[f] => h[u] = k[u]
               PROVE  EnteredBody(g, h, f) = EnteredBody(g, k, f)
    BY <1>1 DEF Ranked
  <2> QED
    BY <1>0, <1>2, EnteredLooksAbove
<1>6. PICK h \in [Funcs -> Widths] : \A f \in Funcs : h[f] = step[<<h, f>>]
  <2>1. \E h \in [Funcs -> Widths] : Solves(Funcs, step, h)
    BY <1>3, <1>4, <1>5, NothingSeen, RankedFixedPoint
  <2> QED
    BY <2>1 DEF Solves
<1>7. h = [f \in Funcs |-> EnteredBody(g, h, f)]
  BY <1>1, <1>6
<1>8. d = [f \in Funcs |-> EnteredBody(g, d, f)]
  BY <1>7
<1>9. Entered(g) = d
  BY DEF Entered, EnteredBody, Arriving, Live, Callers
<1> HIDE DEF d
<1>10. \A f \in Funcs : d[f] = EnteredBody(g, d, f)
  BY <1>8
<1>11. AlikeByRank(Funcs, rank, d, h)
  <2> SUFFICES ASSUME NEW f \in Funcs, \A u \in Funcs : rank[u] < rank[f] => d[u] = h[u]
               PROVE  d[f] = h[f]
    BY DEF AlikeByRank
  <2>1. d[f] = EnteredBody(g, d, f) /\ h[f] = EnteredBody(g, h, f)
    BY <1>1, <1>6, <1>10
  <2>2. EnteredBody(g, d, f) = EnteredBody(g, h, f)
    BY <1>0, <1>2, EnteredLooksAbove
  <2> QED
    BY <2>1, <2>2
<1>12. \A f \in Funcs : d[f] = h[f]
  <2>1. PICK k, N, r : k = d /\ N = Cardinality(Funcs) /\ r = rank
    OBVIOUS
  <2>2. N \in Nat /\ r \in [Funcs -> 0..N] /\ AlikeByRank(Funcs, r, k, h)
    BY <1>3, <1>11, <2>1
  <2>3. \A f \in Funcs : k[f] = h[f]
    BY <2>2, RankedAlike
  <2> QED
    BY <2>1, <2>3
<1>13. d \in [Funcs -> Widths]
  BY <1>8, <1>12
<1> QED
  BY <1>9, <1>10, <1>13

LEMMA EnteredIs ==
  ASSUME NEW g \in FiniteGraphs, NEW e, e = Entered(g)
  PROVE  /\ \A f \in Funcs : e[f] \in Widths
         /\ e[Entry].seen /\ e[Entry].exact => e[Entry].amount = 0
         /\ \A u \in Reachable(g) : \A c \in g[u] :
              e[c.callee].seen =>
                /\ ~IsRecursive(g, u) /\ e[u].seen
                /\ Held(g, u, c) + e[u].amount <= e[c.callee].amount
                /\ e[c.callee].exact =>
                     e[u].exact /\ Held(g, u, c) + e[u].amount = e[c.callee].amount
<1>1. /\ g \in CallGraphs /\ e \in [Funcs -> Widths]
      /\ \A f \in Funcs : e[f] = EnteredBody(g, e, f)
  BY EnteredSolved DEF FiniteGraphs
<1>2. \A f \in Funcs : /\ Arriving(g, e, f) \in SUBSET Candidates
                       /\ IsFiniteSet(Arriving(g, e, f))
  BY <1>1, ArrivingTypes
<1>3. \A f \in Funcs : e[f].seen =>
        /\ e[f] = Widest(Arriving(g, e, f))
        /\ \A u \in Callers(g, f) : ~IsRecursive(g, u) /\ e[u].seen
  <2> SUFFICES ASSUME NEW f \in Funcs, e[f].seen
               PROVE  /\ e[f] = Widest(Arriving(g, e, f))
                      /\ \A u \in Callers(g, f) : ~IsRecursive(g, u) /\ e[u].seen
    OBVIOUS
  <2>1. e[f] # Unseen
    BY NothingSeen
  <2> QED
    BY <1>1, <2>1 DEF EnteredBody
<1>4. ASSUME e[Entry].seen, e[Entry].exact PROVE e[Entry].amount = 0
  <2>1. e[Entry] = Widest(Arriving(g, e, Entry)) /\ Entry \in Funcs
    BY <1>3, <1>4, FuncsAssumption
  <2>2. Candidate(0, TRUE) \in Arriving(g, e, Entry)
    BY DEF Arriving
  <2>3. Candidate(0, TRUE).amount = 0
    BY CandidateOf
  <2>4. PICK T, w, z : T = Arriving(g, e, Entry) /\ w = e[Entry] /\ z = Candidate(0, TRUE)
    OBVIOUS
  <2>5. T \in SUBSET Candidates /\ IsFiniteSet(T) /\ w = Widest(T) /\ w.exact /\ z \in T
    BY <1>2, <1>4, <2>1, <2>2, <2>4
  <2>6. \A x \in T : x.amount = w.amount
    BY <2>5, WidestOf
  <2> QED
    BY <2>3, <2>4, <2>5, <2>6
<1>5. ASSUME NEW u \in Reachable(g), NEW c \in g[u], e[c.callee].seen
      PROVE  /\ ~IsRecursive(g, u) /\ e[u].seen
             /\ Held(g, u, c) + e[u].amount <= e[c.callee].amount
             /\ e[c.callee].exact =>
                  e[u].exact /\ Held(g, u, c) + e[u].amount = e[c.callee].amount
  <2>1. u \in Funcs
    BY <1>1, ReachableFuncs
  <2>2. c.callee \in Funcs /\ c.callee \in Callees(g, u) /\ Held(g, u, c) \in Nat
    BY <1>1, <2>1, Shares
  <2>3. PICK f \in Funcs : f = c.callee
    BY <2>2
  <2>4. u \in Callers(g, f)
    BY <2>2, <2>3 DEF Callers
  <2>5. e[f] = Widest(Arriving(g, e, f)) /\ ~IsRecursive(g, u) /\ e[u].seen
    BY <1>3, <1>5, <2>3, <2>4
  <2>6. Plus(Held(g, u, c), e[u]) \in Arriving(g, e, f)
    BY <2>3, <2>4 DEF Arriving
  <2>7. /\ Plus(Held(g, u, c), e[u]).amount = Held(g, u, c) + e[u].amount
        /\ Plus(Held(g, u, c), e[u]).exact = e[u].exact
    BY <1>1, <2>1, <2>2, PlusOf
  <2>8. /\ \A x \in Arriving(g, e, f) : x.amount <= e[f].amount
        /\ e[f].exact => \A x \in Arriving(g, e, f) : x.exact /\ x.amount = e[f].amount
    BY <1>2, <2>5, WidestOf
  <2> QED
    BY <2>3, <2>5, <2>6, <2>7, <2>8
<1> QED
  BY <1>1, <1>4, <1>5

LEMMA DeepestIs ==
  ASSUME NEW g \in FiniteGraphs, NEW b, b = DeepestBelow(g), NEW f \in Funcs, ~IsRecursive(g, f)
  PROVE  /\ b[f] \in Widths
         /\ b[f].seen => Prologue(g, f) <= b[f].amount
         /\ ~b[f].seen => \E h \in Callees(g, f) : IsRecursive(g, h)
         /\ \A c \in g[f] : (~IsRecursive(g, c.callee) /\ b[c.callee].seen) =>
              b[f].seen /\ Held(g, f, c) + b[c.callee].amount <= b[f].amount
<1>1. /\ g \in CallGraphs /\ b \in [Funcs -> Widths] /\ b[f] = Widest(Deepening(g, b, f))
  BY DeepestSolved DEF FiniteGraphs, DeepestBody
<1>2. /\ Deepening(g, b, f) \in SUBSET Candidates /\ IsFiniteSet(Deepening(g, b, f))
  BY <1>1, DeepeningTypes
<1>3. /\ b[f].seen <=> Deepening(g, b, f) # {}
      /\ \A x \in Deepening(g, b, f) : x.amount <= b[f].amount
  BY <1>1, <1>2, WidestOf
<1>4. /\ Prologue(g, f) \in Nat
      /\ \A c \in g[f] : /\ c.callee \in Funcs /\ c.saves \in Nat /\ Held(g, f, c) \in Nat
                         /\ Held(g, f, c) = Prologue(g, f) + c.saves
  BY <1>1, Shares
<1>5. ASSUME NEW c \in Onward(g, b, f)
      PROVE  /\ Plus(Held(g, f, c), b[c.callee]) \in Deepening(g, b, f)
             /\ Plus(Held(g, f, c), b[c.callee]).amount = Held(g, f, c) + b[c.callee].amount
             /\ b[c.callee].amount \in Nat
  <2>1. c \in g[f]
    BY DEF Onward
  <2>2. Held(g, f, c) \in Nat /\ b[c.callee] \in Widths
    BY <1>1, <1>4, <2>1
  <2>3. Plus(Held(g, f, c), b[c.callee]) \in Deepening(g, b, f)
    BY DEF Deepening
  <2>4. Plus(Held(g, f, c), b[c.callee]).amount = Held(g, f, c) + b[c.callee].amount
    BY <2>2, PlusOf
  <2> QED
    BY <2>2, <2>3, <2>4 DEF Widths
<1>6. \A x \in OwnEnd(g, f) : x.amount = Prologue(g, f)
  <2>1. PICK own : own = Candidate(Prologue(g, f), TRUE)
    OBVIOUS
  <2>2. OwnEnd(g, f) \subseteq {own}
    BY <2>1 DEF OwnEnd
  <2>3. own.amount = Prologue(g, f)
    BY <1>4, <2>1, CandidateOf
  <2> QED
    BY <2>2, <2>3
<1>7. ASSUME b[f].seen PROVE Prologue(g, f) <= b[f].amount
  <2>1. PICK x : x \in Deepening(g, b, f)
    BY <1>3, <1>7
  <2>2. x.amount >= Prologue(g, f) /\ x.amount \in Nat
    <3>1. CASE x \in OwnEnd(g, f)
      BY <1>4, <1>6, <3>1
    <3>2. CASE x \notin OwnEnd(g, f)
      <4>1. PICK c \in Onward(g, b, f) : x = Plus(Held(g, f, c), b[c.callee])
        BY <2>1, <3>2 DEF Deepening
      <4>2. x.amount = Held(g, f, c) + b[c.callee].amount /\ b[c.callee].amount \in Nat
        BY <1>5, <4>1
      <4>3. c \in g[f]
        BY DEF Onward
      <4> QED
        BY <1>4, <4>2, <4>3
    <3> QED
      BY <3>1, <3>2
  <2>3. x.amount <= b[f].amount /\ b[f].amount \in Nat
    BY <1>1, <1>3, <2>1 DEF Widths
  <2> QED
    BY <1>4, <2>2, <2>3
<1>8. ~b[f].seen => \E h \in Callees(g, f) : IsRecursive(g, h)
  BY <1>3 DEF Deepening, OwnEnd
<1>9. ASSUME NEW c \in g[f], ~IsRecursive(g, c.callee), b[c.callee].seen
      PROVE  b[f].seen /\ Held(g, f, c) + b[c.callee].amount <= b[f].amount
  <2>1. c \in Onward(g, b, f)
    BY <1>9 DEF Onward
  <2> QED
    BY <1>3, <1>5, <2>1
<1> QED
  BY <1>1, <1>7, <1>8, <1>9

-----------------------------------------------------------------------------
(* What a chain of calls holds                                             *)

LEMMA EachCall ==
  ASSUME NEW g \in CallGraphs, NEW s, Calls(g, s)
  PROVE  /\ s \in Seq(Activation) /\ Len(s) \in Nat /\ Len(s) >= 1
         /\ \A i \in 1..Len(s) : s[i].func \in Reachable(g) /\ s[i].func \in Funcs
         /\ \A i \in 1..Len(s) : /\ s[i].holds \in Nat
                                 /\ s[i].holds >= Prologue(g, s[i].func)
         /\ \A i \in 1..Len(s) : i < Len(s) =>
              \E c \in g[s[i].func] : /\ c.callee = s[i + 1].func
                                      /\ s[i].holds = Held(g, s[i].func, c)
<1>1. /\ s \in Seq(Activation) /\ Len(s) \in Nat /\ Len(s) >= 1 /\ s[1].func = Entry
      /\ \A i \in 1..Len(s) : s[i].func \in Funcs /\ s[i] \in Activation
      /\ \A i \in 1..Len(s) : HoldsItsShare(g, s[i])
  BY ChainDescends DEF Calls
<1>2. ASSUME NEW i \in 1..Len(s) PROVE s[i].func \in Reachable(g)
  <2>1. CASE i = 1
    BY <1>1, <2>1 DEF Reachable
  <2>2. CASE i # 1
    <3>1. 1 \in 1..Len(s) /\ 1 < i
      BY <1>1, <2>2
    <3> QED
      BY <1>1, <3>1, ChainDescends DEF Reachable
  <2> QED
    BY <2>1, <2>2
<1>3. \A i \in 1..Len(s) : s[i].holds \in Nat /\ s[i].holds >= Prologue(g, s[i].func)
  BY <1>1, ShareCoversPrologue
<1>4. ASSUME NEW i \in 1..Len(s), i < Len(s)
      PROVE  \E c \in g[s[i].func] : /\ c.callee = s[i + 1].func
                                     /\ s[i].holds = Held(g, s[i].func, c)
  <2>1. i + 1 \in 1..Len(s) /\ s[i].calling = s[i + 1].func
    BY <1>1, <1>4 DEF Calls
  <2>2. s[i].calling # Nobody
    BY <1>1, <2>1, Shares
  <2> QED
    BY <1>1, <2>1, <2>2 DEF HoldsItsShare
<1> QED
  BY <1>1, <1>2, <1>3, <1>4

(* What the chain into an activation holds is what Entered says at most,   *)
(* and exactly that if there was no choice.                                *)
LEMMA HeldOnEntry ==
  ASSUME NEW g \in FiniteGraphs, NEW s, Calls(g, s), NEW e, e = Entered(g),
         NEW i \in 1..Len(s), e[s[i].func].seen
  PROVE  /\ HeldUpTo(s, i - 1) <= e[s[i].func].amount
         /\ e[s[i].func].exact => HeldUpTo(s, i - 1) = e[s[i].func].amount
<1> DEFINE Right(k) == /\ HeldUpTo(s, k - 1) <= e[s[k].func].amount
                       /\ e[s[k].func].exact => HeldUpTo(s, k - 1) = e[s[k].func].amount
           E == {n \in Nat : n + 1 \in 1..Len(s) => (e[s[n + 1].func].seen => Right(n + 1))}
<1>0. g \in CallGraphs /\ s \in Seq(Activation) /\ Len(s) \in Nat /\ s[1].func = Entry
  BY DEF FiniteGraphs, Calls
<1>1. \A k \in 1..Len(s) : e[s[k].func] \in Widths
  BY <1>0, EachCall, EnteredIs
<1>2. 0 \in E
  <2> SUFFICES ASSUME 1 \in 1..Len(s), e[Entry].seen PROVE Right(1)
    BY <1>0
  <2>1. HeldUpTo(s, 0) = 0 /\ 1 - 1 = 0
    BY <1>0, HeldSteps
  <2>2. e[Entry].amount \in Nat
    BY <1>0, <1>1 DEF Widths
  <2>3. e[Entry].exact => e[Entry].amount = 0
    BY EnteredIs
  <2> QED
    BY <1>0, <2>1, <2>2, <2>3
<1>3. ASSUME NEW n \in Nat, n \in E PROVE n + 1 \in E
  <2> SUFFICES ASSUME (n + 1) + 1 \in 1..Len(s), e[s[(n + 1) + 1].func].seen
               PROVE  Right((n + 1) + 1)
    OBVIOUS
  <2>1. PICK k : k = n + 1 /\ k \in 1..Len(s) /\ k < Len(s) /\ k + 1 \in 1..Len(s) /\ k \in Nat
    BY <1>0
  <2>2. PICK c \in g[s[k].func] : c.callee = s[k + 1].func /\ s[k].holds = Held(g, s[k].func, c)
    BY <1>0, <2>1, EachCall
  <2>3. s[k].func \in Reachable(g) /\ s[k].holds \in Nat /\ e[c.callee].seen
    BY <1>0, <2>1, <2>2, EachCall
  <2>4. /\ e[s[k].func].seen
        /\ s[k].holds + e[s[k].func].amount <= e[s[k + 1].func].amount
        /\ e[s[k + 1].func].exact => /\ e[s[k].func].exact
                                     /\ s[k].holds + e[s[k].func].amount = e[s[k + 1].func].amount
    BY <2>2, <2>3, EnteredIs
  <2>5. Right(k)
    BY <1>3, <2>1, <2>4
  <2>6. HeldUpTo(s, k) = HeldUpTo(s, k - 1) + s[k].holds /\ HeldUpTo(s, k - 1) \in Nat
    <3>1. k - 1 \in 0..Len(s)
      BY <2>1
    <3> QED
      BY <1>0, <2>1, <3>1, HeldSteps
  <2>7. e[s[k].func].amount \in Nat /\ e[s[k + 1].func].amount \in Nat
    BY <1>1, <2>1 DEF Widths
  <2>8. (k + 1) - 1 = k
    BY <2>1
  <2>9. /\ HeldUpTo(s, k) <= e[s[k + 1].func].amount
        /\ e[s[k + 1].func].exact => HeldUpTo(s, k) = e[s[k + 1].func].amount
    BY <2>3, <2>4, <2>5, <2>6, <2>7
  <2> QED
    BY <2>1, <2>8, <2>9
<1> HIDE DEF E
<1>4. \A n \in Nat : n \in E
  BY <1>2, <1>3, Facts!Induction
<1>5. PICK n \in Nat : n + 1 = i
  <2>1. i - 1 \in Nat /\ (i - 1) + 1 = i
    BY <1>0
  <2> QED
    BY <2>1
<1> QED
  BY <1>4, <1>5 DEF E

(* Where a chain goes on without recursion, it holds no more than the      *)
(* depth below says.                                                       *)
LEMMA HeldFromThere ==
  ASSUME NEW g \in FiniteGraphs, NEW s, Calls(g, s), NEW b, b = DeepestBelow(g),
         NEW k \in 1..Len(s), \A i \in k..Len(s) : ~IsRecursive(g, s[i].func),
         s[Len(s)].holds = Prologue(g, s[Len(s)].func), b[s[Len(s)].func].seen
  PROVE  /\ b[s[k].func].seen
         /\ HeldUpTo(s, Len(s)) <= HeldUpTo(s, k - 1) + b[s[k].func].amount
<1> DEFINE L == Len(s)
           Right(i) == b[s[i].func].seen /\ HeldUpTo(s, L) <= HeldUpTo(s, i - 1) + b[s[i].func].amount
           E == {n \in Nat : L - n \in k..L => Right(L - n)}
<1>0. /\ g \in CallGraphs /\ s \in Seq(Activation) /\ L \in Nat /\ L >= 1
      /\ \A i \in 1..L : s[i].func \in Funcs /\ s[i].holds \in Nat
  BY EachCall DEF FiniteGraphs
<1>1. \A i \in 1..L : /\ HeldUpTo(s, i) = HeldUpTo(s, i - 1) + s[i].holds
                      /\ HeldUpTo(s, i - 1) \in Nat /\ HeldUpTo(s, i) \in Nat
  <2>1. \A i \in 1..L : i - 1 \in 0..L /\ i \in 0..L
    BY <1>0
  <2> QED
    BY <1>0, <2>1, HeldSteps
<1>2. \A i \in k..L : /\ i \in 1..L /\ b[s[i].func].amount \in Nat
  <2> SUFFICES ASSUME NEW i \in k..L PROVE i \in 1..L /\ b[s[i].func].amount \in Nat
    OBVIOUS
  <2>1. i \in 1..L
    BY <1>0
  <2>2. b[s[i].func] \in Widths
    BY <1>0, <2>1, DeepestIs
  <2> QED
    BY <2>1, <2>2 DEF Widths
<1>3. 0 \in E
  <2>1. L - 0 = L /\ L \in k..L /\ L \in 1..L
    BY <1>0
  <2>2. Prologue(g, s[L].func) <= b[s[L].func].amount
    BY <1>0, <2>1, DeepestIs
  <2>3. Right(L)
    <3> HIDE DEF L
    <3>1. s[L].holds = Prologue(g, s[L].func) /\ b[s[L].func].seen
      BY DEF L
    <3> QED
      BY <1>0, <1>1, <1>2, <2>1, <2>2, <3>1
  <2> QED
    BY <2>1, <2>3
<1>4. ASSUME NEW n \in Nat, n \in E PROVE n + 1 \in E
  <2> SUFFICES ASSUME L - (n + 1) \in k..L PROVE Right(L - (n + 1))
    OBVIOUS
  <2>1. PICK i : /\ i = L - (n + 1) /\ i \in k..L /\ i + 1 = L - n /\ i + 1 \in k..L
                 /\ i \in 1..L /\ i + 1 \in 1..L /\ i < L /\ i \in Nat /\ (i + 1) - 1 = i
    BY <1>0
  <2>2. Right(i + 1)
    BY <1>4, <2>1
  <2>3. PICK c \in g[s[i].func] : c.callee = s[i + 1].func /\ s[i].holds = Held(g, s[i].func, c)
    BY <1>0, <2>1, EachCall
  <2>4. ~IsRecursive(g, s[i].func) /\ ~IsRecursive(g, c.callee)
    BY <2>1, <2>3
  <2>5. b[s[i].func].seen /\ s[i].holds + b[s[i + 1].func].amount <= b[s[i].func].amount
    BY <1>0, <2>1, <2>2, <2>3, <2>4, DeepestIs
  <2>6. HeldUpTo(s, L) <= HeldUpTo(s, i) + b[s[i + 1].func].amount
    BY <2>1, <2>2
  <2>7. HeldUpTo(s, L) <= HeldUpTo(s, i - 1) + b[s[i].func].amount
    <3>1. L \in 1..L
      BY <1>0
    <3>2. HeldUpTo(s, L) \in Nat
      BY <1>1, <3>1
    <3>3. PICK all, now, next, under, down :
            /\ all = HeldUpTo(s, L) /\ now = HeldUpTo(s, i - 1) /\ next = HeldUpTo(s, i)
            /\ under = b[s[i + 1].func].amount /\ down = b[s[i].func].amount
      OBVIOUS
    <3>4. /\ all \in Nat /\ now \in Nat /\ under \in Nat /\ down \in Nat /\ s[i].holds \in Nat
          /\ next = now + s[i].holds
      BY <1>0, <1>1, <1>2, <2>1, <3>2, <3>3
    <3>5. all <= next + under /\ s[i].holds + under <= down
      BY <2>5, <2>6, <3>3
    <3>6. all <= now + down
      BY <3>4, <3>5
    <3> QED
      BY <3>3, <3>6
  <2> QED
    BY <2>1, <2>5, <2>7
<1> HIDE DEF E
<1>5. \A n \in Nat : n \in E
  BY <1>3, <1>4, Facts!Induction
<1>6. PICK n \in Nat : L - n = k
  <2>1. L - k \in Nat /\ L - (L - k) = k
    BY <1>0
  <2> QED
    BY <2>1
<1>7. k \in k..L
  BY <1>0
<1> QED
  BY <1>5, <1>6, <1>7 DEF E

-----------------------------------------------------------------------------
(* What a report says                                                      *)

LEMMA SpentIs ==
  ASSUME NEW g \in FiniteGraphs, NEW C \in SUBSET Funcs, NEW e, e = Entered(g),
         NEW w, w = Spent(g, C)
  PROVE  /\ w \in Widths
         /\ \A u \in Reachable(g) \ C : \A c \in g[u] : c.callee \in C =>
              /\ <<u, c>> \in Into(g, C)
              /\ Held(g, u, c) + e[u].amount <= w.amount
              /\ w.exact => e[u].exact /\ Held(g, u, c) + e[u].amount = w.amount
         /\ Into(g, C) = {} => w.amount = 0
<1> DEFINE h == [p \in AllCalls(g) |-> Plus(Held(g, p[1], p[2]), e[p[1]])]
           A == {Plus(Held(g, c[1], c[2]), e[c[1]]) : c \in Into(g, C)}
           Z == IF Into(g, C) = {} THEN {Candidate(0, TRUE)} ELSE {}
<1>0. g \in CallGraphs /\ Reachable(g) \in SUBSET Funcs /\ \A f \in Funcs : e[f] \in Widths
  BY ReachableFuncs, EnteredIs DEF FiniteGraphs
<1>1. PICK z : z = Candidate(0, TRUE)
  OBVIOUS
<1>2. z \in Candidates /\ z.amount = 0
  BY <1>1, CandidateOf
<1>3. Z \subseteq {z} /\ (Into(g, C) = {} => Z = {z})
  BY <1>1
<1>4. ASSUME NEW u \in Funcs, NEW c \in g[u]
      PROVE  /\ Plus(Held(g, u, c), e[u]) \in Candidates
             /\ Plus(Held(g, u, c), e[u]).amount = Held(g, u, c) + e[u].amount
             /\ Plus(Held(g, u, c), e[u]).exact = e[u].exact
             /\ <<u, c>> \in AllCalls(g) /\ h[<<u, c>>] = Plus(Held(g, u, c), e[u])
  <2>1. Held(g, u, c) \in Nat /\ e[u] \in Widths
    BY <1>0, Shares
  <2>2. <<u, c>> \in AllCalls(g)
    BY DEF AllCalls
  <2>3. h[<<u, c>>] = Plus(Held(g, u, c), e[u])
    BY <2>2
  <2> QED
    BY <2>1, <2>2, <2>3, PlusOf
<1>5. \A p \in Into(g, C) : \E u \in Reachable(g) \ C : \E c \in g[u] :
        p = <<u, c>> /\ p[1] = u /\ p[2] = c /\ c.callee \in C
  BY DEF Into
<1>6. \A u \in Reachable(g) \ C : \A c \in g[u] : c.callee \in C => <<u, c>> \in Into(g, C)
  BY DEF Into
<1>7. h = [p \in AllCalls(g) |-> h[p]]
  OBVIOUS
<1> HIDE DEF h, Z
<1>8. ASSUME NEW x \in A
      PROVE  x \in Candidates /\ \E p \in AllCalls(g) : x = h[p]
  <2>1. PICK u \in Reachable(g) \ C : \E c \in g[u] : x = Plus(Held(g, u, c), e[u])
    BY <1>5
  <2> QED
    BY <1>0, <1>4, <2>1
<1>9. ASSUME NEW u \in Reachable(g) \ C, NEW c \in g[u], c.callee \in C
      PROVE  Plus(Held(g, u, c), e[u]) \in A
  <2>1. <<u, c>> \in Into(g, C)
    BY <1>6, <1>9
  <2>2. <<u, c>>[1] = u /\ <<u, c>>[2] = c
    OBVIOUS
  <2>3. \A p : p \in Into(g, C) => Plus(Held(g, p[1], p[2]), e[p[1]]) \in A
    OBVIOUS
  <2> HIDE DEF A
  <2> QED
    BY <2>1, <2>2, <2>3
<1>10. w = Widest(A \cup Z)
  BY DEF Spent, Z
<1> HIDE DEF A
<1>11. A \cup Z \in SUBSET Candidates
  BY <1>2, <1>3, <1>8
<1>12. IsFiniteSet(A \cup Z)
  <2>1. \A x \in A \cup Z : x = z \/ \E p \in AllCalls(g) : x = h[p]
    BY <1>3, <1>8
  <2> QED
    BY <1>7, <2>1, FiniteCandidates
<1>13. /\ w \in Widths
       /\ \A x \in A \cup Z : x.amount <= w.amount
       /\ w.exact => \A x \in A \cup Z : x.exact /\ x.amount = w.amount
  <2>1. PICK T : T = A \cup Z
    OBVIOUS
  <2>2. w = Widest(T) /\ T \in SUBSET Candidates /\ IsFiniteSet(T)
    BY <1>10, <1>11, <1>12, <2>1
  <2>3. /\ w \in Widths
        /\ \A x \in T : x.amount <= w.amount
        /\ w.exact => \A x \in T : x.exact /\ x.amount = w.amount
    BY <2>2, WidestOf
  <2> QED
    BY <2>1, <2>3
<1>14. Into(g, C) = {} => w.amount = 0
  <2> SUFFICES ASSUME Into(g, C) = {} PROVE w.amount = 0
    OBVIOUS
  <2>1. A = {}
    BY DEF A
  <2>2. A \cup Z = {z}
    BY <1>3, <2>1
  <2>3. w = Widest({z}) /\ {z} \in SUBSET Candidates /\ IsFiniteSet({z})
    BY <1>2, <1>10, <2>2, FS_Singleton
  <2>4. w.amount = 0
    <3>1. z.exact
      BY <1>1, CandidateOf
    <3>2. Widest({z}).exact
      BY <1>2, <3>1 DEF Widest
    <3> QED
      BY <1>2, <2>3, <3>2, WidestOf
  <2> QED
    BY <2>4
<1>15. ASSUME NEW u \in Reachable(g) \ C, NEW c \in g[u], c.callee \in C
       PROVE  /\ <<u, c>> \in Into(g, C)
              /\ Held(g, u, c) + e[u].amount <= w.amount
              /\ w.exact => e[u].exact /\ Held(g, u, c) + e[u].amount = w.amount
  <2>1. PICK x \in A : x = Plus(Held(g, u, c), e[u])
    BY <1>9, <1>15
  <2>2. x.amount = Held(g, u, c) + e[u].amount /\ x.exact = e[u].exact
    BY <1>0, <1>4, <2>1
  <2> QED
    BY <1>6, <1>13, <1>15, <2>1, <2>2
<1> QED
  BY <1>13, <1>14, <1>15

LEMMA ContinueIs ==
  ASSUME NEW g \in FiniteGraphs, NEW C \in SUBSET Funcs, NEW w, w = Continue(g, C)
  PROVE  /\ w \in Widths
         /\ \A f \in C : \A c \in g[f] : c.callee \in C =>
              /\ Held(g, f, c) <= w.amount
              /\ w.exact => Held(g, f, c) = w.amount
<1> DEFINE h == [p \in AllCalls(g) |-> Candidate(Held(g, p[1], p[2]), TRUE)]
           A == UNION {{Candidate(Held(g, f, s), TRUE) : s \in {t \in g[f] : t.callee \in C}} : f \in C}
<1>0. g \in CallGraphs
  BY DEF FiniteGraphs
<1>1. ASSUME NEW f \in Funcs, NEW c \in g[f]
      PROVE  /\ Candidate(Held(g, f, c), TRUE) \in Candidates
             /\ Candidate(Held(g, f, c), TRUE).amount = Held(g, f, c)
             /\ <<f, c>> \in AllCalls(g) /\ h[<<f, c>>] = Candidate(Held(g, f, c), TRUE)
  <2>1. Held(g, f, c) \in Nat
    BY <1>0, Shares
  <2>2. <<f, c>> \in AllCalls(g)
    BY DEF AllCalls
  <2>3. h[<<f, c>>] = Candidate(Held(g, f, c), TRUE)
    BY <2>2
  <2> QED
    BY <2>1, <2>2, <2>3, CandidateOf
<1>2. h = [p \in AllCalls(g) |-> h[p]]
  OBVIOUS
<1> HIDE DEF h
<1>3. \A x \in A : \E f \in C : \E c \in g[f] : x = Candidate(Held(g, f, c), TRUE)
  OBVIOUS
<1>4. ASSUME NEW f \in C, NEW c \in g[f], c.callee \in C
      PROVE  Candidate(Held(g, f, c), TRUE) \in A
  <2>1. c \in {t \in g[f] : t.callee \in C}
    BY <1>4
  <2>2. Candidate(Held(g, f, c), TRUE)
        \in {Candidate(Held(g, f, s), TRUE) : s \in {t \in g[f] : t.callee \in C}}
    BY <2>1
  <2> QED
    BY <2>2
<1>5. w = Widest(A)
  BY DEF Continue
<1> HIDE DEF A
<1>6. ASSUME NEW x \in A PROVE x \in Candidates /\ \E p \in AllCalls(g) : x = h[p]
  <2>1. PICK f \in C : \E c \in g[f] : x = Candidate(Held(g, f, c), TRUE)
    BY <1>3
  <2>2. PICK c \in g[f] : x = Candidate(Held(g, f, c), TRUE)
    BY <2>1
  <2> QED
    BY <1>1, <2>2
<1>7. A \in SUBSET Candidates
  BY <1>6
<1>8. IsFiniteSet(A)
  <2>1. PICK k, T : k = h /\ T = A
    OBVIOUS
  <2>2. k = [p \in AllCalls(g) |-> k[p]]
    BY <1>2, <2>1
  <2>3. IsFiniteSet({k[p] : p \in AllCalls(g)})
    BY <2>2, CallsAreFinite, Images
  <2>4. T \in SUBSET {k[p] : p \in AllCalls(g)}
    BY <1>6, <2>1
  <2>5. IsFiniteSet(T)
    BY <2>3, <2>4, FS_Subset
  <2> QED
    BY <2>1, <2>5
<1>9. /\ w \in Widths
      /\ \A x \in A : x.amount <= w.amount
      /\ w.exact => \A x \in A : x.exact /\ x.amount = w.amount
  <2>1. PICK T : T = A
    OBVIOUS
  <2>2. w = Widest(T) /\ T \in SUBSET Candidates /\ IsFiniteSet(T)
    BY <1>5, <1>7, <1>8, <2>1
  <2>3. /\ w \in Widths
        /\ \A x \in T : x.amount <= w.amount
        /\ w.exact => \A x \in T : x.exact /\ x.amount = w.amount
    BY <2>2, WidestOf
  <2> QED
    BY <2>1, <2>3
<1>10. ASSUME NEW f \in C, NEW c \in g[f], c.callee \in C
       PROVE  Held(g, f, c) <= w.amount /\ (w.exact => Held(g, f, c) = w.amount)
  <2>1. PICK x \in A : x = Candidate(Held(g, f, c), TRUE)
    BY <1>4, <1>10
  <2>2. x.amount = Held(g, f, c)
    BY <1>1, <2>1
  <2> QED
    BY <1>9, <2>1, <2>2
<1> QED
  BY <1>9, <1>10

(* How deep one member of a recursion goes when it leaves it.              *)
LeavingFrom(g, C, f) ==
  Widest({Candidate(Prologue(g, f), TRUE)}
         \cup {Plus(Held(g, f, s), DeepestBelow(g)[s.callee]) : s \in {t \in g[f] : t.callee \notin C}})

LEMMA LeavingIs ==
  ASSUME NEW g \in FiniteGraphs, NEW C \in SUBSET Funcs, NEW f \in Funcs,
         NEW b, b = DeepestBelow(g), NEW w, w = LeavingFrom(g, C, f)
  PROVE  /\ w \in Widths
         /\ Prologue(g, f) <= w.amount
         /\ w.exact => Prologue(g, f) = w.amount
         /\ \A c \in g[f] : c.callee \notin C => Held(g, f, c) + b[c.callee].amount <= w.amount
<1> DEFINE h == [p \in AllCalls(g) |-> Plus(Held(g, p[1], p[2]), b[p[2].callee])]
           A == {Plus(Held(g, f, s), b[s.callee]) : s \in {t \in g[f] : t.callee \notin C}}
<1>0. g \in CallGraphs /\ b \in [Funcs -> Widths] /\ Prologue(g, f) \in Nat
  BY DeepestSolved, Shares DEF FiniteGraphs
<1>1. PICK z : z = Candidate(Prologue(g, f), TRUE)
  OBVIOUS
<1>2. z \in Candidates /\ z.amount = Prologue(g, f)
  BY <1>0, <1>1, CandidateOf
<1>3. ASSUME NEW c \in g[f]
      PROVE  /\ Plus(Held(g, f, c), b[c.callee]) \in Candidates
             /\ Plus(Held(g, f, c), b[c.callee]).amount = Held(g, f, c) + b[c.callee].amount
             /\ \E p \in AllCalls(g) : Plus(Held(g, f, c), b[c.callee]) = h[p]
  <2>1. Held(g, f, c) \in Nat /\ b[c.callee] \in Widths
    BY <1>0, Shares
  <2>2. <<f, c>> \in AllCalls(g)
    BY DEF AllCalls
  <2>3. h[<<f, c>>] = Plus(Held(g, f, c), b[c.callee])
    BY <2>2
  <2> QED
    BY <2>1, <2>2, <2>3, PlusOf
<1>4. h = [p \in AllCalls(g) |-> h[p]]
  OBVIOUS
<1> HIDE DEF h
<1>5. PICK T : T = {z} \cup A
  OBVIOUS
<1>6. w = Widest(T)
  BY <1>1, <1>5 DEF LeavingFrom
<1>7. \A x \in T : x = z \/ \E p \in AllCalls(g) : x = h[p]
  BY <1>3, <1>5
<1>8. T \in SUBSET Candidates
  BY <1>2, <1>3, <1>5
<1>9. z \in T /\ \A c \in g[f] : c.callee \notin C => Plus(Held(g, f, c), b[c.callee]) \in T
  BY <1>5
<1> HIDE DEF A
<1>10. IsFiniteSet(T)
  <2>1. PICK k : k = h
    OBVIOUS
  <2>2. IsFiniteSet({k[p] : p \in AllCalls(g)})
    BY <1>4, <2>1, CallsAreFinite, Images
  <2>3. IsFiniteSet({k[p] : p \in AllCalls(g)} \cup {z})
    BY <2>2, FS_Singleton, FS_Union
  <2>4. T \in SUBSET ({k[p] : p \in AllCalls(g)} \cup {z})
    BY <1>7, <2>1
  <2> QED
    BY <2>3, <2>4, FS_Subset
<1>11. /\ w \in Widths
       /\ \A x \in T : x.amount <= w.amount
       /\ w.exact => \A x \in T : x.exact /\ x.amount = w.amount
  BY <1>6, <1>8, <1>10, WidestOf
<1> QED
  BY <1>2, <1>3, <1>9, <1>11

LEMMA BottomIs ==
  ASSUME NEW g \in FiniteGraphs, NEW C \in SUBSET Funcs,
         NEW b, b = DeepestBelow(g), NEW w, w = Bottom(g, C)
  PROVE  /\ w \in Widths
         /\ \A f \in C :
              /\ Prologue(g, f) <= w.amount
              /\ w.exact => Prologue(g, f) = w.amount
              /\ \A c \in g[f] : c.callee \notin C => Held(g, f, c) + b[c.callee].amount <= w.amount
<1> DEFINE h == [f \in C |-> Candidate(LeavingFrom(g, C, f).amount, LeavingFrom(g, C, f).exact)]
<1>0. ASSUME NEW f \in C
      PROVE  /\ LeavingFrom(g, C, f) \in Widths
             /\ Prologue(g, f) <= LeavingFrom(g, C, f).amount
             /\ LeavingFrom(g, C, f).exact => Prologue(g, f) = LeavingFrom(g, C, f).amount
             /\ \A c \in g[f] : c.callee \notin C =>
                  Held(g, f, c) + b[c.callee].amount <= LeavingFrom(g, C, f).amount
  BY LeavingIs
<1>1. ASSUME NEW f \in C
      PROVE  /\ h[f] \in Candidates /\ h[f].amount = LeavingFrom(g, C, f).amount
             /\ h[f].exact = LeavingFrom(g, C, f).exact
  <2>1. LeavingFrom(g, C, f).amount \in Nat /\ LeavingFrom(g, C, f).exact \in BOOLEAN
    BY <1>0 DEF Widths
  <2> QED
    BY <2>1, CandidateOf
<1>2. PICK T : T = {h[f] : f \in C}
  OBVIOUS
<1>3. w = Widest({Candidate(LeavingFrom(g, C, f).amount, LeavingFrom(g, C, f).exact) : f \in C})
  BY DEF Bottom, LeavingFrom
<1>4. w = Widest(T)
  BY <1>2, <1>3
<1>5. IsFiniteSet(C)
  BY FuncsAssumption, FS_Subset
<1>6. h = [f \in C |-> h[f]]
  OBVIOUS
<1> HIDE DEF h
<1>7. IsFiniteSet(T) /\ T \in SUBSET Candidates
  BY <1>1, <1>2, <1>5, <1>6, Images
<1>8. /\ w \in Widths
      /\ \A x \in T : x.amount <= w.amount
      /\ w.exact => \A x \in T : x.exact /\ x.amount = w.amount
  BY <1>4, <1>7, WidestOf
<1>9. ASSUME NEW f \in C
      PROVE  /\ Prologue(g, f) <= w.amount
             /\ w.exact => Prologue(g, f) = w.amount
             /\ \A c \in g[f] : c.callee \notin C => Held(g, f, c) + b[c.callee].amount <= w.amount
  <2>1. PICK x \in T : x = h[f]
    BY <1>2
  <2>2. x.amount = LeavingFrom(g, C, f).amount /\ x.exact = LeavingFrom(g, C, f).exact
    BY <1>1, <2>1
  <2>3. x.amount \in Nat /\ x.amount <= w.amount /\ w.amount \in Nat /\ Prologue(g, f) \in Nat
    BY <1>8, <2>1, Shares, <1>7 DEF Candidates, Widths, FiniteGraphs
  <2>4. Prologue(g, f) <= w.amount /\ (w.exact => Prologue(g, f) = w.amount)
    BY <1>0, <1>8, <2>1, <2>2, <2>3
  <2>5. ASSUME NEW c \in g[f], c.callee \notin C
        PROVE  Held(g, f, c) + b[c.callee].amount <= w.amount
    <3>1. Held(g, f, c) + b[c.callee].amount <= x.amount
      BY <1>0, <2>2, <2>5
    <3>2. Held(g, f, c) \in Nat /\ b[c.callee].amount \in Nat
      <4>1. c.callee \in Funcs /\ Held(g, f, c) \in Nat
        BY Shares DEF FiniteGraphs
      <4> QED
        BY <4>1, DeepestSolved DEF Widths
    <3> QED
      BY <2>3, <3>1, <3>2
  <2> QED
    BY <2>4, <2>5
<1> QED
  BY <1>8, <1>9

(* What it takes for a report to name a count.                             *)
LEMMA CountSays ==
  ASSUME NEW g \in FiniteGraphs, NEW C \in SUBSET Funcs, NEW n \in Nat,
         NEW r, r = Report(g, C, n), r.kind = "count",
         NEW step, step = Continue(g, C).amount,
         NEW room, room = n - Spent(g, C).amount - Bottom(g, C).amount
  PROVE  /\ ~BracketAbove(g, C) /\ ~BracketBelow(g, C)
         /\ step \in Nat /\ step # 0 /\ room \in Nat
         /\ r.depth = room \div step + 1
         /\ r.exact => Continue(g, C).exact /\ Spent(g, C).exact /\ Bottom(g, C).exact
<1>1. /\ step \in Nat /\ Spent(g, C).amount \in Nat /\ Bottom(g, C).amount \in Nat
  BY ContinueIs, SpentIs, BottomIs DEF Widths
<1>2. room \in Int
  BY <1>1
<1>3. ~(BracketAbove(g, C) \/ BracketBelow(g, C) \/ step = 0)
  BY DEF Report
<1>4. ~(room < 0)
  BY <1>3 DEF Report
<1>5. r = [cycle |-> C, kind |-> "count", depth |-> DepthOf(room, step),
           exact |-> Continue(g, C).exact /\ Spent(g, C).exact /\ Bottom(g, C).exact]
  BY <1>3, <1>4 DEF Report
<1>6. r.depth = DepthOf(room, step)
      /\ r.exact = (Continue(g, C).exact /\ Spent(g, C).exact /\ Bottom(g, C).exact)
  BY <1>5
<1>7. room \in Nat
  BY <1>2, <1>4
<1> QED
  BY <1>1, <1>3, <1>6, <1>7 DEF DepthOf

-----------------------------------------------------------------------------
(* A recursion on the stack                                                *)

(* A set of functions nothing leaves and comes back to.                    *)
IsRecursion(g, C) ==
  /\ C \in SUBSET Funcs
  /\ \A x \in C : IsRecursive(g, x)
  /\ \A x, y \in C : \A h \in Funcs : (h \in Below(g, x) /\ y \in Below(g, h)) => h \in C

LEMMA Recursions ==
  ASSUME NEW g \in CallGraphs, NEW f \in Funcs, IsRecursive(g, f)
  PROVE  IsRecursion(g, Component(g, f)) /\ f \in Component(g, f)
<1> DEFINE C == Component(g, f)
<1>1. f \in C /\ C \in SUBSET Funcs
  BY BelowIsLeast DEF Component
<1>2. \A x \in C : x \in Below(g, f) /\ f \in Below(g, x)
  BY DEF Component, IsRecursive
<1>3. \A x, y \in Funcs : y \in Below(g, x) => Below(g, y) \subseteq Below(g, x)
  BY BelowGoesOn
<1>4. \A x \in C : IsRecursive(g, x)
  BY <1>1, <1>2, <1>3 DEF IsRecursive
<1>5. ASSUME NEW x \in C, NEW y \in C, NEW h \in Funcs, h \in Below(g, x), y \in Below(g, h)
      PROVE  h \in C
  <2>1. h \in Below(g, f) /\ f \in Below(g, h)
    BY <1>1, <1>2, <1>3, <1>5
  <2> QED
    BY <2>1 DEF Component
<1> QED
  BY <1>1, <1>4, <1>5 DEF IsRecursion

(* Its activations follow one another.                                     *)
LEMMA RecursionIsInterval ==
  ASSUME NEW g \in CallGraphs, NEW s, Calls(g, s), NEW C, IsRecursion(g, C),
         NEW k \in 1..Len(s), s[k].func \in C
  PROVE  \E i, j \in 1..Len(s) : /\ i <= j
                                 /\ \A m \in 1..Len(s) : s[m].func \in C <=> m \in i..j
<1> DEFINE T == {m \in 1..Len(s) : s[m].func \in C}
<1>0. Len(s) \in Nat
  BY DEF Calls
<1>1. T \in SUBSET Nat /\ T # {}
  BY <1>0
<1>2. IsFiniteSet(T)
  <2>1. IsFiniteSet(1..Len(s))
    BY <1>0, FS_Interval
  <2>2. T \in SUBSET (1..Len(s))
    OBVIOUS
  <2> HIDE DEF T
  <2> QED
    BY <2>1, <2>2, FS_Subset
<1> HIDE DEF T
<1>3. PICK i \in T : \A m \in T : i <= m
  BY <1>1, Facts!LeastNatural
<1>4. PICK j \in T : \A m \in T : m <= j
  <2>1. Max(T) \in T /\ \A m \in T : m <= Max(T)
    BY <1>1, <1>2, Greatest
  <2> QED
    BY <2>1
<1>5. i \in 1..Len(s) /\ j \in 1..Len(s) /\ i <= j /\ s[i].func \in C /\ s[j].func \in C
  BY <1>3, <1>4 DEF T
<1>6. ASSUME NEW m \in 1..Len(s), m \in i..j PROVE s[m].func \in C
  <2>1. CASE m = i \/ m = j
    BY <1>5, <2>1
  <2>2. CASE i < m /\ m < j
    <3>1. s[m].func \in Funcs /\ s[m].func \in Below(g, s[i].func) /\ s[j].func \in Below(g, s[m].func)
      BY <1>5, <2>2, ChainDescends
    <3> QED
      BY <1>5, <3>1 DEF IsRecursion
  <2> QED
    BY <1>0, <1>5, <1>6, <2>1, <2>2
<1>7. ASSUME NEW m \in 1..Len(s), s[m].func \in C PROVE m \in i..j
  <2>1. m \in T
    BY <1>7 DEF T
  <2> QED
    BY <1>0, <1>3, <1>4, <1>5, <2>1
<1> QED
  BY <1>5, <1>6, <1>7

(* What the chain that reached it holds is what Spent says at most, and    *)
(* exactly that if there was no choice.                                    *)
LEMMA HeldInto ==
  ASSUME NEW g \in FiniteGraphs, NEW s, Calls(g, s), NEW C, IsRecursion(g, C),
         ~BracketAbove(g, C), NEW w, w = Spent(g, C),
         NEW i \in 1..Len(s), s[i].func \in C, i > 1 => s[i - 1].func \notin C
  PROVE  /\ w \in Widths
         /\ HeldUpTo(s, i - 1) <= w.amount
         /\ w.exact => HeldUpTo(s, i - 1) = w.amount
<1>0. /\ g \in CallGraphs /\ s \in Seq(Activation) /\ Len(s) \in Nat /\ C \in SUBSET Funcs
      /\ \A k \in 1..Len(s) : s[k].func \in Reachable(g) /\ s[k].func \in Funcs
  BY EachCall DEF FiniteGraphs, IsRecursion
<1>1. PICK e : e = Entered(g)
  OBVIOUS
<1>2. /\ w \in Widths /\ w.amount \in Nat
      /\ Into(g, C) = {} => w.amount = 0
  BY <1>0, SpentIs DEF Widths
<1>3. CASE i = 1
  <2>1. Entry \in C
    BY <1>3 DEF Calls
  <2>2. ASSUME NEW p \in Into(g, C) PROVE FALSE
    <3>1. PICK u \in Reachable(g) \ C : \E c \in g[u] : c.callee \in C
      BY <2>2 DEF Into
    <3>2. PICK c \in g[u] : c.callee \in C
      BY <3>1
    <3>3. u \in Funcs /\ u \in Below(g, Entry)
      BY <1>0, <2>1, ReachableFuncs DEF Reachable
    <3>4. c.callee \in Below(g, u)
      BY <1>0, <3>3, Shares, BelowIsLeast
    <3> QED
      BY <2>1, <3>2, <3>3, <3>4 DEF IsRecursion
  <2>3. HeldUpTo(s, 0) = 0 /\ i - 1 = 0
    BY <1>0, <1>3, HeldSteps
  <2> QED
    BY <1>2, <2>2, <2>3
<1>4. CASE i # 1
  <2>1. PICK k : k = i - 1 /\ k \in 1..Len(s) /\ k < Len(s) /\ k + 1 = i
    BY <1>0, <1>4
  <2>2. PICK c \in g[s[k].func] : c.callee = s[i].func /\ s[k].holds = Held(g, s[k].func, c)
    BY <1>0, <2>1, EachCall
  <2>3. s[k].func \in Reachable(g) \ C /\ c.callee \in C
    BY <1>0, <1>4, <2>1, <2>2
  <2>4. /\ <<s[k].func, c>> \in Into(g, C)
        /\ Held(g, s[k].func, c) + e[s[k].func].amount <= w.amount
        /\ w.exact => /\ e[s[k].func].exact
                      /\ Held(g, s[k].func, c) + e[s[k].func].amount = w.amount
    BY <1>0, <1>1, <2>2, <2>3, SpentIs
  <2>5. e[s[k].func].seen
    <3>1. PICK p \in Into(g, C) : p = <<s[k].func, c>>
      BY <2>4
    <3>2. p[1] = s[k].func
      BY <3>1
    <3>3. Entered(g)[p[1]].seen
      BY DEF BracketAbove
    <3> QED
      BY <1>1, <3>2, <3>3
  <2>6. /\ HeldUpTo(s, k - 1) <= e[s[k].func].amount
        /\ e[s[k].func].exact => HeldUpTo(s, k - 1) = e[s[k].func].amount
    BY <1>1, <2>1, <2>5, HeldOnEntry
  <2>7. /\ HeldUpTo(s, k) = HeldUpTo(s, k - 1) + s[k].holds /\ HeldUpTo(s, k - 1) \in Nat
        /\ s[k].holds \in Nat /\ e[s[k].func].amount \in Nat
    <3>1. k - 1 \in 0..Len(s) /\ k \in 1..Len(s)
      BY <1>0, <2>1
    <3>2. e[s[k].func] \in Widths
      BY <1>0, <1>1, <3>1, EnteredIs
    <3>3. HeldUpTo(s, k) = HeldUpTo(s, k - 1) + s[k].holds /\ HeldUpTo(s, k - 1) \in Nat
      BY <1>0, <3>1, HeldSteps
    <3>4. s[k].holds \in Nat
      BY <1>0, <3>1, EachCall
    <3> QED
      BY <3>2, <3>3, <3>4 DEF Widths
  <2>8. HeldUpTo(s, k) <= w.amount /\ (w.exact => HeldUpTo(s, k) = w.amount)
    BY <1>2, <2>2, <2>4, <2>6, <2>7
  <2> QED
    BY <1>2, <2>1, <2>8
<1> QED
  BY <1>3, <1>4

EachAtMost(s, i, d, step) == \A k \in i..(i + d - 1) : s[k].holds <= step
EachExactly(s, i, d, step) == \A k \in i..(i + d - 1) : s[k].holds = step

(* As long as each activation holds a step at most, so many hold so many   *)
(* steps at most; and exactly that many if each holds exactly a step.      *)
LEMMA HeldInSteps ==
  ASSUME NEW s \in Seq(Activation), NEW step \in Nat, NEW i \in 1..Len(s), NEW d \in Nat,
         i + d <= Len(s), EachAtMost(s, i, d, step)
  PROVE  /\ HeldUpTo(s, i + d - 1) <= HeldUpTo(s, i - 1) + d * step
         /\ EachExactly(s, i, d, step) =>
              HeldUpTo(s, i + d - 1) = HeldUpTo(s, i - 1) + d * step
<1> DEFINE Right(n) ==
             /\ HeldUpTo(s, i + n - 1) <= HeldUpTo(s, i - 1) + n * step
             /\ EachExactly(s, i, d, step) =>
                  HeldUpTo(s, i + n - 1) = HeldUpTo(s, i - 1) + n * step
           E == {n \in Nat : n <= d => Right(n)}
<1>0. Len(s) \in Nat /\ \A k \in 1..Len(s) : s[k].holds \in Nat
  <2>1. Len(s) \in Nat /\ \A k \in 1..Len(s) : s[k] \in Activation
    OBVIOUS
  <2> QED
    BY <2>1 DEF Activation
<1>1. 0 \in E
  <2>1. i - 1 \in 0..Len(s)
    BY <1>0
  <2>2. PICK h : h = HeldUpTo(s, i - 1)
    OBVIOUS
  <2>3. h \in Nat
    BY <2>1, <2>2, HeldSteps
  <2>4. i + 0 - 1 = i - 1 /\ 0 * step = 0 /\ h <= h + 0 /\ h = h + 0
    BY <1>0, <2>3
  <2> QED
    BY <2>2, <2>4
<1>2. ASSUME NEW n \in Nat, n \in E PROVE n + 1 \in E
  <2> SUFFICES ASSUME n + 1 <= d PROVE Right(n + 1)
    OBVIOUS
  <2>1. PICK k : /\ k = i + n /\ k - 1 = i + n - 1 /\ k = i + (n + 1) - 1 /\ k \in 1..Len(s)
                 /\ k \in i..(i + d - 1) /\ k - 1 \in 0..Len(s) /\ i - 1 \in 0..Len(s)
    BY <1>0
  <2>2. Right(n)
    BY <1>2
  <2>3. PICK was, now, h, m, z :
          /\ was = HeldUpTo(s, i - 1) /\ now = HeldUpTo(s, k - 1) /\ h = s[k].holds
          /\ m = n * step /\ z = (n + 1) * step
    OBVIOUS
  <2>4. was \in Nat /\ now \in Nat /\ h \in Nat /\ h <= step /\ HeldUpTo(s, k) = now + h
    BY <1>0, <2>1, <2>3, HeldSteps DEF EachAtMost
  <2>5. m \in Nat /\ z = m + step
    BY <2>3
  <2>6. now <= was + m /\ (EachExactly(s, i, d, step) => now = was + m)
    BY <2>1, <2>2, <2>3
  <2>7. HeldUpTo(s, k) <= was + z
    BY <2>4, <2>5, <2>6
  <2>8. ASSUME EachExactly(s, i, d, step) PROVE HeldUpTo(s, k) = was + z
    <3>1. h = step /\ now = was + m
      BY <2>1, <2>3, <2>6, <2>8 DEF EachExactly
    <3> QED
      BY <2>4, <2>5, <3>1
  <2> QED
    BY <2>1, <2>3, <2>7, <2>8
<1> HIDE DEF E
<1>3. d \in E
  BY <1>1, <1>2, Facts!Induction
<1> QED
  BY <1>3 DEF E

(* What the chain out of a recursion holds, with its last activation       *)
(* there, is what Bottom says at most.                                     *)
LEMMA HeldOutOf ==
  ASSUME NEW g \in FiniteGraphs, NEW s, Calls(g, s), NEW C, IsRecursion(g, C),
         ~BracketBelow(g, C), NEW w, w = Bottom(g, C),
         NEW j \in 1..Len(s), s[j].func \in C, \A k \in (j + 1)..Len(s) : s[k].func \notin C,
         s[Len(s)].holds = Prologue(g, s[Len(s)].func)
  PROVE  HeldBy(s) <= HeldUpTo(s, j - 1) + w.amount
<1> DEFINE L == Len(s)
<1>0. /\ g \in CallGraphs /\ s \in Seq(Activation) /\ L \in Nat /\ L >= 1 /\ C \in SUBSET Funcs
      /\ \A k \in 1..L : s[k].func \in Funcs /\ s[k].holds \in Nat
  BY EachCall DEF FiniteGraphs, IsRecursion
<1>1. PICK b : b = DeepestBelow(g)
  OBVIOUS
<1>2. /\ w.amount \in Nat /\ Prologue(g, s[j].func) <= w.amount
      /\ \A c \in g[s[j].func] : c.callee \notin C =>
           Held(g, s[j].func, c) + b[c.callee].amount <= w.amount
  BY <1>0, <1>1, BottomIs DEF Widths
<1>3. /\ HeldUpTo(s, j) = HeldUpTo(s, j - 1) + s[j].holds
      /\ HeldUpTo(s, j - 1) \in Nat
  <2>1. j - 1 \in 0..L
    BY <1>0
  <2> QED
    BY <1>0, <2>1, HeldSteps
<1>4. CASE j = L
  BY <1>0, <1>2, <1>3, <1>4 DEF HeldBy
<1>5. CASE j # L
  <2>1. j < L /\ j + 1 \in 1..L /\ j + 1 \in (j + 1)..L /\ L \in 1..L /\ (j + 1) - 1 = j
    BY <1>0, <1>5
  <2>2. PICK c \in g[s[j].func] : c.callee = s[j + 1].func /\ s[j].holds = Held(g, s[j].func, c)
    BY <1>0, <2>1, EachCall
  <2>3. PICK h \in Funcs : h = s[j + 1].func
    BY <1>0, <2>1
  <2>4. h \notin C /\ c.callee = h /\ h \in Callees(g, s[j].func)
    BY <1>0, <2>1, <2>2, <2>3, Shares
  <2>5. ~IsRecursive(g, h) /\ \A x \in Below(g, h) : ~IsRecursive(g, x)
    BY <2>4 DEF BracketBelow, Deep
  <2>6. ASSUME NEW k \in (j + 1)..L
        PROVE  s[k].func = h \/ s[k].func \in Below(g, h)
    <3>1. k \in 1..L /\ (k = j + 1 \/ j + 1 < k)
      BY <1>0, <2>1
    <3> QED
      BY <1>0, <2>1, <2>3, <3>1, ChainDescends
  <2>7. \A k \in (j + 1)..L : ~IsRecursive(g, s[k].func)
    BY <2>5, <2>6
  <2>8. b[s[L].func].seen
    <3> SUFFICES ASSUME ~b[s[L].func].seen PROVE FALSE
      OBVIOUS
    <3>1. PICK u \in Funcs : u = s[L].func
      BY <1>0, <2>1
    <3>2. L \in (j + 1)..L
      BY <2>1
    <3>3. u = h \/ u \in Below(g, h)
      BY <2>6, <3>1, <3>2
    <3>4. PICK x \in Callees(g, u) : IsRecursive(g, x)
      BY <1>1, <2>7, <3>1, <3>2, DeepestIs
    <3>5. x \in Below(g, h)
      BY <1>0, <3>3, <3>4, BelowIsLeast
    <3> QED
      BY <2>5, <3>4, <3>5
  <2>9. HeldUpTo(s, L) <= HeldUpTo(s, j) + b[h].amount
    <3>1. HeldUpTo(s, L) <= HeldUpTo(s, (j + 1) - 1) + b[s[j + 1].func].amount
      BY <1>1, <2>1, <2>7, <2>8, HeldFromThere
    <3> QED
      BY <2>1, <2>3, <3>1
  <2>10. s[j].holds + b[h].amount <= w.amount
    BY <1>2, <2>2, <2>4
  <2>11. PICK all, was, own, under :
           /\ all = HeldUpTo(s, L) /\ was = HeldUpTo(s, j - 1)
           /\ own = s[j].holds /\ under = b[h].amount
    OBVIOUS
  <2>12. all \in Nat /\ was \in Nat /\ own \in Nat /\ under \in Nat
    <3>1. b[h] \in Widths
      BY <1>1, DeepestSolved
    <3>2. L \in 0..L
      BY <1>0
    <3>3. all \in Nat
      BY <1>0, <2>11, <3>2, HeldSteps
    <3> QED
      BY <1>0, <1>3, <2>11, <3>1, <3>3 DEF Widths
  <2>13. all <= was + own + under /\ own + under <= w.amount
    BY <1>3, <2>9, <2>10, <2>11
  <2>14. all <= was + w.amount
    BY <1>2, <2>12, <2>13
  <2> QED
    BY <2>11, <2>14 DEF HeldBy
<1> QED
  BY <1>4, <1>5

-----------------------------------------------------------------------------
(* Counting activations                                                    *)

LEMMA Quotients ==
  ASSUME NEW room \in Nat, NEW step \in Nat, step # 0, NEW d \in Nat
  PROVE  /\ d * step <= room => d <= room \div step
         /\ d * step > room => d > room \div step
<1>1. PICK q \in Nat, r \in Nat : q = room \div step /\ room = q * step + r /\ r < step
  BY SMT
<1>2. ASSUME d * step <= room PROVE d <= q
  <2> SUFFICES ASSUME d >= q + 1 PROVE FALSE
    OBVIOUS
  <2>1. PICK x \in Nat : d = (q + 1) + x
    <3>1. d - (q + 1) \in Nat /\ d = (q + 1) + (d - (q + 1))
      OBVIOUS
    <3> QED
      BY <3>1
  <2>2. PICK m, z : m = q * step /\ z = x * step
    OBVIOUS
  <2>3. m \in Nat /\ z \in Nat /\ d * step = m + step + z
    BY <2>1, <2>2
  <2> QED
    BY <1>1, <1>2, <2>2, <2>3
<1>3. ASSUME d * step > room PROVE d > q
  <2> SUFFICES ASSUME d <= q PROVE FALSE
    OBVIOUS
  <2>1. PICK x \in Nat : q = d + x
    <3>1. q - d \in Nat /\ q = d + (q - d)
      OBVIOUS
    <3> QED
      BY <3>1
  <2>2. PICK m, z : m = d * step /\ z = x * step
    OBVIOUS
  <2>3. m \in Nat /\ z \in Nat /\ q * step = m + z
    BY <2>1, <2>2
  <2> QED
    BY <1>1, <1>3, <2>2, <2>3
<1> QED
  BY <1>1, <1>2, <1>3

LEMMA HeldGrows ==
  ASSUME NEW s \in Seq(Activation), NEW j \in 1..Len(s)
  PROVE  HeldUpTo(s, j) <= HeldBy(s)
<1> DEFINE E == {n \in Nat : j + n <= Len(s) => HeldUpTo(s, j) <= HeldUpTo(s, j + n)}
<1>0. Len(s) \in Nat /\ j \in 0..Len(s) /\ \A k \in 1..Len(s) : s[k].holds \in Nat
  <2>1. Len(s) \in Nat /\ \A k \in 1..Len(s) : s[k] \in Activation
    OBVIOUS
  <2> QED
    BY <2>1 DEF Activation
<1>1. 0 \in E
  <2>1. HeldUpTo(s, j) \in Nat /\ j + 0 = j
    BY <1>0, HeldSteps
  <2> QED
    BY <2>1
<1>2. ASSUME NEW n \in Nat, n \in E PROVE n + 1 \in E
  <2> SUFFICES ASSUME j + (n + 1) <= Len(s) PROVE HeldUpTo(s, j) <= HeldUpTo(s, j + (n + 1))
    OBVIOUS
  <2>1. PICK k : /\ k = j + (n + 1) /\ k \in 1..Len(s) /\ k - 1 = j + n /\ k - 1 \in 0..Len(s)
    BY <1>0
  <2>2. HeldUpTo(s, k) = HeldUpTo(s, k - 1) + s[k].holds /\ HeldUpTo(s, k - 1) \in Nat
    BY <2>1, HeldSteps
  <2>3. HeldUpTo(s, j) <= HeldUpTo(s, k - 1) /\ HeldUpTo(s, j) \in Nat
    BY <1>0, <1>2, <2>1, HeldSteps
  <2>4. s[k].holds \in Nat
    BY <1>0, <2>1
  <2> QED
    BY <2>1, <2>2, <2>3, <2>4
<1>3. PICK n \in Nat : j + n = Len(s)
  <2>1. Len(s) - j \in Nat /\ j + (Len(s) - j) = Len(s)
    BY <1>0
  <2> QED
    BY <2>1
<1>4. n \in E
  <2> HIDE DEF E
  <2> QED
    BY <1>1, <1>2, Facts!Induction
<1>5. HeldUpTo(s, j) <= HeldUpTo(s, j + n)
  BY <1>0, <1>3, <1>4
<1> QED
  BY <1>3, <1>5 DEF HeldBy

ActiveIn(s, C) == {k \in 1..Len(s) : s[k].func \in C}

LEMMA ActiveAre ==
  ASSUME NEW g \in CallGraphs, NEW s, Calls(g, s), NEW C, IsRecursion(g, C), ActiveIn(s, C) # {}
  PROVE  \E i \in 1..Len(s) : \E d \in Nat :
           /\ i + d \in 1..Len(s) /\ Cardinality(ActiveIn(s, C)) = d + 1
           /\ \A m \in 1..Len(s) : s[m].func \in C <=> m \in i..(i + d)
<1>0. Len(s) \in Nat
  BY DEF Calls
<1>1. PICK k \in 1..Len(s) : s[k].func \in C
  BY DEF ActiveIn
<1>2. PICK i, j \in 1..Len(s) : i <= j /\ \A m \in 1..Len(s) : s[m].func \in C <=> m \in i..j
  BY <1>1, RecursionIsInterval
<1>3. PICK d \in Nat : i + d = j
  <2>1. j - i \in Nat /\ i + (j - i) = j
    BY <1>0, <1>2
  <2> QED
    BY <2>1
<1>4. ActiveIn(s, C) = i..j
  BY <1>0, <1>2 DEF ActiveIn
<1>5. Cardinality(i..j) = d + 1
  <2>1. i \in Int /\ j \in Int /\ ~(i > j) /\ j - i + 1 = d + 1
    BY <1>0, <1>2, <1>3
  <2> QED
    BY <2>1, FS_Interval
<1> QED
  BY <1>2, <1>3, <1>4, <1>5

(* The activations of a recursion on a chain: up to the first the chain    *)
(* holds what Spent says, and one step more by each that recurses again.   *)
LEMMA HeldAlong ==
  ASSUME NEW g \in FiniteGraphs, NEW s, Calls(g, s), NEW C, IsRecursion(g, C),
         ~BracketAbove(g, C), NEW i \in 1..Len(s), NEW d \in Nat, i + d \in 1..Len(s),
         \A m \in 1..Len(s) : s[m].func \in C <=> m \in i..(i + d),
         NEW n, n = HeldUpTo(s, i + d - 1),
         NEW spent, spent = Spent(g, C), NEW step, step = Continue(g, C)
  PROVE  /\ n \in Nat /\ n <= spent.amount + d * step.amount
         /\ (spent.exact /\ step.exact) => n = spent.amount + d * step.amount
<1>0. /\ g \in CallGraphs /\ s \in Seq(Activation) /\ Len(s) \in Nat /\ C \in SUBSET Funcs
      /\ \A k \in 1..Len(s) : s[k].holds \in Nat
  BY EachCall DEF FiniteGraphs, IsRecursion
<1>1. /\ i + d <= Len(s) /\ i - 1 \in 0..Len(s) /\ i + d - 1 \in 0..Len(s)
      /\ i \in i..(i + d) /\ i - 1 \notin i..(i + d) /\ (i > 1 => i - 1 \in 1..Len(s))
  BY <1>0
<1>2. s[i].func \in C /\ (i > 1 => s[i - 1].func \notin C)
  BY <1>1
<1>3. /\ spent \in Widths /\ HeldUpTo(s, i - 1) <= spent.amount
      /\ spent.exact => HeldUpTo(s, i - 1) = spent.amount
  BY <1>2, HeldInto
<1>4. /\ step \in Widths
      /\ \A f \in C : \A c \in g[f] : c.callee \in C =>
           /\ Held(g, f, c) <= step.amount
           /\ step.exact => Held(g, f, c) = step.amount
  BY <1>0, ContinueIs
<1>5. ASSUME NEW k \in i..(i + d - 1)
      PROVE  s[k].holds <= step.amount /\ (step.exact => s[k].holds = step.amount)
  <2>1. k \in 1..Len(s) /\ k < Len(s) /\ k + 1 \in 1..Len(s) /\ k \in i..(i + d) /\ k + 1 \in i..(i + d)
    BY <1>0, <1>1
  <2>2. PICK c \in g[s[k].func] : c.callee = s[k + 1].func /\ s[k].holds = Held(g, s[k].func, c)
    BY <1>0, <2>1, EachCall
  <2>3. s[k].func \in C /\ c.callee \in C
    BY <2>1, <2>2
  <2> QED
    BY <1>4, <2>2, <2>3
<1>6. PICK was, amount, most : was = HeldUpTo(s, i - 1) /\ amount = step.amount /\ most = d * amount
  OBVIOUS
<1>7. was \in Nat /\ amount \in Nat /\ most \in Nat /\ n \in Nat /\ spent.amount \in Nat
  <2>1. was \in Nat /\ n \in Nat
    BY <1>0, <1>1, <1>6, HeldSteps
  <2>2. amount \in Nat /\ spent.amount \in Nat
    BY <1>3, <1>4, <1>6 DEF Widths
  <2> QED
    BY <1>6, <2>1, <2>2
<1>8. /\ n <= was + most
      /\ EachExactly(s, i, d, amount) => n = was + most
  <2>1. EachAtMost(s, i, d, amount)
    BY <1>5, <1>6 DEF EachAtMost
  <2> QED
    BY <1>0, <1>1, <1>6, <1>7, <2>1, HeldInSteps
<1>9. n <= spent.amount + most
  BY <1>3, <1>6, <1>7, <1>8
<1>10. (spent.exact /\ step.exact) => n = spent.amount + most
  BY <1>3, <1>5, <1>6, <1>8 DEF EachExactly
<1> QED
  BY <1>6, <1>7, <1>9, <1>10

LEMMA CountIsLow ==
  ASSUME NEW g \in FiniteGraphs, NEW s, Calls(g, s), NEW C, IsRecursion(g, C),
         s[Len(s)].holds = Prologue(g, s[Len(s)].func),
         NEW n \in Nat, HeldBy(s) > n, NEW r, r = Report(g, C, n), r.kind = "count",
         ActiveIn(s, C) # {}
  PROVE  Cardinality(ActiveIn(s, C)) > r.depth
<1>0. /\ g \in CallGraphs /\ s \in Seq(Activation) /\ Len(s) \in Nat /\ C \in SUBSET Funcs
  BY EachCall DEF FiniteGraphs, IsRecursion
<1>1. PICK i \in 1..Len(s), d \in Nat :
        /\ i + d \in 1..Len(s) /\ Cardinality(ActiveIn(s, C)) = d + 1
        /\ \A m \in 1..Len(s) : s[m].func \in C <=> m \in i..(i + d)
  BY <1>0, ActiveAre
<1>2. PICK spent, step, tail, room, before :
        /\ spent = Spent(g, C) /\ step = Continue(g, C) /\ tail = Bottom(g, C)
        /\ room = n - spent.amount - tail.amount /\ before = HeldUpTo(s, i + d - 1)
  OBVIOUS
<1>3. /\ ~BracketAbove(g, C) /\ ~BracketBelow(g, C)
      /\ step.amount \in Nat /\ step.amount # 0 /\ room \in Nat
      /\ r.depth = room \div step.amount + 1
  BY <1>0, <1>2, CountSays
<1>4. before \in Nat /\ before <= spent.amount + d * step.amount
  BY <1>1, <1>2, <1>3, HeldAlong
<1>5. HeldBy(s) <= before + tail.amount
  <2>1. i + d \in i..(i + d) /\ \A k \in (i + d + 1)..Len(s) : k \in 1..Len(s) /\ k \notin i..(i + d)
    BY <1>0, <1>1
  <2>2. s[i + d].func \in C /\ \A k \in (i + d + 1)..Len(s) : s[k].func \notin C
    BY <1>1, <2>1
  <2> QED
    BY <1>1, <1>2, <1>3, <2>2, HeldOutOf
<1>6. spent.amount \in Nat /\ tail.amount \in Nat /\ HeldBy(s) \in Nat
  <2>1. Len(s) \in 0..Len(s)
    BY <1>0
  <2> QED
    BY <1>0, <1>2, <2>1, SpentIs, BottomIs, HeldSteps DEF Widths, HeldBy
<1>7. PICK a, all, most, into, out :
        /\ a = step.amount /\ all = HeldBy(s) /\ most = d * a
        /\ into = spent.amount /\ out = tail.amount
  OBVIOUS
<1>8. most \in Nat /\ most > room
  <2>1. most \in Nat
    BY <1>3, <1>7
  <2>2. /\ into \in Nat /\ out \in Nat /\ all \in Nat /\ all > n /\ room = n - into - out
        /\ before <= into + most /\ all <= before + out
    BY <1>2, <1>4, <1>5, <1>6, <1>7
  <2> QED
    BY <1>4, <2>1, <2>2
<1>9. d > room \div a
  BY <1>3, <1>7, <1>8, Quotients
<1>10. room \div a \in Int
  BY <1>3, <1>7
<1> QED
  BY <1>1, <1>3, <1>7, <1>9, <1>10

LEMMA CountIsExact ==
  ASSUME NEW g \in FiniteGraphs, NEW s, Calls(g, s), NEW C, IsRecursion(g, C),
         NEW n \in Nat, HeldBy(s) <= n, NEW r, r = Report(g, C, n), r.kind = "count", r.exact,
         ActiveIn(s, C) # {}
  PROVE  Cardinality(ActiveIn(s, C)) <= r.depth
<1>0. /\ g \in CallGraphs /\ s \in Seq(Activation) /\ Len(s) \in Nat /\ C \in SUBSET Funcs
  BY EachCall DEF FiniteGraphs, IsRecursion
<1>1. PICK i \in 1..Len(s), d \in Nat :
        /\ i + d \in 1..Len(s) /\ Cardinality(ActiveIn(s, C)) = d + 1
        /\ \A m \in 1..Len(s) : s[m].func \in C <=> m \in i..(i + d)
  BY <1>0, ActiveAre
<1>2. PICK spent, step, tail, room, before :
        /\ spent = Spent(g, C) /\ step = Continue(g, C) /\ tail = Bottom(g, C)
        /\ room = n - spent.amount - tail.amount /\ before = HeldUpTo(s, i + d - 1)
  OBVIOUS
<1>3. /\ ~BracketAbove(g, C)
      /\ step.amount \in Nat /\ step.amount # 0 /\ room \in Nat
      /\ r.depth = room \div step.amount + 1
      /\ step.exact /\ spent.exact /\ tail.exact
  BY <1>0, <1>2, CountSays
<1>4. before \in Nat /\ before = spent.amount + d * step.amount
  BY <1>1, <1>2, <1>3, HeldAlong
<1>5. HeldUpTo(s, i + d) >= before + tail.amount
  <2>1. i + d \in i..(i + d) /\ i + d - 1 \in 0..Len(s)
    BY <1>0, <1>1
  <2>2. s[i + d].func \in C
    BY <1>1, <2>1
  <2>3. Prologue(g, s[i + d].func) = tail.amount
    BY <1>0, <1>2, <1>3, <2>2, BottomIs
  <2>4. s[i + d].holds \in Nat /\ s[i + d].holds >= tail.amount
    BY <1>0, <1>1, <2>3, EachCall
  <2>5. HeldUpTo(s, i + d) = before + s[i + d].holds
    BY <1>0, <1>1, <1>2, HeldSteps
  <2>6. tail.amount \in Nat
    BY <1>0, <1>2, BottomIs DEF Widths
  <2> QED
    BY <1>4, <2>4, <2>5, <2>6
<1>6. HeldUpTo(s, i + d) <= HeldBy(s)
  BY <1>0, <1>1, HeldGrows
<1>7. /\ spent.amount \in Nat /\ tail.amount \in Nat /\ HeldBy(s) \in Nat
      /\ HeldUpTo(s, i + d) \in Nat
  <2>1. Len(s) \in 0..Len(s) /\ i + d \in 0..Len(s)
    BY <1>0, <1>1
  <2> QED
    BY <1>0, <1>2, <2>1, SpentIs, BottomIs, HeldSteps DEF Widths, HeldBy
<1>8. PICK a, all, to, most, into, out :
        /\ a = step.amount /\ all = HeldBy(s) /\ to = HeldUpTo(s, i + d) /\ most = d * a
        /\ into = spent.amount /\ out = tail.amount
  OBVIOUS
<1>9. most \in Nat /\ most <= room
  <2>1. most \in Nat
    BY <1>3, <1>8
  <2>2. /\ into \in Nat /\ out \in Nat /\ all \in Nat /\ to \in Nat
        /\ all <= n /\ to <= all /\ room = n - into - out
        /\ before = into + most /\ to >= before + out
    BY <1>2, <1>4, <1>5, <1>6, <1>7, <1>8
  <2> QED
    BY <1>4, <2>1, <2>2
<1>10. d <= room \div a
  BY <1>3, <1>8, <1>9, Quotients
<1>11. room \div a \in Int
  BY <1>3, <1>8
<1> QED
  BY <1>1, <1>3, <1>8, <1>10, <1>11

-----------------------------------------------------------------------------
(* The counts, of every run                                                *)

LEMMA GraphStays == Spec => [](graph \in FiniteGraphs)
<1>1. Init => graph \in FiniteGraphs
  BY GraphsAssumption DEF Init, FiniteGraphs, CallGraphs
<1>2. [Next]_vars => graph' = graph
  BY DEF Next, FindRecursion, Measure, Save, Enter, Return, Exit, Stopped, vars
<1>3. graph \in FiniteGraphs /\ [Next]_vars => (graph \in FiniteGraphs)'
  BY <1>2 DEF FiniteGraphs, CallGraphs
<1> QED
  BY <1>1, <1>3, PTL DEF Spec

(* The chain of calls with the one under way, if there is one.             *)
LEMMA WholeChain ==
  ASSUME graph \in CallGraphs, RunInv, Running
  PROVE  \E t : /\ Calls(graph, t)
                /\ t[Len(t)].holds = Prologue(graph, t[Len(t)].func)
                /\ HeldBy(t) >= HeldBy(stack) /\ HeldBy(stack) \in Nat
                /\ t[Len(t)].func = Top.func \/ t[Len(t)].func \in Callees(graph, Top.func)
                /\ \A k \in 1..Len(t) : t[k].func \in OnStack
                /\ \A C \in SUBSET Funcs :
                     stage = "faulted" => Activations(C) = Cardinality(ActiveIn(t, C))
<1>0. /\ Calls(graph, stack) /\ stack \in Seq(Activation)
      /\ Len(stack) \in Nat /\ Len(stack) >= 1 /\ Len(stack) \in 1..Len(stack)
      /\ \A k \in 1..Len(stack) : stack[k].func \in Funcs /\ stack[k] \in Activation
      /\ \A k \in 1..Len(stack) : HoldsItsShare(graph, stack[k])
      /\ DOMAIN stack = 1..Len(stack)
  BY ChainDescends DEF RunInv, Calls
<1>1. Top = stack[Len(stack)] /\ Top \in Activation /\ HoldsItsShare(graph, Top)
  BY <1>0 DEF Top
<1>2. Nobody \notin Funcs
  BY GraphsAssumption DEF Nobody
<1>3. HeldBy(stack) \in Nat
  BY <1>0, HeldSteps DEF HeldBy
<1>4. \A k \in 1..Len(stack) : stack[k].func \in OnStack
  BY <1>0, <1>2 DEF OnStack
<1>5. \A C : {i \in DOMAIN stack : stack[i].func \in C} = ActiveIn(stack, C)
  BY <1>0 DEF ActiveIn
<1>6. \A C : IsFiniteSet(ActiveIn(stack, C)) /\ Cardinality(ActiveIn(stack, C)) \in Nat
  <2> SUFFICES ASSUME NEW C
               PROVE  IsFiniteSet(ActiveIn(stack, C)) /\ Cardinality(ActiveIn(stack, C)) \in Nat
    OBVIOUS
  <2>1. IsFiniteSet(1..Len(stack)) /\ ActiveIn(stack, C) \in SUBSET (1..Len(stack))
    BY <1>0, FS_Interval DEF ActiveIn
  <2> QED
    BY <2>1, FS_Subset, FS_CardinalityType
<1>7. CASE Top.calling = Nobody
  <2>1. Top.holds = Prologue(graph, Top.func)
    BY <1>1, <1>7 DEF HoldsItsShare
  <2>2. \A C \in SUBSET Funcs : Activations(C) = Cardinality(ActiveIn(stack, C))
    <3> SUFFICES ASSUME NEW C \in SUBSET Funcs
                 PROVE  Activations(C) = Cardinality(ActiveIn(stack, C))
      OBVIOUS
    <3>1. Top.calling \notin C
      BY <1>2, <1>7
    <3>2. PICK n : n = Cardinality(ActiveIn(stack, C))
      OBVIOUS
    <3>3. Activations(C) = n + 0 /\ n \in Nat
      BY <1>5, <1>6, <3>1, <3>2 DEF Activations
    <3> QED
      BY <3>2, <3>3
  <2>3. HeldBy(stack) >= HeldBy(stack)
    BY <1>3
  <2> QED
    BY <1>0, <1>1, <1>3, <1>4, <2>1, <2>2, <2>3
<1>8. CASE Top.calling # Nobody
  <2>1. PICK f \in Funcs : f = Top.calling
    BY <1>1, <1>8 DEF Activation
  <2>2. PICK a : a = Entering(f)
    OBVIOUS
  <2>3. /\ a \in Activation /\ a.func = f /\ a.holds = Prologue(graph, f) /\ a.holds \in Nat
        /\ HoldsItsShare(graph, a)
    BY <2>2, Enterings, Shares
  <2>4. PICK t : t = Append(stack, a)
    OBVIOUS
  <2>5. /\ t \in Seq(Activation) /\ Len(t) = Len(stack) + 1 /\ t[Len(stack) + 1] = a
        /\ \A k \in 1..Len(stack) : t[k] = stack[k]
    BY <1>0, <2>3, <2>4
  <2>6. Calls(graph, t)
    BY <1>0, <1>1, <2>1, <2>3, <2>4, CallsAfterEntry
  <2>7. HeldBy(t) = HeldBy(stack) + a.holds
    BY <1>0, <2>3, <2>4, HeldAfter
  <2>8. f \in Callees(graph, Top.func)
    <3>1. PICK c \in graph[Top.func] : c.callee = Top.calling
      BY <1>1, <1>8 DEF HoldsItsShare
    <3> QED
      BY <2>1, <3>1 DEF Callees
  <2>9. f \in OnStack
    BY <1>0, <1>1, <1>8, <2>1 DEF OnStack
  <2>10. ASSUME NEW k \in 1..Len(t) PROVE t[k].func \in OnStack
    <3>1. k \in 1..Len(stack) \/ k = Len(stack) + 1
      BY <1>0, <2>5
    <3> QED
      BY <1>4, <2>3, <2>5, <2>9, <3>1
  <2>11. ASSUME NEW C \in SUBSET Funcs, stage = "faulted"
         PROVE  Activations(C) = Cardinality(ActiveIn(t, C))
    <3>1. PICK n : n = Cardinality(ActiveIn(stack, C))
      OBVIOUS
    <3>2. CASE f \in C
      <4>1. ActiveIn(t, C) = ActiveIn(stack, C) \cup {Len(stack) + 1}
        BY <1>0, <2>3, <2>5, <3>2 DEF ActiveIn
      <4>2. Len(stack) + 1 \notin ActiveIn(stack, C)
        BY <1>0 DEF ActiveIn
      <4>3. Cardinality(ActiveIn(t, C)) = n + 1
        BY <1>6, <3>1, <4>1, <4>2, FS_AddElement
      <4>4. Activations(C) = n + 1
        BY <1>5, <2>1, <2>11, <3>1, <3>2 DEF Activations
      <4> QED
        BY <4>3, <4>4
    <3>3. CASE f \notin C
      <4>1. ActiveIn(t, C) = ActiveIn(stack, C)
        BY <1>0, <2>3, <2>5, <3>3 DEF ActiveIn
      <4>2. Activations(C) = n + 0 /\ n \in Nat
        BY <1>5, <1>6, <2>1, <3>1, <3>3 DEF Activations
      <4> QED
        BY <3>1, <4>1, <4>2
    <3> QED
      BY <3>2, <3>3
  <2>12. HeldBy(t) >= HeldBy(stack)
    BY <1>3, <2>3, <2>7
  <2>13. t[Len(t)] = a
    BY <2>5
  <2> QED
    BY <1>3, <2>3, <2>6, <2>8, <2>10, <2>11, <2>12, <2>13
<1> QED
  BY <1>7, <1>8

(* A report is on a recursion of the program, and says what Report says.   *)
LEMMA ReportsAre ==
  ASSUME SearchedInv, RunInv, Running, NEW r \in reports
  PROVE  IsRecursion(graph, r.cycle) /\ r = Report(graph, r.cycle, left) /\ left \in Nat
<1>1. Searched /\ SearchInv /\ graph \in CallGraphs
  BY DEF SearchedInv, SearchInv, SearchTypes, Running
<1>2. reports = Reports(graph, Cycles, left) /\ left \in Nat
  BY DEF RunInv
<1>3. PICK c \in Cycles : r = Report(graph, c, left)
  BY <1>2 DEF Reports
<1>4. PICK f \in Funcs : IsRecursive(graph, f) /\ c = Component(graph, f)
  BY <1>1, SearchEnds
<1>5. r.cycle = c
  BY <1>3, ReportNames
<1> QED
  BY <1>1, <1>2, <1>3, <1>4, <1>5, Recursions

(* The count a warning names is never too high, whatever the program does: *)
(* a run that faults inside the recursion, or below it, has gone past that *)
(* many activations.  This is what frames.Measure promises of "recurses    *)
(* past N activations": the steps are the widest, so N is the least.       *)
THEOREM CountsNeverTooHigh == Spec => []CountsErrLow
<1>1. SearchedInv /\ RunInv /\ graph \in FiniteGraphs => CountsErrLow
  <2> SUFFICES ASSUME SearchedInv, RunInv, graph \in FiniteGraphs, stage = "faulted",
                      NEW r \in reports, r.kind = "count", Activations(r.cycle) > 0
               PROVE  Activations(r.cycle) > r.depth
    BY DEF CountsErrLow
  <2>1. Running /\ graph \in CallGraphs
    BY DEF Running, FiniteGraphs
  <2>2. IsRecursion(graph, r.cycle) /\ r = Report(graph, r.cycle, left) /\ left \in Nat
    BY <2>1, ReportsAre
  <2>3. PICK t : /\ Calls(graph, t)
                 /\ t[Len(t)].holds = Prologue(graph, t[Len(t)].func)
                 /\ HeldBy(t) >= HeldBy(stack) /\ HeldBy(stack) \in Nat
                 /\ \A C \in SUBSET Funcs : Activations(C) = Cardinality(ActiveIn(t, C))
    BY <2>1, WholeChain
  <2>4. HeldBy(stack) > left
    BY <2>1 DEF RunInv
  <2>5. HeldBy(t) \in Nat
    BY <2>3, HeldSteps DEF HeldBy, Calls
  <2>6. HeldBy(t) > left
    BY <2>2, <2>3, <2>4, <2>5
  <2>7. Activations(r.cycle) = Cardinality(ActiveIn(t, r.cycle))
    BY <2>2, <2>3 DEF IsRecursion
  <2>8. ActiveIn(t, r.cycle) # {}
    BY <2>7, FS_EmptySet
  <2> QED
    BY <2>2, <2>3, <2>6, <2>7, <2>8, CountIsLow
<1> QED
  BY <1>1, RunAlways, GraphStays, PTL

(* A count stated without "at least" is exact, whatever the program does:  *)
(* no run that is still going holds more activations than it names.        *)
THEOREM ExactCountsHold == Spec => []CountsExact
<1>1. SearchedInv /\ RunInv /\ graph \in FiniteGraphs => CountsExact
  <2> SUFFICES ASSUME SearchedInv, RunInv, graph \in FiniteGraphs, stage \in {"run", "returned"},
                      NEW r \in reports, r.kind = "count", r.exact
               PROVE  Activations(r.cycle) <= r.depth
    BY DEF CountsExact
  <2>1. Running /\ graph \in CallGraphs
    BY DEF Running, FiniteGraphs
  <2>2. IsRecursion(graph, r.cycle) /\ r = Report(graph, r.cycle, left) /\ left \in Nat
    BY <2>1, ReportsAre
  <2>3. Calls(graph, stack) /\ HeldBy(stack) <= left /\ Len(stack) \in Nat
    BY <2>1, ChainDescends DEF RunInv
  <2>4. Cardinality(ActiveIn(stack, r.cycle)) \in Nat
    <3>1. IsFiniteSet(1..Len(stack)) /\ ActiveIn(stack, r.cycle) \in SUBSET (1..Len(stack))
      BY <2>3, FS_Interval DEF ActiveIn
    <3> QED
      BY <3>1, FS_Subset, FS_CardinalityType
  <2>5. Activations(r.cycle) = Cardinality(ActiveIn(stack, r.cycle))
    <3>1. {i \in DOMAIN stack : stack[i].func \in r.cycle} = ActiveIn(stack, r.cycle)
      BY <2>3 DEF Calls, ActiveIn
    <3>2. PICK n \in Nat : n = Cardinality(ActiveIn(stack, r.cycle))
      BY <2>4
    <3>3. Activations(r.cycle) = n + 0
      BY <3>1, <3>2 DEF Activations
    <3> QED
      BY <3>2, <3>3
  <2>6. r.depth \in Nat /\ r.depth >= 1
    <3>1. r.cycle \in SUBSET Funcs
      BY <2>2 DEF IsRecursion
    <3>2. PICK step, room : /\ step = Continue(graph, r.cycle).amount
                            /\ room = left - Spent(graph, r.cycle).amount - Bottom(graph, r.cycle).amount
      OBVIOUS
    <3>3. step \in Nat /\ step # 0 /\ room \in Nat /\ r.depth = room \div step + 1
      BY <2>2, <3>1, <3>2, CountSays
    <3>4. 0 <= room \div step /\ room \div step \in Int
      BY <3>3, Quotients
    <3> QED
      BY <3>3, <3>4
  <2>7. CASE ActiveIn(stack, r.cycle) = {}
    BY <2>5, <2>6, <2>7, FS_EmptySet
  <2>8. CASE ActiveIn(stack, r.cycle) # {}
    BY <2>2, <2>3, <2>5, <2>8, CountIsExact
  <2> QED
    BY <2>7, <2>8
<1> QED
  BY <1>1, RunAlways, GraphStays, PTL

(* A chain that stands at a function which can only call on into           *)
(* recursions is no longer than what Spent says of any it calls.           *)
LEMMA HeldAtTheBrink ==
  ASSUME NEW g \in FiniteGraphs, NEW s, Calls(g, s), NEW C, IsRecursion(g, C),
         ~BracketAbove(g, C), NEW w, w = Spent(g, C), s[Len(s)].func \notin C,
         s[Len(s)].holds = Prologue(g, s[Len(s)].func),
         NEW h \in Callees(g, s[Len(s)].func), h \in C
  PROVE  HeldBy(s) \in Nat /\ HeldBy(s) <= w.amount
<1> DEFINE L == Len(s)
<1>0. /\ g \in CallGraphs /\ s \in Seq(Activation) /\ L \in Nat /\ L \in 1..L /\ C \in SUBSET Funcs
      /\ s[L].func \in Reachable(g) /\ s[L].func \in Funcs /\ s[L].holds \in Nat
  BY EachCall DEF FiniteGraphs, IsRecursion
<1>1. PICK e, u : e = Entered(g) /\ u = s[L].func
  OBVIOUS
<1>2. PICK c \in g[u] : c.callee = h
  BY <1>1 DEF Callees
<1>3. u \in Reachable(g) \ C /\ c.callee \in C
  BY <1>0, <1>1, <1>2
<1>4. <<u, c>> \in Into(g, C) /\ Held(g, u, c) + e[u].amount <= w.amount
  BY <1>0, <1>1, <1>3, SpentIs
<1>5. e[u].seen
  <2>1. PICK p \in Into(g, C) : p = <<u, c>>
    BY <1>4
  <2>2. p[1] = u /\ Entered(g)[p[1]].seen
    BY <2>1 DEF BracketAbove
  <2> QED
    BY <1>1, <2>2
<1>6. HeldUpTo(s, L - 1) <= e[u].amount
  BY <1>0, <1>1, <1>5, HeldOnEntry
<1>7. /\ HeldUpTo(s, L) = HeldUpTo(s, L - 1) + s[L].holds
      /\ HeldUpTo(s, L - 1) \in Nat /\ HeldUpTo(s, L) \in Nat
  <2>1. L - 1 \in 0..L /\ L \in 0..L
    BY <1>0
  <2> QED
    BY <1>0, <2>1, HeldSteps
<1>8. e[u].amount \in Nat /\ w.amount \in Nat
  BY <1>0, <1>1, EnteredIs, SpentIs DEF Widths
<1>9. s[L].holds <= Held(g, u, c) /\ Held(g, u, c) \in Nat
  <2>1. Prologue(g, u) \in Nat /\ Held(g, u, c) \in Nat /\ Held(g, u, c) = Prologue(g, u) + c.saves
        /\ c.saves \in Nat
    BY <1>0, <1>1, Shares
  <2> QED
    BY <1>1, <2>1
<1>10. PICK before, own, more, into, most :
         /\ before = HeldUpTo(s, L - 1) /\ own = s[L].holds /\ more = Held(g, u, c)
         /\ into = e[u].amount /\ most = w.amount
  OBVIOUS
<1>11. before + own <= most
  BY <1>0, <1>4, <1>6, <1>7, <1>8, <1>9, <1>10
<1> QED
  BY <1>7, <1>10, <1>11 DEF HeldBy

LEMMA ReportKinds ==
  ASSUME NEW g, NEW C, NEW n, NEW r, r = Report(g, C, n)
  PROVE  r.kind \in {"undecided", "refused", "count"}
BY DEF Report

(* Ordinary calls never overflow the stack of an accepted program: a fault *)
(* with no recursion on the stack was refused, unless the activation that  *)
(* faults calls on towards a recursion whose depth Measure left undecided. *)
(* This is what the check of the entry point's depth below is for.         *)
THEOREM OrdinaryCallsNeverFault == Spec => []OrdinaryCallsFit
<1>1. SearchedInv /\ RunInv /\ graph \in FiniteGraphs => OrdinaryCallsFit
  <2> SUFFICES ASSUME SearchedInv, RunInv, graph \in FiniteGraphs, stage = "faulted",
                      \A f \in OnStack : ~IsRecursive(graph, f), ~refused
               PROVE  \E r \in reports : r.kind = "undecided" /\ r.cycle \cap Below(graph, Top.func) # {}
    BY DEF OrdinaryCallsFit
  <2>1. Running /\ graph \in CallGraphs
    BY DEF Running, FiniteGraphs
  <2>2. /\ left \in Nat /\ Calls(graph, stack) /\ HeldBy(stack) > left
        /\ ~TooDeep(graph, left) /\ \A r \in reports : r.kind # "refused"
    BY <2>1 DEF RunInv
  <2>3. PICK t : /\ Calls(graph, t)
                 /\ t[Len(t)].holds = Prologue(graph, t[Len(t)].func)
                 /\ HeldBy(t) >= HeldBy(stack) /\ HeldBy(stack) \in Nat
                 /\ t[Len(t)].func = Top.func \/ t[Len(t)].func \in Callees(graph, Top.func)
                 /\ \A k \in 1..Len(t) : t[k].func \in OnStack
    BY <2>1, WholeChain
  <2>4. /\ t \in Seq(Activation) /\ Len(t) \in Nat /\ Len(t) \in 1..Len(t) /\ 1 \in 1..Len(t)
        /\ \A k \in 1..Len(t) : t[k].func \in Reachable(graph) /\ t[k].func \in Funcs
        /\ t[1].func = Entry
    <3>1. t[1].func = Entry
      BY <2>3 DEF Calls
    <3>2. /\ t \in Seq(Activation) /\ Len(t) \in Nat /\ Len(t) >= 1
          /\ \A k \in 1..Len(t) : t[k].func \in Reachable(graph) /\ t[k].func \in Funcs
      BY <2>1, <2>3, EachCall
    <3> QED
      BY <3>1, <3>2
  <2>5. HeldBy(t) \in Nat /\ HeldBy(t) > left
    <3>1. HeldBy(t) \in Nat
      BY <2>4, HeldSteps DEF HeldBy
    <3> QED
      BY <2>2, <2>3, <3>1
  <2>6. PICK b, u : b = DeepestBelow(graph) /\ u = t[Len(t)].func
    OBVIOUS
  <2>7. \A k \in 1..Len(t) : ~IsRecursive(graph, t[k].func)
    BY <2>3
  <2>8. ~b[u].seen
    <3> SUFFICES ASSUME b[u].seen PROVE FALSE
      OBVIOUS
    <3>1. HeldUpTo(t, Len(t)) <= HeldUpTo(t, 1 - 1) + b[t[1].func].amount
      BY <2>3, <2>4, <2>6, <2>7, HeldFromThere
    <3>2. HeldUpTo(t, 1 - 1) = 0
      BY <2>4, HeldSteps
    <3>3. PICK most \in Nat : most = b[Entry].amount
      <4>1. b[Entry] \in Widths
        BY <2>6, DeepestSolved, FuncsAssumption
      <4> QED
        BY <4>1 DEF Widths
    <3>4. HeldBy(t) <= most
      BY <2>4, <2>5, <3>1, <3>2, <3>3 DEF HeldBy
    <3>5. most > left
      BY <2>2, <2>5, <3>3, <3>4
    <3> QED
      BY <2>2, <2>6, <3>3, <3>5 DEF TooDeep
  <2>9. PICK h \in Callees(graph, u) : IsRecursive(graph, h)
    BY <2>4, <2>6, <2>7, <2>8, DeepestIs
  <2>10. h \in Funcs /\ h \in Below(graph, u) /\ h \in Below(graph, Entry)
    <3>1. u \in Funcs /\ (u = Entry \/ u \in Below(graph, Entry))
      BY <2>4, <2>6 DEF Reachable
    <3> QED
      BY <2>1, <2>9, <3>1, BelowIsLeast, FuncsAssumption
  <2>11. h \in Below(graph, Top.func)
    <3>1. Top.func \in Funcs
      BY <2>2, ChainDescends, <2>1 DEF Top, Calls
    <3> QED
      BY <2>1, <2>3, <2>6, <2>9, <2>10, <3>1, BelowIsLeast
  <2>12. PICK r \in reports : r = Report(graph, Component(graph, h), left)
    BY <2>1, <2>9, <2>10, ReportOfEach
  <2>13. PICK C : C = Component(graph, h)
    OBVIOUS
  <2>14. IsRecursion(graph, C) /\ h \in C /\ r = Report(graph, C, left) /\ r.cycle = C
    BY <2>1, <2>9, <2>10, <2>12, <2>13, Recursions, ReportNames
  <2>15. r.kind # "count"
    <3> SUFFICES ASSUME r.kind = "count" PROVE FALSE
      OBVIOUS
    <3>1. C \in SUBSET Funcs /\ u \notin C
      BY <2>4, <2>6, <2>7, <2>14 DEF IsRecursion
    <3>2. PICK step, room, spent, tail :
            /\ step = Continue(graph, C).amount
            /\ room = left - Spent(graph, C).amount - Bottom(graph, C).amount
            /\ spent = Spent(graph, C) /\ tail = Bottom(graph, C)
      OBVIOUS
    <3>3. ~BracketAbove(graph, C) /\ room \in Nat
      BY <2>2, <2>14, <3>1, <3>2, CountSays
    <3>4. HeldBy(t) <= spent.amount
      BY <2>3, <2>6, <2>9, <2>14, <3>1, <3>2, <3>3, HeldAtTheBrink
    <3>5. spent.amount \in Nat /\ tail.amount \in Nat
      BY <3>1, <3>2, SpentIs, BottomIs DEF Widths
    <3>6. room = left - spent.amount - tail.amount
      BY <3>2
    <3> QED
      BY <2>2, <2>5, <3>3, <3>4, <3>5, <3>6
  <2>16. r.kind = "undecided"
    BY <2>2, <2>12, <2>15, ReportKinds
  <2> QED
    BY <2>11, <2>14, <2>16
<1> QED
  BY <1>1, RunAlways, GraphStays, PTL
=============================================================================
