--------------------------- MODULE SourceRunsProofs ---------------------------
(***************************************************************************)
(* No accepted program reads a local that was not written since it was     *)
(* declared, or leaves a function without the result it owes: what         *)
(* reach.go and definiteassignment.go find out in one walk over a body     *)
(* holds of every way the body can run.                                    *)
(*                                                                         *)
(* First the functions that descend a tree are shown to exist, so that     *)
(* each equals what its definition says at every node.  Then a walk is     *)
(* bounded: it only goes on from where it started (Moves).  Last, what is  *)
(* left to do is matched, item by item, with the flow states of the walks  *)
(* that accepted it.                                                       *)
(***************************************************************************)
EXTENDS SourceRuns, SequenceTheorems, TLAPS

Facts == INSTANCE MirFuncProofs WITH VRegs <- {}

-----------------------------------------------------------------------------
(* Nodes and what they are made of *)

Inner(x) == Range(Parts(x))

Low(n) == UNION {Levels[m] : m \in {i \in DOMAIN Levels : i <= n}}

LEMMA LevelsAre ==
  /\ Len(Levels) \in Nat
  /\ DOMAIN Levels = 1..Len(Levels)
  /\ \A n \in DOMAIN Levels : Levels[n] \in SUBSET Nodes
  /\ Nodes = Low(Len(Levels))
  /\ Low(0) = {}
<1>1. Levels \in Seq(SUBSET Nodes)
  BY NodesAssumption
<1>2. Len(Levels) \in Nat /\ DOMAIN Levels = 1..Len(Levels)
      /\ \A n \in DOMAIN Levels : Levels[n] \in SUBSET Nodes
  BY <1>1
<1>3. {i \in DOMAIN Levels : i <= Len(Levels)} = DOMAIN Levels
      /\ {i \in DOMAIN Levels : i <= 0} = {}
  BY <1>2
<1> QED
  BY <1>2, <1>3 DEF Low, Nodes, Range

(* A node is made of nodes that come earlier, and so does what it calls.    *)
LEMMA NodesAre ==
  ASSUME NEW n \in Nat, NEW x \in Low(n)
  PROVE  /\ n # 0
         /\ x \in Nodes /\ Shaped(x)
         /\ Inner(x) \in SUBSET Low(n - 1)
         /\ x.k = "call" => x.fn.body \in Low(n - 1)
<1>1. PICK m \in DOMAIN Levels : m <= n /\ x \in Levels[m]
  BY DEF Low
<1>2. m \in Nat /\ m >= 1
  BY LevelsAre
<1> DEFINE earlier == UNION {Levels[i] : i \in 1..(m - 1)}
<1>3. Shaped(x) /\ Range(Parts(x)) \subseteq earlier /\ (x.k = "call" => x.fn.body \in earlier)
  BY <1>1, NodesAssumption
<1>4. earlier \subseteq Low(n - 1)
  <2> SUFFICES ASSUME NEW i \in 1..(m - 1) PROVE Levels[i] \subseteq Low(n - 1)
    OBVIOUS
  <2>1. i \in DOMAIN Levels /\ i <= n - 1
    BY <1>1, <1>2, LevelsAre
  <2> QED
    BY <2>1 DEF Low
<1>5. x \in Nodes /\ n # 0
  BY <1>1, <1>2 DEF Nodes, Range
<1> HIDE DEF earlier
<1> QED
  BY <1>3, <1>4, <1>5 DEF Inner

LEMMA LowGrows ==
  ASSUME NEW n \in Nat
  PROVE  Low(n) \subseteq Low(n + 1) /\ Low(n) \subseteq Nodes
<1>1. \A i \in DOMAIN Levels : i \in Nat
  BY LevelsAre
<1>2. \A i \in DOMAIN Levels : i <= n => i <= n + 1
  BY <1>1
<1> QED
  BY <1>2 DEF Low, Nodes, Range

LEMMA NodeFacts ==
  ASSUME NEW x \in Nodes
  PROVE  Shaped(x) /\ Inner(x) \in SUBSET Nodes /\ Parts(x) \in Seq(Nodes)
<1>1. Len(Levels) \in Nat /\ x \in Low(Len(Levels))
  BY LevelsAre
<1>2. Shaped(x) /\ Inner(x) \in SUBSET Low(Len(Levels) - 1) /\ Len(Levels) # 0
  BY <1>1, NodesAre
<1>3. Low(Len(Levels) - 1) \subseteq Nodes
  BY <1>1, <1>2, LowGrows
<1> QED
  BY <1>2, <1>3 DEF Shaped

(* What holds of a node once it holds of its parts holds of every node.    *)
LEMMA NodeInduction ==
  ASSUME NEW T, \A x \in Nodes : Inner(x) \subseteq T => x \in T
  PROVE  Nodes \subseteq T
<1> DEFINE D == {n \in Nat : Low(n) \subseteq T}
<1>1. 0 \in D
  BY LevelsAre
<1>2. ASSUME NEW n \in Nat, n \in D PROVE n + 1 \in D
  <2> SUFFICES ASSUME NEW x \in Low(n + 1) PROVE x \in T
    OBVIOUS
  <2>1. x \in Nodes /\ Inner(x) \in SUBSET Low((n + 1) - 1) /\ (n + 1) - 1 = n
    BY NodesAre
  <2> QED
    BY <1>2, <2>1
<1> HIDE DEF D
<1>3. Len(Levels) \in D
  BY <1>1, <1>2, Facts!Induction, LevelsAre
<1> QED
  BY <1>3, LevelsAre DEF D

(* The first level a node is on. *)
Rank(x) == CHOOSE n \in Nat : x \in Low(n) /\ \A m \in Nat : x \in Low(m) => n <= m

LEMMA RankIs ==
  ASSUME NEW x \in Nodes
  PROVE  /\ Rank(x) \in Nat \ {0}
         /\ x \in Low(Rank(x))
         /\ \A m \in Nat : x \in Low(m) => Rank(x) <= m
<1> DEFINE T == {n \in Nat : x \in Low(n)}
<1>1. T \in SUBSET Nat /\ T # {}
  BY LevelsAre
<1>2. \E n \in T : \A m \in T : n <= m
  <2> HIDE DEF T
  <2> QED
    BY <1>1, Facts!LeastNatural
<1>3. \E n \in Nat : x \in Low(n) /\ \A m \in Nat : x \in Low(m) => n <= m
  BY <1>2
<1>4. Rank(x) \in Nat /\ x \in Low(Rank(x)) /\ \A m \in Nat : x \in Low(m) => Rank(x) <= m
  BY <1>3 DEF Rank
<1> QED
  BY <1>4, NodesAre

-----------------------------------------------------------------------------
(* The functions that descend a tree exist *)

(* The parts of a node, by its kind. *)
LEMMA PartsAre ==
  ASSUME NEW x \in Nodes
  PROVE  /\ x.k \in {"decl", "expr", "return", "set", "tell", "not", "call"} => Inner(x) = {x.x}
         /\ x.k \in {"ne", "and", "or"} => Inner(x) = {x.x, x.y}
         /\ x.k = "cond" => Inner(x) = {x.c, x.x, x.y}
         /\ x.k = "block" => /\ x.stmts \in Seq(Nodes) /\ Inner(x) = {x.stmts[i] : i \in DOMAIN x.stmts}
                             /\ Parts(x) = x.stmts
         /\ x.k = "if" => Inner(x) = {x.c, x.then, x.els}
         /\ x.k = "while" => Inner(x) = {x.c, x.body}
         /\ x.k = "do" => Inner(x) = {x.c, x.body}
         /\ x.k = "for" => Inner(x) = {x.init, x.c, x.post, x.body}
<1>0. /\ \A a : Range(<<a>>) = {a}
      /\ \A a, b : Range(<<a, b>>) = {a, b}
      /\ \A a, b, c : Range(<<a, b, c>>) = {a, b, c}
      /\ \A a, b, c, d : Range(<<a, b, c, d>>) = {a, b, c, d}
  BY DEF Range
<1>1. CASE x.k \in {"decl", "expr", "return", "set", "tell", "not", "call"}
  <2>1. Parts(x) = <<x.x>>
    BY <1>1 DEF Parts
  <2> QED
    BY <1>0, <1>1, <2>1 DEF Inner
<1>2. CASE x.k \in {"ne", "and", "or"}
  <2>1. Parts(x) = <<x.x, x.y>>
    BY <1>2 DEF Parts
  <2> QED
    BY <1>0, <1>2, <2>1 DEF Inner
<1>3. CASE x.k \in {"cond", "if", "while", "do", "for"}
  <2>1. /\ x.k = "cond" => Parts(x) = <<x.c, x.x, x.y>>
        /\ x.k = "if" => Parts(x) = <<x.c, x.then, x.els>>
        /\ x.k = "while" => Parts(x) = <<x.c, x.body>>
        /\ x.k = "do" => Parts(x) = <<x.body, x.c>>
        /\ x.k = "for" => Parts(x) = <<x.init, x.c, x.post, x.body>>
    BY <1>3 DEF Parts
  <2> QED
    BY <1>0, <1>3, <2>1 DEF Inner
<1>4. CASE x.k = "block"
  <2>1. Parts(x) = x.stmts
    BY <1>4 DEF Parts
  <2> QED
    BY <1>4, <2>1, NodeFacts DEF Inner, Range
<1> QED
  BY <1>1, <1>2, <1>3, <1>4

(* Of a switch: the tag, and the bodies of its arms. *)
LEMMA ArmsAre ==
  ASSUME NEW x \in Nodes, x.k = "switch"
  PROVE  /\ x.arms \in Seq([label : SUBSET Int, body : Blocks])
         /\ Len(x.arms) \in Nat /\ DOMAIN x.arms = 1..Len(x.arms)
         /\ x.tag \in Nodes /\ x.tag \in Inner(x)
         /\ \A i \in DOMAIN x.arms : /\ x.arms[i].body \in Nodes /\ x.arms[i].body \in Inner(x)
                                     /\ x.arms[i].body.k = "block"
         /\ Inner(x) = {x.tag} \cup {x.arms[i].body : i \in DOMAIN x.arms}
         /\ Parts(x)[1] = x.tag /\ 1 \in DOMAIN Parts(x)
         /\ \A i \in DOMAIN x.arms : i + 1 \in DOMAIN Parts(x) /\ Parts(x)[i + 1] = x.arms[i].body
<1> DEFINE bodies == [i \in DOMAIN x.arms |-> x.arms[i].body]
<1>1. x.arms \in Seq([label : SUBSET Int, body : Blocks]) /\ Parts(x) = <<x.tag>> \o bodies
      /\ Parts(x) \in Seq(Nodes)
  BY NodeFacts DEF Shaped, Parts
<1>2. Len(x.arms) \in Nat /\ DOMAIN x.arms = 1..Len(x.arms)
      /\ \A i \in DOMAIN x.arms : x.arms[i].body \in Blocks
  <2> DEFINE R == [label : SUBSET Int, body : Blocks]
  <2>1. x.arms \in Seq(R) /\ \A r \in R : r.body \in Blocks
    BY <1>1
  <2> HIDE DEF R
  <2>2. \A i \in DOMAIN x.arms : x.arms[i] \in R
    BY <2>1
  <2> QED
    BY <2>1, <2>2
<1>3. bodies \in Seq(Blocks) /\ Len(bodies) = Len(x.arms)
  BY <1>2
<1>4. <<x.tag>> \in Seq({x.tag} \cup Blocks) /\ bodies \in Seq({x.tag} \cup Blocks)
  BY <1>3
<1> HIDE DEF bodies
<1>5. /\ Len(Parts(x)) = Len(x.arms) + 1
      /\ Parts(x)[1] = x.tag
      /\ \A i \in DOMAIN x.arms : Parts(x)[i + 1] = bodies[i]
  <2> DEFINE one == <<x.tag>>
  <2>1. Len(one) = 1 /\ one[1] = x.tag
    OBVIOUS
  <2> HIDE DEF one
  <2>2. /\ Len(one \o bodies) = Len(one) + Len(bodies)
        /\ \A i \in 1..(Len(one) + Len(bodies)) :
             (one \o bodies)[i] = IF i <= Len(one) THEN one[i] ELSE bodies[i - Len(one)]
    BY <1>4, ConcatProperties DEF one
  <2>3. Parts(x) = one \o bodies
    BY <1>1 DEF one
  <2>4. \A i \in DOMAIN x.arms : i + 1 \in 1..(1 + Len(bodies)) /\ ~(i + 1 <= 1) /\ (i + 1) - 1 = i
    BY <1>2, <1>3
  <2>5. Len(bodies) = Len(x.arms) /\ 1 \in 1..(1 + Len(x.arms)) /\ 1 + Len(x.arms) = Len(x.arms) + 1
    BY <1>2, <1>3
  <2> QED
    BY <2>1, <2>2, <2>3, <2>4, <2>5
<1>6. DOMAIN Parts(x) = 1..(Len(x.arms) + 1)
  BY <1>1, <1>5
<1>7. 1 \in DOMAIN Parts(x) /\ \A i \in DOMAIN x.arms : i + 1 \in DOMAIN Parts(x)
  BY <1>2, <1>6
<1>8. \A i \in DOMAIN x.arms : bodies[i] = x.arms[i].body
  BY DEF bodies
<1>9. \A j \in DOMAIN Parts(x) : j = 1 \/ (j - 1 \in DOMAIN x.arms /\ j = (j - 1) + 1)
  BY <1>2, <1>6
<1>10. Inner(x) = {x.tag} \cup {x.arms[i].body : i \in DOMAIN x.arms}
  BY <1>5, <1>7, <1>8, <1>9 DEF Inner, Range
<1>11. \A j \in DOMAIN Parts(x) : Parts(x)[j] \in Nodes
  BY <1>1
<1>12. x.tag \in Nodes
  BY <1>5, <1>7, <1>11
<1> QED
  BY <1>1, <1>2, <1>5, <1>7, <1>8, <1>10, <1>12 DEF Blocks

LEMMA InsideAlike ==
  ASSUME NEW f, NEW g, NEW x \in Nodes, \A p \in Inner(x) : f[p] = g[p]
  PROVE  InsideBy(f, x) = InsideBy(g, x)
  BY DEF InsideBy, Inner

LEMMA InsideIs ==
  \A x \in Nodes : Inside[x] = InsideBy(Inside, x)
<1> DEFINE D == {n \in Nat : \E f : f = [x \in Low(n) |-> InsideBy(f, x)]}
<1>1. 0 \in D
  <2> DEFINE f == [x \in {} |-> 0]
  <2>1. f = [x \in Low(0) |-> InsideBy(f, x)]
    BY LevelsAre
  <2> QED
    BY <2>1
<1>2. ASSUME NEW n \in Nat, n \in D PROVE n + 1 \in D
  <2>1. PICK f : f = [x \in Low(n) |-> InsideBy(f, x)]
    BY <1>2
  <2> DEFINE g == [x \in Low(n + 1) |-> InsideBy(f, x)]
  <2>2. \A x \in Low(n) : g[x] = f[x]
    BY <2>1, LowGrows
  <2>3. ASSUME NEW x \in Low(n + 1) PROVE InsideBy(f, x) = InsideBy(g, x)
    <3>0. n + 1 \in Nat /\ (n + 1) - 1 = n
      OBVIOUS
    <3>1. x \in Nodes /\ Inner(x) \in SUBSET Low(n)
      BY <3>0, NodesAre
    <3>2. \A p \in Inner(x) : f[p] = g[p]
      BY <2>2, <3>1
    <3> HIDE DEF g
    <3> QED
      BY <3>1, <3>2, InsideAlike
  <2>4. g = [x \in Low(n + 1) |-> InsideBy(g, x)]
    BY <2>3
  <2> HIDE DEF g
  <2> QED
    BY <2>4
<1> HIDE DEF D
<1>3. Len(Levels) \in D
  BY <1>1, <1>2, Facts!Induction, LevelsAre
<1>4. \E f : f = [x \in Nodes |-> InsideBy(f, x)]
  BY <1>3, LevelsAre DEF D
<1>5. Inside = [x \in Nodes |-> InsideBy(Inside, x)]
  BY <1>4 DEF Inside
<1> QED
  BY <1>5

LEMMA JumpsOutAlike ==
  ASSUME NEW f, NEW g, NEW x \in Nodes, \A p \in Inner(x) : f[p] = g[p]
  PROVE  JumpsOutBy(f, x) = JumpsOutBy(g, x)
<1>1. {f[p] : p \in Range(Parts(x))} = {g[p] : p \in Range(Parts(x))}
  BY DEF Inner
<1> QED
  BY <1>1 DEF JumpsOutBy

LEMMA JumpsOutIs ==
  \A x \in Nodes : JumpsOut[x] = JumpsOutBy(JumpsOut, x)
<1> DEFINE D == {n \in Nat : \E f : f = [x \in Low(n) |-> JumpsOutBy(f, x)]}
<1>1. 0 \in D
  <2> DEFINE f == [x \in {} |-> 0]
  <2>1. f = [x \in Low(0) |-> JumpsOutBy(f, x)]
    BY LevelsAre
  <2> QED
    BY <2>1
<1>2. ASSUME NEW n \in Nat, n \in D PROVE n + 1 \in D
  <2>1. PICK f : f = [x \in Low(n) |-> JumpsOutBy(f, x)]
    BY <1>2
  <2> DEFINE g == [x \in Low(n + 1) |-> JumpsOutBy(f, x)]
  <2>2. \A x \in Low(n) : g[x] = f[x]
    BY <2>1, LowGrows
  <2>3. ASSUME NEW x \in Low(n + 1) PROVE JumpsOutBy(f, x) = JumpsOutBy(g, x)
    <3>0. n + 1 \in Nat /\ (n + 1) - 1 = n
      OBVIOUS
    <3>1. x \in Nodes /\ Inner(x) \in SUBSET Low(n)
      BY <3>0, NodesAre
    <3>2. \A p \in Inner(x) : f[p] = g[p]
      BY <2>2, <3>1
    <3> HIDE DEF g
    <3> QED
      BY <3>1, <3>2, JumpsOutAlike
  <2>4. g = [x \in Low(n + 1) |-> JumpsOutBy(g, x)]
    BY <2>3
  <2> HIDE DEF g
  <2> QED
    BY <2>4
<1> HIDE DEF D
<1>3. Len(Levels) \in D
  BY <1>1, <1>2, Facts!Induction, LevelsAre
<1>4. \E f : f = [x \in Nodes |-> JumpsOutBy(f, x)]
  BY <1>3, LevelsAre DEF D
<1>5. JumpsOut = [x \in Nodes |-> JumpsOutBy(JumpsOut, x)]
  BY <1>4 DEF JumpsOut
<1> QED
  BY <1>5

LEMMA TerminatesAlike ==
  ASSUME NEW f, NEW g, NEW x \in Nodes, \A p \in Inner(x) : f[p] = g[p]
  PROVE  TerminatesBy(f, x) = TerminatesBy(g, x)
<1>1. CASE x.k \in {"return", "break", "continue"}
  BY <1>1 DEF TerminatesBy
<1>2. CASE x.k = "block"
  BY <1>2, PartsAre DEF TerminatesBy, TerminatesList
<1>3. CASE x.k = "if"
  BY <1>3, PartsAre DEF TerminatesBy
<1>4. CASE x.k \in {"while", "for"}
  BY <1>4 DEF TerminatesBy
<1>5. CASE x.k = "do"
  BY <1>5, PartsAre DEF TerminatesBy, DoTerminates
<1>6. CASE x.k = "switch"
  BY <1>6, ArmsAre DEF TerminatesBy, SwitchTerminates
<1> QED
  BY <1>1, <1>2, <1>3, <1>4, <1>5, <1>6 DEF TerminatesBy

LEMMA TerminatesIs ==
  \A x \in Nodes : Terminates[x] = TerminatesBy(Terminates, x)
<1> DEFINE D == {n \in Nat : \E f : f = [x \in Low(n) |-> TerminatesBy(f, x)]}
<1>1. 0 \in D
  <2> DEFINE f == [x \in {} |-> 0]
  <2>1. f = [x \in Low(0) |-> TerminatesBy(f, x)]
    BY LevelsAre
  <2> QED
    BY <2>1
<1>2. ASSUME NEW n \in Nat, n \in D PROVE n + 1 \in D
  <2>1. PICK f : f = [x \in Low(n) |-> TerminatesBy(f, x)]
    BY <1>2
  <2> DEFINE g == [x \in Low(n + 1) |-> TerminatesBy(f, x)]
  <2>2. \A x \in Low(n) : g[x] = f[x]
    BY <2>1, LowGrows
  <2>3. ASSUME NEW x \in Low(n + 1) PROVE TerminatesBy(f, x) = TerminatesBy(g, x)
    <3>0. n + 1 \in Nat /\ (n + 1) - 1 = n
      OBVIOUS
    <3>1. x \in Nodes /\ Inner(x) \in SUBSET Low(n)
      BY <3>0, NodesAre
    <3>2. \A p \in Inner(x) : f[p] = g[p]
      BY <2>2, <3>1
    <3> HIDE DEF g
    <3> QED
      BY <3>1, <3>2, TerminatesAlike
  <2>4. g = [x \in Low(n + 1) |-> TerminatesBy(g, x)]
    BY <2>3
  <2> HIDE DEF g
  <2> QED
    BY <2>4
<1> HIDE DEF D
<1>3. Len(Levels) \in D
  BY <1>1, <1>2, Facts!Induction, LevelsAre
<1>4. \E f : f = [x \in Nodes |-> TerminatesBy(f, x)]
  BY <1>3, LevelsAre DEF D
<1>5. Terminates = [x \in Nodes |-> TerminatesBy(Terminates, x)]
  BY <1>4 DEF Terminates
<1> QED
  BY <1>5

LEMMA JumpsBoundAlike ==
  ASSUME NEW f, NEW g, NEW x \in Nodes, \A p \in Inner(x) : f[p] = g[p]
  PROVE  JumpsBoundBy(f, x) = JumpsBoundBy(g, x)
  BY DEF JumpsBoundBy, Inner

LEMMA JumpsBoundIs ==
  \A x \in Nodes : JumpsBound[x] = JumpsBoundBy(JumpsBound, x)
<1> DEFINE D == {n \in Nat : \E f : f = [x \in Low(n) |-> JumpsBoundBy(f, x)]}
<1>1. 0 \in D
  <2> DEFINE f == [x \in {} |-> 0]
  <2>1. f = [x \in Low(0) |-> JumpsBoundBy(f, x)]
    BY LevelsAre
  <2> QED
    BY <2>1
<1>2. ASSUME NEW n \in Nat, n \in D PROVE n + 1 \in D
  <2>1. PICK f : f = [x \in Low(n) |-> JumpsBoundBy(f, x)]
    BY <1>2
  <2> DEFINE g == [x \in Low(n + 1) |-> JumpsBoundBy(f, x)]
  <2>2. \A x \in Low(n) : g[x] = f[x]
    BY <2>1, LowGrows
  <2>3. ASSUME NEW x \in Low(n + 1) PROVE JumpsBoundBy(f, x) = JumpsBoundBy(g, x)
    <3>0. n + 1 \in Nat /\ (n + 1) - 1 = n
      OBVIOUS
    <3>1. x \in Nodes /\ Inner(x) \in SUBSET Low(n)
      BY <3>0, NodesAre
    <3>2. \A p \in Inner(x) : f[p] = g[p]
      BY <2>2, <3>1
    <3> HIDE DEF g
    <3> QED
      BY <3>1, <3>2, JumpsBoundAlike
  <2>4. g = [x \in Low(n + 1) |-> JumpsBoundBy(g, x)]
    BY <2>3
  <2> HIDE DEF g
  <2> QED
    BY <2>4
<1> HIDE DEF D
<1>3. Len(Levels) \in D
  BY <1>1, <1>2, Facts!Induction, LevelsAre
<1>4. \E f : f = [x \in Nodes |-> JumpsBoundBy(f, x)]
  BY <1>3, LevelsAre DEF D
<1>5. JumpsBound = [x \in Nodes |-> JumpsBoundBy(JumpsBound, x)]
  BY <1>4 DEF JumpsBound
<1> QED
  BY <1>5

LEMMA WalkExprAlike ==
  ASSUME NEW f, NEW g, NEW x \in Nodes, \A p \in Inner(x) : f[p] = g[p]
  PROVE  WalkExprBy(f, x) = WalkExprBy(g, x)
<1>1. CASE x.k \in {"set", "tell", "not", "call"}
  BY <1>1, PartsAre DEF WalkExprBy
<1>2. CASE x.k \in {"ne", "and", "or"}
  BY <1>2, PartsAre DEF WalkExprBy, WalkShort
<1>3. CASE x.k = "cond"
  BY <1>3, PartsAre DEF WalkExprBy, WalkArms
<1> QED
  BY <1>1, <1>2, <1>3 DEF WalkExprBy

LEMMA WalkExprIs ==
  \A x \in Nodes : WalkExpr[x] = WalkExprBy(WalkExpr, x)
<1> DEFINE D == {n \in Nat : \E f : f = [x \in Low(n) |-> WalkExprBy(f, x)]}
<1>1. 0 \in D
  <2> DEFINE f == [x \in {} |-> 0]
  <2>1. f = [x \in Low(0) |-> WalkExprBy(f, x)]
    BY LevelsAre
  <2> QED
    BY <2>1
<1>2. ASSUME NEW n \in Nat, n \in D PROVE n + 1 \in D
  <2>1. PICK f : f = [x \in Low(n) |-> WalkExprBy(f, x)]
    BY <1>2
  <2> DEFINE g == [x \in Low(n + 1) |-> WalkExprBy(f, x)]
  <2>2. \A x \in Low(n) : g[x] = f[x]
    BY <2>1, LowGrows
  <2>3. ASSUME NEW x \in Low(n + 1) PROVE WalkExprBy(f, x) = WalkExprBy(g, x)
    <3>0. n + 1 \in Nat /\ (n + 1) - 1 = n
      OBVIOUS
    <3>1. x \in Nodes /\ Inner(x) \in SUBSET Low(n)
      BY <3>0, NodesAre
    <3>2. \A p \in Inner(x) : f[p] = g[p]
      BY <2>2, <3>1
    <3> HIDE DEF g
    <3> QED
      BY <3>1, <3>2, WalkExprAlike
  <2>4. g = [x \in Low(n + 1) |-> WalkExprBy(g, x)]
    BY <2>3
  <2> HIDE DEF g
  <2> QED
    BY <2>4
<1> HIDE DEF D
<1>3. Len(Levels) \in D
  BY <1>1, <1>2, Facts!Induction, LevelsAre
<1>4. \E f : f = [x \in Nodes |-> WalkExprBy(f, x)]
  BY <1>3, LevelsAre DEF D
<1>5. WalkExpr = [x \in Nodes |-> WalkExprBy(WalkExpr, x)]
  BY <1>4 DEF WalkExpr
<1> QED
  BY <1>5

LEMMA WalkStmtAlike ==
  ASSUME NEW f, NEW g, NEW x \in Nodes, \A p \in Inner(x) : f[p] = g[p]
  PROVE  WalkStmtBy(f, x) = WalkStmtBy(g, x)
<1>1. CASE x.k = "block"
  <2>1. [i \in DOMAIN x.stmts |-> f[x.stmts[i]]] = [i \in DOMAIN x.stmts |-> g[x.stmts[i]]]
    BY <1>1, PartsAre
  <2>2. \A w : WalkList(f, w, x.stmts) = WalkList(g, w, x.stmts)
    BY <2>1 DEF WalkList
  <2> QED
    BY <1>1, <2>2 DEF WalkStmtBy
<1>2. CASE x.k = "if"
  <2>1. f[x.then] = g[x.then] /\ f[x.els] = g[x.els]
    BY <1>2, PartsAre
  <2>2. \A c : WalkArms(f, c, x.then, x.els) = WalkArms(g, c, x.then, x.els)
    BY <2>1 DEF WalkArms
  <2> QED
    BY <1>2, <2>2 DEF WalkStmtBy
<1>3. CASE x.k \in {"while", "for"}
  <2>1. f[x.body] = g[x.body] /\ (x.k = "for" => f[x.init] = g[x.init])
    BY <1>3, PartsAre
  <2>2. \A c : WalkRounds(f, c, x) = WalkRounds(g, c, x)
    BY <2>1 DEF WalkRounds
  <2> QED
    BY <1>3, <2>1, <2>2 DEF WalkStmtBy
<1>4. CASE x.k = "do"
  <2>1. f[x.body] = g[x.body]
    BY <1>4, PartsAre
  <2>2. \A w : WalkDo(f, w, x) = WalkDo(g, w, x)
    BY <2>1 DEF WalkDo
  <2> QED
    BY <1>4, <2>2 DEF WalkStmtBy
<1>5. CASE x.k = "switch"
  <2>1. \A i \in DOMAIN x.arms : f[x.arms[i].body] = g[x.arms[i].body]
    BY <1>5, ArmsAre
  <2>2. ASSUME NEW tag PROVE ArmStarts(f, tag, x) = ArmStarts(g, tag, x)
    <3> DEFINE Moved(h) == [i \in DOMAIN x.arms |->
            [u \in Walks |-> IF Empty(x.arms[i]) THEN u ELSE At(h[x.arms[i].body][u], tag.flow)]]
    <3>1. Moved(f) = Moved(g)
      BY <2>1
    <3>2. ArmStarts(f, tag, x) = Thread(Moved(f), Push(tag, FALSE))
          /\ ArmStarts(g, tag, x) = Thread(Moved(g), Push(tag, FALSE))
      BY DEF ArmStarts
    <3> QED
      BY <3>1, <3>2
  <2>3. ASSUME NEW tag PROVE WalkSwitch(f, tag, x) = WalkSwitch(g, tag, x)
    <3>1. {f[x.arms[i].body][ArmStarts(f, tag, x)[i - 1]].flow :
                   i \in {j \in DOMAIN x.arms : ~Empty(x.arms[j])}}
          = {g[x.arms[i].body][ArmStarts(g, tag, x)[i - 1]].flow :
                   i \in {j \in DOMAIN x.arms : ~Empty(x.arms[j])}}
      BY <2>1, <2>2
    <3> QED
      BY <2>2, <3>1 DEF WalkSwitch
  <2> QED
    BY <1>5, <2>3 DEF WalkStmtBy
<1> QED
  BY <1>1, <1>2, <1>3, <1>4, <1>5 DEF WalkStmtBy

LEMMA WalkStmtIs ==
  \A x \in Nodes : WalkStmt[x] = WalkStmtBy(WalkStmt, x)
<1> DEFINE D == {n \in Nat : \E f : f = [x \in Low(n) |-> WalkStmtBy(f, x)]}
<1>1. 0 \in D
  <2> DEFINE f == [x \in {} |-> 0]
  <2>1. f = [x \in Low(0) |-> WalkStmtBy(f, x)]
    BY LevelsAre
  <2> QED
    BY <2>1
<1>2. ASSUME NEW n \in Nat, n \in D PROVE n + 1 \in D
  <2>1. PICK f : f = [x \in Low(n) |-> WalkStmtBy(f, x)]
    BY <1>2
  <2> DEFINE g == [x \in Low(n + 1) |-> WalkStmtBy(f, x)]
  <2>2. \A x \in Low(n) : g[x] = f[x]
    BY <2>1, LowGrows
  <2>3. ASSUME NEW x \in Low(n + 1) PROVE WalkStmtBy(f, x) = WalkStmtBy(g, x)
    <3>0. n + 1 \in Nat /\ (n + 1) - 1 = n
      OBVIOUS
    <3>1. x \in Nodes /\ Inner(x) \in SUBSET Low(n)
      BY <3>0, NodesAre
    <3>2. \A p \in Inner(x) : f[p] = g[p]
      BY <2>2, <3>1
    <3> HIDE DEF g
    <3> QED
      BY <3>1, <3>2, WalkStmtAlike
  <2>4. g = [x \in Low(n + 1) |-> WalkStmtBy(g, x)]
    BY <2>3
  <2> HIDE DEF g
  <2> QED
    BY <2>4
<1> HIDE DEF D
<1>3. Len(Levels) \in D
  BY <1>1, <1>2, Facts!Induction, LevelsAre
<1>4. \E f : f = [x \in Nodes |-> WalkStmtBy(f, x)]
  BY <1>3, LevelsAre DEF D
<1>5. WalkStmt = [x \in Nodes |-> WalkStmtBy(WalkStmt, x)]
  BY <1>4 DEF WalkStmt
<1> QED
  BY <1>5

-----------------------------------------------------------------------------
(* Inside a node *)

LEMMA InsideFacts ==
  ASSUME NEW x \in Nodes
  PROVE  /\ x \in Inside[x]
         /\ \A p \in Inner(x) : Inside[p] \subseteq Inside[x]
         /\ \A y \in Inside[x] : y = x \/ \E p \in Inner(x) : y \in Inside[p]
<1>1. Inside[x] = {x} \cup UNION {Inside[p] : p \in Inner(x)}
  BY InsideIs DEF InsideBy, Inner
<1> QED
  BY <1>1

LEMMA InsideNodes ==
  \A x \in Nodes : Inside[x] \subseteq Nodes
<1> DEFINE T == {x \in Nodes : Inside[x] \subseteq Nodes}
<1>1. ASSUME NEW x \in Nodes, Inner(x) \subseteq T PROVE x \in T
  BY <1>1, InsideFacts
<1> HIDE DEF T
<1>2. Nodes \subseteq T
  BY <1>1, NodeInduction
<1> QED
  BY <1>2 DEF T

LEMMA InsideGoesOn ==
  \A x \in Nodes : \A y \in Inside[x] : Inside[y] \subseteq Inside[x]
<1> DEFINE T == {x \in Nodes : \A y \in Inside[x] : Inside[y] \subseteq Inside[x]}
<1>1. ASSUME NEW x \in Nodes, Inner(x) \subseteq T PROVE x \in T
  <2> SUFFICES ASSUME NEW y \in Inside[x] PROVE Inside[y] \subseteq Inside[x]
    OBVIOUS
  <2>1. CASE y = x
    BY <2>1
  <2>2. CASE \E p \in Inner(x) : y \in Inside[p]
    BY <1>1, <2>2, InsideFacts
  <2> QED
    BY <2>1, <2>2, InsideFacts
<1> HIDE DEF T
<1>2. Nodes \subseteq T
  BY <1>1, NodeInduction
<1> QED
  BY <1>2 DEF T

LEMMA PartsInside ==
  ASSUME NEW x \in Nodes, NEW y \in Inside[x]
  PROVE  y \in Nodes /\ Inner(y) \subseteq Inside[x]
<1>1. y \in Nodes /\ Inside[y] \subseteq Inside[x]
  BY InsideNodes, InsideGoesOn
<1>2. Inner(y) \subseteq Nodes /\ \A p \in Inner(y) : p \in Inside[p] /\ Inside[p] \subseteq Inside[y]
  BY <1>1, NodeFacts, InsideFacts
<1> QED
  BY <1>1, <1>2

(* What is inside a node is on its level or an earlier one. *)
LEMMA InsideLow ==
  \A x \in Nodes : \A n \in Nat : x \in Low(n) => Inside[x] \subseteq Low(n)
<1> DEFINE T == {x \in Nodes : \A n \in Nat : x \in Low(n) => Inside[x] \subseteq Low(n)}
<1>1. ASSUME NEW x \in Nodes, Inner(x) \subseteq T PROVE x \in T
  <2> SUFFICES ASSUME NEW n \in Nat, x \in Low(n), NEW y \in Inside[x] PROVE y \in Low(n)
    OBVIOUS
  <2>1. n # 0 /\ Inner(x) \in SUBSET Low(n - 1)
    BY NodesAre
  <2>2. n - 1 \in Nat /\ (n - 1) + 1 = n
    BY <2>1
  <2>3. Low(n - 1) \subseteq Low(n)
    BY <2>2, LowGrows
  <2>4. CASE y = x
    BY <2>4
  <2>5. ASSUME NEW p \in Inner(x), y \in Inside[p] PROVE y \in Low(n)
    <3>1. p \in T /\ p \in Low(n - 1)
      BY <1>1, <2>1, <2>5
    <3>2. Inside[p] \subseteq Low(n - 1)
      BY <2>2, <3>1
    <3> QED
      BY <2>3, <2>5, <3>2
  <2> QED
    BY <2>4, <2>5, InsideFacts
<1> HIDE DEF T
<1>2. Nodes \subseteq T
  BY <1>1, NodeInduction
<1> QED
  BY <1>2 DEF T

(* A call in a body calls a function of lower rank. *)
LEMMA CallsLower ==
  ASSUME NEW b \in Nodes, NEW x \in Inside[b], x.k = "call"
  PROVE  x.fn.body \in Nodes /\ Rank(x.fn.body) < Rank(b)
<1>1. Rank(b) \in Nat \ {0} /\ b \in Low(Rank(b))
  BY RankIs
<1> DEFINE n == Rank(b)
<1>2. n \in Nat /\ n - 1 \in Nat /\ x \in Low(n)
  BY <1>1, InsideLow
<1> HIDE DEF n
<1>3. x.fn.body \in Low(n - 1)
  BY <1>2, NodesAre
<1>4. x.fn.body \in Nodes
  BY <1>2, <1>3, LowGrows
<1>5. Rank(x.fn.body) \in Nat /\ Rank(x.fn.body) <= n - 1
  BY <1>2, <1>3, <1>4, RankIs
<1>6. Rank(x.fn.body) < n
  BY <1>2, <1>5
<1> QED
  BY <1>4, <1>6 DEF n

LEMMA NamesInside ==
  ASSUME NEW x \in Nodes
  PROVE  /\ Named(x) \subseteq Names /\ Declared(x) \subseteq Named(x)
         /\ \A p \in Inner(x) : Named(p) \subseteq Named(x) /\ Declared(p) \subseteq Declared(x)
         /\ x.k \in {"var", "set", "decl"} => x.v \in Named(x)
         /\ x.k = "decl" => x.v \in Declared(x)
<1>1. \A y \in Inside[x] : y \in Nodes
  BY InsideNodes
<1>2. \A y \in Inside[x] : y.k \in {"var", "set", "decl"} => y.v \in Names
  BY <1>1, NodeFacts DEF Shaped
<1>3. \A p \in Inner(x) : Inside[p] \subseteq Inside[x]
  BY InsideFacts
<1> QED
  BY <1>2, <1>3, InsideFacts DEF Named, Declared

(* An expression declares nothing that is tracked ... *)
LEMMA TrackedNames ==
  ASSUME NEW x \in Nodes
  PROVE  Tracked(x) \subseteq Declared(x) /\ Memory(x) \subseteq Declared(x)
         /\ Declared(x) \subseteq Tracked(x) \cup Memory(x)
  BY DEF Tracked, Declared, Memory

-----------------------------------------------------------------------------
(* Flow states *)

Weaker(f, g) == g.live => f.live /\ f.assigned \subseteq g.assigned

(* f can come of the walk w by naming N, and declaring D. *)
Reaches(N, D, w, f) ==
  /\ f \in Flows
  /\ f.live => /\ w.flow.live
               /\ w.flow.assigned \ D \subseteq f.assigned
               /\ f.assigned \subseteq w.flow.assigned \cup (N \cap w.tracked)

LEMMA JoinFacts ==
  ASSUME NEW fs \in SUBSET Flows
  PROVE  /\ Join(fs) \in Flows
         /\ \A f \in fs : Weaker(Join(fs), f)
         /\ Join(fs).live <=> \E f \in fs : f.live
         /\ \A N, D, w : (\A f \in fs : Reaches(N, D, w, f)) => Reaches(N, D, w, Join(fs))
<1> DEFINE met == {f \in fs : f.live}
<1>1. CASE met = {}
  <2>1. Join(fs) = Dead
    BY <1>1 DEF Join
  <2>2. Dead \in Flows /\ ~Dead.live
    BY DEF Dead, Flows
  <2> QED
    BY <1>1, <2>1, <2>2 DEF Weaker, Reaches
<1>2. CASE met # {}
  <2> DEFINE both == {v \in UNION {f.assigned : f \in met} : \A f \in met : v \in f.assigned}
  <2>1. Join(fs) = [live |-> TRUE, assigned |-> both]
    BY <1>2 DEF Join
  <2>2. \A f \in Flows : f.assigned \in SUBSET Names /\ f.live \in BOOLEAN
    BY DEF Flows
  <2>3. both \in SUBSET Names /\ \A f \in met : both \subseteq f.assigned
    BY <2>2
  <2>4. Join(fs) \in Flows /\ Join(fs).live /\ Join(fs).assigned = both
    BY <2>1, <2>3 DEF Flows
  <2>5. PICK g \in met : TRUE
    BY <1>2
  <2>6. ASSUME NEW N, NEW D, NEW w, \A f \in fs : Reaches(N, D, w, f)
        PROVE  Reaches(N, D, w, Join(fs))
    <3>1. \A f \in met : w.flow.live /\ w.flow.assigned \ D \subseteq f.assigned
                         /\ f.assigned \subseteq w.flow.assigned \cup (N \cap w.tracked)
      BY <2>6 DEF Reaches
    <3>2. w.flow.assigned \ D \subseteq both
      BY <2>5, <3>1
    <3> HIDE DEF both
    <3> QED
      BY <2>3, <2>4, <2>5, <3>1, <3>2 DEF Reaches
  <2> HIDE DEF both
  <2> QED
    BY <2>3, <2>4, <2>5, <2>6 DEF Weaker
<1> QED
  BY <1>1, <1>2

LEMMA WeakerFacts ==
  /\ \A f : Weaker(f, f)
  /\ \A f, g, h : Weaker(f, g) /\ Weaker(g, h) => Weaker(f, h)
  BY DEF Weaker

-----------------------------------------------------------------------------
(* Walks *)

LEMMA WalkFields ==
  ASSUME NEW w \in Walks
  PROVE  /\ w.flow \in Flows /\ w.flow.live \in BOOLEAN /\ w.flow.assigned \in SUBSET Names
         /\ w.reported \in BOOLEAN /\ w.tracked \in SUBSET Names
         /\ w.jumps \in Seq(Frames) /\ Len(w.jumps) \in Nat /\ DOMAIN w.jumps = 1..Len(w.jumps)
         /\ \A i \in DOMAIN w.jumps :
              /\ w.jumps[i] \in Frames /\ w.jumps[i].loop \in BOOLEAN
              /\ w.jumps[i].breaks \in SUBSET Flows /\ w.jumps[i].continues \in SUBSET Flows
<1>1. w.flow \in Flows /\ w.reported \in BOOLEAN /\ w.tracked \in SUBSET Names
      /\ w.jumps \in Seq(Frames)
  BY DEF Walks
<1>2. w.flow.live \in BOOLEAN /\ w.flow.assigned \in SUBSET Names
  BY <1>1 DEF Flows
<1>3. \A i \in DOMAIN w.jumps : w.jumps[i] \in Frames
  BY <1>1
<1>4. \A f \in Frames : f.loop \in BOOLEAN /\ f.breaks \in SUBSET Flows
                        /\ f.continues \in SUBSET Flows
  BY DEF Frames
<1> QED
  BY <1>1, <1>2, <1>3, <1>4

(* Frame i takes in jumps of the kinds J only, each from where the walk is. *)
Collects(N, D, J, w, u, i) ==
  /\ u.jumps[i].loop = w.jumps[i].loop
  /\ w.jumps[i].breaks \subseteq u.jumps[i].breaks
  /\ w.jumps[i].continues \subseteq u.jumps[i].continues
  /\ \A f \in u.jumps[i].breaks :
       f \in w.jumps[i].breaks \/ (i = Len(w.jumps) /\ "break" \in J /\ Reaches(N, D, w, f))
  /\ \A f \in u.jumps[i].continues :
       f \in w.jumps[i].continues
       \/ (i \in LoopOf(w.jumps) /\ "continue" \in J /\ Reaches(N, D, w, f))

(* What the walk of a node that names N and declares D, and out of which    *)
(* the jumps J lead, makes of a walk w.                                     *)
Moves(N, D, J, w, u) ==
  /\ u \in Walks
  /\ u.tracked = w.tracked
  /\ w.reported => u.reported
  /\ Reaches(N, D, w, u.flow)
  /\ Len(u.jumps) = Len(w.jumps)
  /\ \A i \in DOMAIN w.jumps : Collects(N, D, J, w, u, i)

LEMMA ReachesOn ==
  ASSUME NEW N, NEW D, NEW P \in SUBSET N, NEW Q \in SUBSET N, NEW A \in SUBSET D,
         NEW B \in SUBSET D, NEW w, NEW u, NEW f,
         u.tracked = w.tracked, Reaches(P, A, w, u.flow), Reaches(Q, B, u, f)
  PROVE  Reaches(N, D, w, f)
  BY DEF Reaches

LEMMA ReachesMore ==
  ASSUME NEW N, NEW D, NEW P \in SUBSET N, NEW A \in SUBSET D, NEW w, NEW f, Reaches(P, A, w, f)
  PROVE  Reaches(N, D, w, f)
  BY DEF Reaches

LEMMA MovesSame ==
  ASSUME NEW N, NEW D, NEW J, NEW w \in Walks
  PROVE  Moves(N, D, J, w, w) /\ Reaches(N, D, w, w.flow)
<1>1. Reaches(N, D, w, w.flow)
  BY WalkFields DEF Reaches
<1>2. \A i \in DOMAIN w.jumps : Collects(N, D, J, w, w, i)
  BY DEF Collects
<1> QED
  BY <1>1, <1>2 DEF Moves

LEMMA LoopOfSame ==
  ASSUME NEW N, NEW D, NEW J, NEW w \in Walks, NEW u, Moves(N, D, J, w, u)
  PROVE  LoopOf(u.jumps) = LoopOf(w.jumps) /\ DOMAIN u.jumps = DOMAIN w.jumps
<1>1. u \in Walks /\ Len(u.jumps) = Len(w.jumps)
      /\ \A i \in DOMAIN w.jumps : u.jumps[i].loop = w.jumps[i].loop
  BY DEF Moves, Collects
<1>2. DOMAIN u.jumps = DOMAIN w.jumps
  BY <1>1, WalkFields
<1> QED
  BY <1>1, <1>2 DEF LoopOf

LEMMA MovesOn ==
  ASSUME NEW N, NEW D, NEW J, NEW P \in SUBSET N, NEW Q \in SUBSET N,
         NEW A \in SUBSET D, NEW B \in SUBSET D, NEW K \in SUBSET J, NEW L \in SUBSET J,
         NEW w \in Walks, NEW u, NEW v, Moves(P, A, K, w, u), Moves(Q, B, L, u, v)
  PROVE  Moves(N, D, J, w, v)
<1>1. u \in Walks /\ v \in Walks /\ u.tracked = w.tracked /\ v.tracked = w.tracked
      /\ (w.reported => v.reported) /\ Len(v.jumps) = Len(w.jumps) /\ Len(u.jumps) = Len(w.jumps)
      /\ Reaches(P, A, w, u.flow) /\ Reaches(Q, B, u, v.flow)
  BY DEF Moves
<1>2. LoopOf(u.jumps) = LoopOf(w.jumps) /\ DOMAIN u.jumps = DOMAIN w.jumps
  BY LoopOfSame
<1>3. \A f : Reaches(Q, B, u, f) => Reaches(N, D, w, f)
  BY <1>1, ReachesOn
<1>4. \A f : Reaches(P, A, w, f) => Reaches(N, D, w, f)
  BY ReachesMore
<1>5. ASSUME NEW i \in DOMAIN w.jumps PROVE Collects(N, D, J, w, v, i)
  <2>1. Collects(P, A, K, w, u, i) /\ Collects(Q, B, L, u, v, i)
    BY <1>2 DEF Moves
  <2> QED
    BY <1>1, <1>2, <1>3, <1>4, <2>1 DEF Collects
<1> QED
  BY <1>1, <1>3, <1>5 DEF Moves

LEMMA MovesMore ==
  ASSUME NEW N, NEW D, NEW J, NEW P \in SUBSET N, NEW A \in SUBSET D, NEW K \in SUBSET J,
         NEW w \in Walks, NEW u, Moves(P, A, K, w, u)
  PROVE  Moves(N, D, J, w, u)
<1>1. Moves({}, {}, {}, u, u)
  BY MovesSame DEF Moves
<1> QED
  BY <1>1, MovesOn

(* The flow state is put to another one the walk can have come to. *)
LEMMA MovesAt ==
  ASSUME NEW N, NEW D, NEW J, NEW w \in Walks, NEW u, NEW f,
         Moves(N, D, J, w, u), Reaches(N, D, w, f)
  PROVE  /\ Moves(N, D, J, w, At(u, f)) /\ At(u, f) \in Walks
         /\ At(u, f).flow = f /\ At(u, f).jumps = u.jumps /\ At(u, f).tracked = w.tracked
         /\ At(u, f).reported = u.reported
<1>1. u \in Walks /\ f \in Flows
  BY DEF Moves, Reaches
<1>2. At(u, f) \in Walks /\ At(u, f).flow = f /\ At(u, f).jumps = u.jumps
      /\ At(u, f).tracked = u.tracked /\ At(u, f).reported = u.reported
  BY <1>1 DEF At, Walks
<1>3. \A i \in DOMAIN w.jumps : Collects(N, D, J, w, u, i)
  BY DEF Moves
<1>4. \A i \in DOMAIN w.jumps : Collects(N, D, J, w, At(u, f), i)
  BY <1>2, <1>3 DEF Collects
<1> QED
  BY <1>2, <1>4 DEF Moves

LEMMA DeadReached ==
  ASSUME NEW N, NEW D, NEW w
  PROVE  Reaches(N, D, w, Dead)
  BY DEF Reaches, Dead, Flows

(* A name is written. *)
LEMMA MovesWrite ==
  ASSUME NEW v \in Names, NEW w \in Walks
  PROVE  /\ Moves({v}, {}, {}, w, Write(w, v)) /\ Moves({v}, {}, {}, w, Read(w, v))
         /\ Write(w, v).reported = w.reported
         /\ Write(w, v).jumps = w.jumps
         /\ ~Read(w, v).reported => Read(w, v) = w
         /\ Read(w, v).reported = (w.reported \/ ~(~w.flow.live \/ v \notin w.tracked \/ v \in w.flow.assigned))
<1> DEFINE f == [w.flow EXCEPT !.assigned = @ \cup {v}]
<1>1. f \in Flows /\ f.live = w.flow.live /\ f.assigned = w.flow.assigned \cup {v}
  BY WalkFields DEF Flows
<1>2. ASSUME w.flow.live, v \in w.tracked
      PROVE  Moves({v}, {}, {}, w, At(w, f)) /\ Write(w, v) = At(w, f)
  <2>1. Reaches({v}, {}, w, f)
    BY <1>1, <1>2 DEF Reaches
  <2>2. Write(w, v) = At(w, f)
    BY <1>2 DEF Write, At
  <2> HIDE DEF f
  <2> QED
    BY <2>1, <2>2, MovesAt, MovesSame
<1>3. Moves({v}, {}, {}, w, w)
  BY MovesSame
<1>4. ASSUME w.flow.live, v \in w.tracked, v \notin w.flow.assigned
      PROVE  /\ Read(w, v) = [At(w, f) EXCEPT !.reported = TRUE]
             /\ Moves({v}, {}, {}, w, Read(w, v)) /\ Read(w, v).reported
  <2>1. Read(w, v) = [At(w, f) EXCEPT !.reported = TRUE]
    BY <1>4 DEF Read, At
  <2> HIDE DEF f
  <2>2. At(w, f) \in Walks /\ Moves({v}, {}, {}, w, At(w, f))
    BY <1>2, <1>4 DEF Moves
  <2>3. Read(w, v) \in Walks /\ Read(w, v).flow = At(w, f).flow /\ Read(w, v).jumps = At(w, f).jumps
        /\ Read(w, v).tracked = At(w, f).tracked /\ Read(w, v).reported
    BY <2>1, <2>2 DEF Walks
  <2>4. \A i \in DOMAIN w.jumps : Collects({v}, {}, {}, w, At(w, f), i)
    BY <2>2 DEF Moves
  <2>5. \A i \in DOMAIN w.jumps : Collects({v}, {}, {}, w, Read(w, v), i)
    BY <2>3, <2>4 DEF Collects
  <2> QED
    BY <2>1, <2>2, <2>3, <2>5 DEF Moves
<1>5. w.reported \in BOOLEAN
  BY WalkFields
<1>6. At(w, f).reported = w.reported /\ At(w, f).jumps = w.jumps
  BY DEF At, Walks
<1> HIDE DEF f
<1> QED
  BY <1>2, <1>3, <1>4, <1>5, <1>6 DEF Write, Read

-----------------------------------------------------------------------------
(* Frames and jumps *)

LEMMA PushFacts ==
  ASSUME NEW w \in Walks, NEW loop \in BOOLEAN
  PROVE  /\ Push(w, loop) \in Walks
         /\ Push(w, loop).flow = w.flow /\ Push(w, loop).tracked = w.tracked
         /\ Push(w, loop).reported = w.reported
         /\ Len(Push(w, loop).jumps) = Len(w.jumps) + 1
         /\ \A i \in DOMAIN w.jumps : Push(w, loop).jumps[i] = w.jumps[i]
         /\ Push(w, loop).jumps[Len(w.jumps) + 1] = [loop |-> loop, breaks |-> {}, continues |-> {}]
         /\ loop => LoopOf(Push(w, loop).jumps) = {Len(w.jumps) + 1}
         /\ ~loop => LoopOf(Push(w, loop).jumps) = LoopOf(w.jumps)
<1> DEFINE fr == [loop |-> loop, breaks |-> {}, continues |-> {}]
           c == Push(w, loop)
<1>1. fr \in Frames /\ fr.loop = loop
  BY DEF Frames
<1>2. c = [w EXCEPT !.jumps = Append(w.jumps, fr)]
  BY DEF Push
<1>3. w.jumps \in Seq(Frames) /\ Len(w.jumps) \in Nat /\ DOMAIN w.jumps = 1..Len(w.jumps)
  BY WalkFields
<1> HIDE DEF fr, c
<1>4. /\ Append(w.jumps, fr) \in Seq(Frames) /\ Len(Append(w.jumps, fr)) = Len(w.jumps) + 1
      /\ \A i \in DOMAIN w.jumps : Append(w.jumps, fr)[i] = w.jumps[i]
      /\ Append(w.jumps, fr)[Len(w.jumps) + 1] = fr
  BY <1>1, <1>3
<1>5. /\ c \in Walks /\ c.jumps = Append(w.jumps, fr) /\ c.flow = w.flow
      /\ c.tracked = w.tracked /\ c.reported = w.reported
  BY <1>2, <1>4 DEF Walks
<1> DEFINE js == c.jumps
           n == Len(w.jumps)
<1>6. /\ n \in Nat /\ DOMAIN js = 1..(n + 1) /\ DOMAIN w.jumps = 1..n
      /\ \A i \in 1..n : js[i] = w.jumps[i]
      /\ js[n + 1].loop = loop
  BY <1>1, <1>3, <1>4, <1>5
<1> HIDE DEF js, n
<1>7. loop => LoopOf(js) = {n + 1}
  <2> SUFFICES ASSUME loop PROVE LoopOf(js) = {n + 1}
    OBVIOUS
  <2>1. n + 1 \in DOMAIN js /\ js[n + 1].loop /\ \A j \in DOMAIN js : ~(j > n + 1)
    BY <1>6
  <2>2. n + 1 \in LoopOf(js)
    BY <2>1 DEF LoopOf
  <2>3. \A i \in DOMAIN js : i # n + 1 => n + 1 > i
    BY <1>6
  <2>4. \A i \in LoopOf(js) : i = n + 1
    BY <2>1, <2>3 DEF LoopOf
  <2> QED
    BY <2>2, <2>4
<1>8. ~loop => LoopOf(js) = LoopOf(w.jumps)
  BY <1>6 DEF LoopOf
<1> QED
  BY <1>4, <1>5, <1>7, <1>8 DEF js, n, fr, c

(* A frame pushed onto w, moved under to b, and popped again. *)
Popped(N, D, J, w, loop, b) ==
  /\ Moves(N, D, J \ (IF loop THEN {"break", "continue"} ELSE {"break"}), w, Pop(b))
  /\ Pop(b) \in Walks
  /\ Pop(b).flow = b.flow /\ Pop(b).reported = b.reported /\ Pop(b).tracked = w.tracked
  /\ Reaches(N, D, w, b.flow)
  /\ Top(b).breaks \in SUBSET Flows /\ Top(b).continues \in SUBSET Flows
  /\ \A f \in Top(b).breaks : Reaches(N, D, w, f)
  /\ \A f \in Top(b).continues : Reaches(N, D, w, f)
  /\ "break" \notin J => Top(b).breaks = {}
  /\ "continue" \notin J => Top(b).continues = {}
  /\ Len(b.jumps) = Len(w.jumps) + 1 /\ Len(w.jumps) \in Nat
  /\ LoopOf(b.jumps) = IF loop THEN {Len(b.jumps)} ELSE LoopOf(w.jumps)
  /\ \A i \in DOMAIN w.jumps : Pop(b).jumps[i] = b.jumps[i]

LEMMA PopMoves ==
  ASSUME NEW N, NEW D, NEW J, NEW w \in Walks, NEW loop \in BOOLEAN, NEW b,
         Moves(N, D, J, Push(w, loop), b)
  PROVE  Popped(N, D, J, w, loop, b)
<1> DEFINE c == Push(w, loop)
           K == J \ (IF loop THEN {"break", "continue"} ELSE {"break"})
           n == Len(w.jumps)
           p == Pop(b)
<1>1. n \in Nat /\ DOMAIN w.jumps = 1..n
  BY WalkFields
<1>2. /\ c \in Walks /\ c.flow = w.flow /\ c.tracked = w.tracked /\ c.reported = w.reported
      /\ Len(c.jumps) = n + 1
      /\ \A i \in DOMAIN w.jumps : c.jumps[i] = w.jumps[i]
      /\ c.jumps[n + 1] = [loop |-> loop, breaks |-> {}, continues |-> {}]
      /\ loop => LoopOf(c.jumps) = {n + 1}
      /\ ~loop => LoopOf(c.jumps) = LoopOf(w.jumps)
  BY PushFacts
<1>3. DOMAIN c.jumps = 1..(n + 1)
      /\ c.jumps[n + 1].breaks = {} /\ c.jumps[n + 1].continues = {}
  BY <1>1, <1>2, WalkFields
<1>4. /\ b \in Walks /\ b.tracked = w.tracked /\ (w.reported => b.reported)
      /\ Reaches(N, D, c, b.flow) /\ Len(b.jumps) = n + 1
      /\ \A i \in 1..(n + 1) : Collects(N, D, J, c, b, i)
  BY <1>2, <1>3 DEF Moves
<1>5. \A f : Reaches(N, D, c, f) <=> Reaches(N, D, w, f)
  BY <1>2 DEF Reaches
<1>6. b.jumps \in Seq(Frames)
  BY <1>4, WalkFields
<1>7. p = [b EXCEPT !.jumps = SubSeq(b.jumps, 1, n)]
  BY <1>1, <1>4 DEF Pop
<1>8. SubSeq(b.jumps, 1, n) \in Seq(Frames) /\ Len(SubSeq(b.jumps, 1, n)) = n
      /\ \A i \in 1..n : SubSeq(b.jumps, 1, n)[i] = b.jumps[i]
  BY <1>1, <1>4, <1>6
<1>9. p \in Walks /\ p.jumps = SubSeq(b.jumps, 1, n) /\ p.flow = b.flow
      /\ p.reported = b.reported /\ p.tracked = b.tracked
  BY <1>4, <1>7, <1>8 DEF Walks
<1>10. Top(b) = b.jumps[n + 1]
  BY <1>4 DEF Top
<1>11. Top(b).breaks \in SUBSET Flows /\ Top(b).continues \in SUBSET Flows
  BY <1>1, <1>4, <1>10, WalkFields
<1>12. Collects(N, D, J, c, b, n + 1)
  BY <1>1, <1>4
<1>13. /\ \A f \in Top(b).breaks : Reaches(N, D, w, f)
       /\ \A f \in Top(b).continues : Reaches(N, D, w, f)
       /\ "break" \notin J => Top(b).breaks = {}
       /\ "continue" \notin J => Top(b).continues = {}
  BY <1>3, <1>5, <1>10, <1>12 DEF Collects
<1>14. \A i \in LoopOf(c.jumps) : i \in 1..n => ~loop /\ i \in LoopOf(w.jumps)
  BY <1>1, <1>2
<1>15. "continue" \in J /\ ~loop => "continue" \in K
  OBVIOUS
<1>155. LoopOf(b.jumps) = LoopOf(c.jumps)
  BY <1>2, LoopOfSame
<1> HIDE DEF c, K, n, p
<1>16. ASSUME NEW i \in 1..n PROVE Collects(N, D, K, w, p, i)
  <2>1. Collects(N, D, J, c, b, i) /\ c.jumps[i] = w.jumps[i] /\ p.jumps[i] = b.jumps[i] /\ i # n + 1
    BY <1>1, <1>2, <1>4, <1>8, <1>9
  <2> QED
    BY <2>1, <1>2, <1>5, <1>14, <1>15, <1>16 DEF Collects
<1>17. Len(p.jumps) = Len(w.jumps)
  BY <1>8, <1>9 DEF n
<1>18. Moves(N, D, K, w, p)
  BY <1>1, <1>4, <1>5, <1>9, <1>16, <1>17 DEF Moves
<1> QED
  BY <1>1, <1>2, <1>4, <1>5, <1>8, <1>9, <1>11, <1>13, <1>155, <1>18 DEF K, p, n, Popped

(* The jumps collected so far stay collected. *)
LEMMA TopGrows ==
  ASSUME NEW N, NEW D, NEW J, NEW u \in Walks, NEW v, Moves(N, D, J, u, v), Len(u.jumps) # 0
  PROVE  Top(u).breaks \subseteq Top(v).breaks /\ Top(u).continues \subseteq Top(v).continues
<1>1. Len(u.jumps) \in Nat /\ DOMAIN u.jumps = 1..Len(u.jumps) /\ Len(v.jumps) = Len(u.jumps)
  BY WalkFields DEF Moves
<1>2. Len(u.jumps) \in DOMAIN u.jumps
  BY <1>1
<1>3. Collects(N, D, J, u, v, Len(u.jumps))
  BY <1>2 DEF Moves
<1> QED
  BY <1>1, <1>3 DEF Collects, Top

(* A jump. *)
Jumped(name, w, u) ==
  /\ name = "break" => \A i \in DOMAIN w.jumps : i = Len(w.jumps) => w.flow \in u.jumps[i].breaks
  /\ name = "continue" => \A i \in LoopOf(w.jumps) : w.flow \in u.jumps[i].continues

LEMMA MovesJump ==
  ASSUME NEW w \in Walks, NEW name \in {"break", "continue"}, NEW u,
         u = IF name = "break" THEN BreakTo(w) ELSE ContinueTo(w)
  PROVE  /\ Moves({}, {}, {name}, w, u) /\ u.flow = Dead /\ u.reported = w.reported
         /\ Jumped(name, w, u)
<1> DEFINE n == Len(w.jumps)
           js == IF name = "break"
                 THEN [i \in DOMAIN w.jumps |->
                         IF i = n THEN BreakAt(w.jumps[i], w.flow) ELSE w.jumps[i]]
                 ELSE [i \in DOMAIN w.jumps |->
                         IF i \in LoopOf(w.jumps) THEN ContinueAt(w.jumps[i], w.flow) ELSE w.jumps[i]]
<1>1. u = [w EXCEPT !.flow = Dead, !.jumps = js]
  <2>1. CASE name = "break"
    <3>1. u = BreakTo(w)
      BY <2>1
    <3>2. js = [i \in DOMAIN w.jumps |->
                  IF i = Len(w.jumps) THEN BreakAt(w.jumps[i], w.flow) ELSE w.jumps[i]]
      BY <2>1
    <3> HIDE DEF js
    <3> QED
      BY <3>1, <3>2 DEF BreakTo
  <2>2. CASE name = "continue"
    <3>1. u = ContinueTo(w)
      BY <2>2
    <3>2. js = [i \in DOMAIN w.jumps |->
                  IF i \in LoopOf(w.jumps) THEN ContinueAt(w.jumps[i], w.flow) ELSE w.jumps[i]]
      BY <2>2
    <3> HIDE DEF js
    <3> QED
      BY <3>1, <3>2 DEF ContinueTo
  <2> QED
    BY <2>1, <2>2
<1>2. w.flow \in Flows /\ n \in Nat /\ DOMAIN w.jumps = 1..n
      /\ \A i \in 1..n : w.jumps[i] \in Frames
  BY WalkFields
<1>3. \A fr \in Frames :
        /\ BreakAt(fr, w.flow) \in Frames /\ ContinueAt(fr, w.flow) \in Frames
        /\ BreakAt(fr, w.flow).breaks = fr.breaks \cup {w.flow}
        /\ BreakAt(fr, w.flow).continues = fr.continues /\ BreakAt(fr, w.flow).loop = fr.loop
        /\ ContinueAt(fr, w.flow).continues = fr.continues \cup {w.flow}
        /\ ContinueAt(fr, w.flow).breaks = fr.breaks /\ ContinueAt(fr, w.flow).loop = fr.loop
  BY <1>2 DEF Frames, BreakAt, ContinueAt
<1>4. \A i \in 1..n : /\ js[i] \in Frames /\ js[i].loop = w.jumps[i].loop
                      /\ js[i].breaks = w.jumps[i].breaks
                                        \cup (IF name = "break" /\ i = n THEN {w.flow} ELSE {})
                      /\ js[i].continues = w.jumps[i].continues
                                        \cup (IF name = "continue" /\ i \in LoopOf(w.jumps)
                                              THEN {w.flow} ELSE {})
  BY <1>2, <1>3
<1>5. js = [i \in 1..n |-> js[i]]
  BY <1>2
<1> HIDE DEF js
<1>6. js \in Seq(Frames) /\ Len(js) = n
  <2> HIDE DEF n
  <2>1. \A i \in 1..n : js[i] \in Frames
    BY <1>4
  <2> QED
    BY <1>2, <1>5, <2>1
<1> HIDE DEF n
<1>7. Dead \in Flows
  BY DEF Dead, Flows
<1>8. u \in Walks /\ u.jumps = js /\ u.flow = Dead /\ u.reported = w.reported /\ u.tracked = w.tracked
  BY <1>1, <1>6, <1>7 DEF Walks
<1>9. Reaches({}, {}, w, w.flow) /\ Reaches({}, {}, w, Dead)
  BY MovesSame, DeadReached
<1>10. ASSUME NEW i \in 1..n PROVE Collects({}, {}, {name}, w, u, i)
  BY <1>4, <1>8, <1>9 DEF Collects, n
<1>11. Moves({}, {}, {name}, w, u)
  BY <1>2, <1>6, <1>8, <1>9, <1>10 DEF Moves, n
<1>12. LoopOf(w.jumps) \subseteq 1..n
  BY <1>2 DEF LoopOf
<1>13. Jumped(name, w, u)
  BY <1>2, <1>4, <1>8, <1>12 DEF n, Jumped
<1> QED
  BY <1>8, <1>11, <1>13

(* Moves, each of which keeps a walk in U. *)
Keeping(moves, n, U, NN, D, J) ==
  \A j \in 1..n : \A u \in U : moves[j][u] \in U /\ Moves(NN[j], D, J, u, moves[j][u])

(* The walks at of going through moves from w. *)
Threaded(moves, n, U, NN, D, J, w, at) ==
  /\ at[0] = w
  /\ \A j \in 1..n : at[j] = moves[j][at[j - 1]]
  /\ \A j \in 0..n : at[j] \in U
  /\ \A i, m \in 0..n : i <= m => Moves(UNION {NN[j] : j \in (i + 1)..m}, D, J, at[i], at[m])

LEMMA ThreadMoves ==
  ASSUME NEW moves, NEW n \in Nat, Len(moves) = n, NEW U \in SUBSET Walks, NEW w \in U,
         NEW NN, NEW D, NEW J, Keeping(moves, n, U, NN, D, J)
  PROVE  Threaded(moves, n, U, NN, D, J, w, Thread(moves, w))
<1>0. \A j \in 1..n : \A u \in U : moves[j][u] \in U /\ Moves(NN[j], D, J, u, moves[j][u])
  BY DEF Keeping
<1> DEFINE Is(g, k) == g = [i \in 0..k |-> IF i = 0 THEN w ELSE moves[i][g[i - 1]]]
           G == {k \in Nat : \E g : Is(g, k)}
<1>1. 0 \in G
  <2> DEFINE g == [i \in 0..0 |-> w]
  <2>1. Is(g, 0)
    OBVIOUS
  <2> QED
    BY <2>1
<1>2. ASSUME NEW k \in Nat, k \in G PROVE k + 1 \in G
  <2>1. PICK g : Is(g, k)
    BY <1>2
  <2> DEFINE h == [i \in 0..(k + 1) |-> IF i = 0 THEN w ELSE moves[i][g[i - 1]]]
  <2>2. \A i \in 0..k : h[i] = g[i]
    BY <2>1
  <2>3. \A i \in 0..(k + 1) : i # 0 => h[i - 1] = g[i - 1]
    <3>1. \A i \in 0..(k + 1) : i # 0 => i - 1 \in 0..k
      OBVIOUS
    <3> HIDE DEF h
    <3> QED
      BY <2>2, <3>1
  <2>4. Is(h, k + 1)
    BY <2>3
  <2> HIDE DEF h
  <2> QED
    BY <2>4
<1> HIDE DEF G
<1>3. n \in G
  BY <1>1, <1>2, Facts!Induction
<1> DEFINE at == Thread(moves, w)
<1>4. at = [i \in 0..n |-> IF i = 0 THEN w ELSE moves[i][at[i - 1]]]
  <2>1. \E g : Is(g, n)
    BY <1>3 DEF G
  <2>2. at = CHOOSE g : Is(g, n)
    BY DEF Thread
  <2> QED
    BY <2>1, <2>2
<1> HIDE DEF at
<1>5. at[0] = w /\ \A j \in 1..n : at[j] = moves[j][at[j - 1]]
  BY <1>4
<1> DEFINE V == {j \in Nat : j <= n => at[j] \in U}
<1>6. \A k \in Nat : k \in V
  <2>1. 0 \in V
    BY <1>5
  <2>2. ASSUME NEW k \in Nat, k \in V PROVE k + 1 \in V
    <3>1. SUFFICES ASSUME k + 1 <= n PROVE at[k + 1] \in U
      OBVIOUS
    <3>2. at[k] \in U /\ k + 1 \in 1..n /\ (k + 1) - 1 = k
      BY <2>2, <3>1
    <3> QED
      BY <1>0, <1>5, <3>2
  <2> HIDE DEF V
  <2> QED
    BY <2>1, <2>2, Facts!Induction
<1>7. \A j \in 0..n : at[j] \in U
  BY <1>6
<1>8. ASSUME NEW i \in 0..n, NEW m \in 0..n, i <= m
      PROVE  Moves(UNION {NN[j] : j \in (i + 1)..m}, D, J, at[i], at[m])
  <2> DEFINE So(m1) == UNION {NN[j] : j \in (i + 1)..m1}
             W == {d \in Nat : i + d <= n => Moves(So(i + d), D, J, at[i], at[i + d])}
  <2>1. 0 \in W
    BY <1>7, MovesSame
  <2>2. ASSUME NEW d \in Nat, d \in W PROVE d + 1 \in W
    <3> SUFFICES ASSUME i + (d + 1) <= n
                 PROVE  Moves(So(i + (d + 1)), D, J, at[i], at[i + (d + 1)])
      OBVIOUS
    <3> DEFINE k == i + d
    <3>1. k \in Nat /\ k + 1 = i + (d + 1) /\ k + 1 \in 1..n /\ (k + 1) - 1 = k /\ k \in 0..n
      OBVIOUS
    <3>2. Moves(So(k), D, J, at[i], at[k])
      BY <2>2, <3>1
    <3>3. at[k] \in U /\ at[i] \in U
      BY <1>7, <3>1
    <3>4. at[k + 1] = moves[k + 1][at[k]]
      BY <1>5, <3>1
    <3>5. Moves(NN[k + 1], D, J, at[k], at[k + 1])
      BY <1>0, <3>1, <3>3, <3>4
    <3>6. (i + 1)..k \subseteq (i + 1)..(k + 1) /\ k + 1 \in (i + 1)..(k + 1)
      OBVIOUS
    <3>7. So(k) \subseteq So(k + 1) /\ NN[k + 1] \subseteq So(k + 1)
      BY <3>6
    <3> HIDE DEF So, k
    <3>8. Moves(So(k + 1), D, J, at[i], at[k + 1])
      BY <3>2, <3>3, <3>5, <3>7, MovesOn
    <3> QED
      BY <3>1, <3>8
  <2> HIDE DEF W
  <2>3. m - i \in W
    <3>1. m - i \in Nat
      BY <1>8
    <3> QED
      BY <2>1, <2>2, <3>1, Facts!Induction
  <2> QED
    BY <2>3, <1>8 DEF W
<1> QED
  BY <1>5, <1>7, <1>8 DEF at, Threaded

-----------------------------------------------------------------------------
(* The walk of an expression *)

LEMMA WalkExprAt ==
  ASSUME NEW x \in Nodes, NEW w \in Walks
  PROVE  /\ x.k = "var" => WalkExpr[x][w] = Read(w, x.v)
         /\ x.k = "set" => WalkExpr[x][w] = Write(WalkExpr[x.x][w], x.v)
         /\ x.k \in {"tell", "not", "call"} => WalkExpr[x][w] = WalkExpr[x.x][w]
         /\ x.k = "ne" => WalkExpr[x][w] = WalkExpr[x.y][WalkExpr[x.x][w]]
         /\ x.k \in {"and", "or"} => WalkExpr[x][w] = WalkShort(WalkExpr, w, x)
         /\ x.k = "cond" => WalkExpr[x][w] = WalkArms(WalkExpr, WalkExpr[x.c][w], x.x, x.y)
         /\ x.k \notin {"var", "set", "tell", "not", "call", "ne", "and", "or", "cond"}
              => WalkExpr[x][w] = w
<1>1. WalkExpr[x][w] = WalkExprBy(WalkExpr, x)[w]
  BY WalkExprIs
<1>2. WalkExprBy(WalkExpr, x)[w] =
        CASE x.k = "var" -> Read(w, x.v)
          [] x.k = "set" -> Write(WalkExpr[x.x][w], x.v)
          [] x.k \in {"tell", "not", "call"} -> WalkExpr[x.x][w]
          [] x.k = "ne" -> WalkExpr[x.y][WalkExpr[x.x][w]]
          [] x.k \in {"and", "or"} -> WalkShort(WalkExpr, w, x)
          [] x.k = "cond" -> WalkArms(WalkExpr, WalkExpr[x.c][w], x.x, x.y)
          [] OTHER -> w
  BY DEF WalkExprBy
<1> DEFINE walk == WalkExpr[x][w]
<1>3. walk = CASE x.k = "var" -> Read(w, x.v)
          [] x.k = "set" -> Write(WalkExpr[x.x][w], x.v)
          [] x.k \in {"tell", "not", "call"} -> WalkExpr[x.x][w]
          [] x.k = "ne" -> WalkExpr[x.y][WalkExpr[x.x][w]]
          [] x.k \in {"and", "or"} -> WalkShort(WalkExpr, w, x)
          [] x.k = "cond" -> WalkArms(WalkExpr, WalkExpr[x.c][w], x.x, x.y)
          [] OTHER -> w
  BY <1>1, <1>2
<1> HIDE DEF walk
<1>4. /\ x.k = "var" => walk = Read(w, x.v)
      /\ x.k = "set" => walk = Write(WalkExpr[x.x][w], x.v)
      /\ x.k \in {"tell", "not", "call"} => walk = WalkExpr[x.x][w]
      /\ x.k = "ne" => walk = WalkExpr[x.y][WalkExpr[x.x][w]]
      /\ x.k \in {"and", "or"} => walk = WalkShort(WalkExpr, w, x)
      /\ x.k = "cond" => walk = WalkArms(WalkExpr, WalkExpr[x.c][w], x.x, x.y)
      /\ x.k \notin {"var", "set", "tell", "not", "call", "ne", "and", "or", "cond"} => walk = w
  BY <1>3
<1> QED
  BY <1>4 DEF walk

(* Two arms that start from the same flow state, and join. *)
ArmsFit(walk, N, D, J, c, yes, no, r, then, els) ==
  /\ then = walk[yes][c] /\ els = walk[no][At(then, c.flow)]
  /\ then \in Walks /\ els \in Walks
  /\ At(then, c.flow) \in Walks /\ At(then, c.flow).flow = c.flow
  /\ At(then, c.flow).tracked = c.tracked /\ At(then, c.flow).jumps = then.jumps
  /\ Moves(N, D, J, c, then) /\ Moves(N, D, J, c, els) /\ Moves(N, D, J, At(then, c.flow), els)
  /\ Moves(N, D, J, c, r)
  /\ r.jumps = els.jumps /\ r.reported = els.reported
  /\ then.reported => els.reported
  /\ Weaker(r.flow, then.flow) /\ Weaker(r.flow, els.flow)
  /\ r.flow.live <=> then.flow.live \/ els.flow.live

LEMMA ArmsMove ==
  ASSUME NEW walk, NEW c \in Walks, NEW yes, NEW no, NEW N, NEW D, NEW J,
         \A u \in Walks : Moves(N, D, J, u, walk[yes][u]) /\ Moves(N, D, J, u, walk[no][u]),
         NEW r, r = WalkArms(walk, c, yes, no)
  PROVE  \E then, els : ArmsFit(walk, N, D, J, c, yes, no, r, then, els)
<1> DEFINE then == walk[yes][c]
           back == At(then, c.flow)
           els == walk[no][back]
           joined == Join({then.flow, els.flow})
<1>1. Moves(N, D, J, c, then) /\ then \in Walks
  BY DEF Moves
<1>2. Moves(N, D, J, c, back) /\ back \in Walks /\ back.flow = c.flow /\ back.jumps = then.jumps
      /\ back.tracked = c.tracked /\ back.reported = then.reported
  <2>1. Reaches(N, D, c, c.flow)
    BY MovesSame
  <2> HIDE DEF then
  <2> QED
    BY <1>1, <2>1, MovesAt
<1> HIDE DEF then, back
<1>3. Moves(N, D, J, back, els) /\ els \in Walks
  BY <1>2 DEF Moves
<1> HIDE DEF els
<1>4. Moves(N, D, J, c, els)
  BY <1>2, <1>3, MovesOn
<1>5. Reaches(N, D, c, then.flow) /\ Reaches(N, D, c, els.flow)
  BY <1>1, <1>4 DEF Moves
<1>6. then.flow \in Flows /\ els.flow \in Flows /\ {then.flow, els.flow} \in SUBSET Flows
  BY <1>5 DEF Reaches
<1>7. Reaches(N, D, c, joined) /\ Weaker(joined, then.flow) /\ Weaker(joined, els.flow)
      /\ (joined.live <=> then.flow.live \/ els.flow.live)
  <2>1. \A f \in {then.flow, els.flow} : Reaches(N, D, c, f)
    BY <1>5
  <2> QED
    BY <1>6, <2>1, JoinFacts
<1>8. r = At(els, joined)
  BY DEF WalkArms, then, back, els
<1> HIDE DEF joined
<1>9. /\ Moves(N, D, J, c, At(els, joined)) /\ At(els, joined).flow = joined
      /\ At(els, joined).jumps = els.jumps /\ At(els, joined).reported = els.reported
  BY <1>4, <1>7, MovesAt
<1>10. then.reported => els.reported
  BY <1>2, <1>3 DEF Moves
<1> QED
  <2>1. ArmsFit(walk, N, D, J, c, yes, no, r, then, els)
    BY <1>1, <1>2, <1>3, <1>4, <1>6, <1>7, <1>8, <1>9, <1>10 DEF ArmsFit, then, els, back
  <2> QED
    BY <2>1

(* The right operand is walked, and what it assigns forgotten. *)
LEMMA ShortMoves ==
  ASSUME NEW walk, NEW w \in Walks, NEW x, NEW N,
         \A u \in Walks : Moves(N, {}, {}, u, walk[x.x][u]) /\ Moves(N, {}, {}, u, walk[x.y][u])
  PROVE  /\ Moves(N, {}, {}, w, WalkShort(walk, w, x))
         /\ WalkShort(walk, w, x).flow = walk[x.x][w].flow
         /\ WalkShort(walk, w, x).reported = walk[x.y][walk[x.x][w]].reported
         /\ walk[x.x][w] \in Walks /\ walk[x.x][w].tracked = w.tracked
<1> DEFINE left == walk[x.x][w]
           right == walk[x.y][left]
<1>1. Moves(N, {}, {}, w, left) /\ left \in Walks /\ left.tracked = w.tracked
  BY DEF Moves
<1> HIDE DEF left
<1>2. Moves(N, {}, {}, left, right)
  BY <1>1
<1> HIDE DEF right
<1>3. Moves(N, {}, {}, w, right)
  BY <1>1, <1>2, MovesOn
<1>4. Reaches(N, {}, w, left.flow)
  BY <1>1 DEF Moves
<1>5. Moves(N, {}, {}, w, At(right, left.flow)) /\ At(right, left.flow).flow = left.flow
      /\ At(right, left.flow).reported = right.reported
  BY <1>3, <1>4, MovesAt
<1>6. WalkShort(walk, w, x) = At(right, left.flow)
  BY DEF WalkShort, left, right
<1> QED
  BY <1>1, <1>5, <1>6 DEF left, right

LEMMA WalkExprMoves ==
  \A x \in Nodes : \A w \in Walks : Moves(Named(x), {}, {}, w, WalkExpr[x][w])
<1> DEFINE T == {x \in Nodes : \A w \in Walks : Moves(Named(x), {}, {}, w, WalkExpr[x][w])}
<1>1. ASSUME NEW x \in Nodes, Inner(x) \subseteq T PROVE x \in T
  <2> DEFINE N == Named(x)
  <2>1. \A p \in Inner(x) : \A u \in Walks : Moves(N, {}, {}, u, WalkExpr[p][u])
    <3> SUFFICES ASSUME NEW p \in Inner(x), NEW u \in Walks
                 PROVE  Moves(N, {}, {}, u, WalkExpr[p][u])
      OBVIOUS
    <3>1. Moves(Named(p), {}, {}, u, WalkExpr[p][u]) /\ Named(p) \subseteq N
      BY <1>1, NamesInside
    <3> HIDE DEF N
    <3> QED
      BY <3>1, MovesMore
  <2>2. x.k \in {"var", "set"} => x.v \in N /\ x.v \in Names
    BY NamesInside
  <2> SUFFICES ASSUME NEW w \in Walks PROVE Moves(N, {}, {}, w, WalkExpr[x][w])
    OBVIOUS
  <2> HIDE DEF N, T
  <2>3. CASE x.k = "var"
    <3>1. Moves({x.v}, {}, {}, w, Read(w, x.v)) /\ {x.v} \subseteq N
      BY <2>2, <2>3, MovesWrite
    <3>2. Moves(N, {}, {}, w, Read(w, x.v))
      BY <3>1, MovesMore
    <3> QED
      BY <2>3, <3>2, WalkExprAt
  <2>4. CASE x.k = "set"
    <3>1. PICK u : u = WalkExpr[x.x][w]
      OBVIOUS
    <3>2. Moves(N, {}, {}, w, u) /\ u \in Walks
      BY <2>1, <2>4, <3>1, PartsAre DEF Moves
    <3>3. Moves({x.v}, {}, {}, u, Write(u, x.v)) /\ {x.v} \subseteq N
      BY <2>2, <2>4, <3>2, MovesWrite
    <3>4. Moves(N, {}, {}, w, Write(u, x.v))
      BY <3>2, <3>3, MovesOn
    <3> QED
      BY <2>4, <3>1, <3>4, WalkExprAt
  <2>5. CASE x.k \in {"tell", "not", "call"}
    BY <2>1, <2>5, PartsAre, WalkExprAt
  <2>6. CASE x.k = "ne"
    <3>1. PICK u : u = WalkExpr[x.x][w]
      OBVIOUS
    <3>2. Moves(N, {}, {}, w, u) /\ u \in Walks
      BY <2>1, <2>6, <3>1, PartsAre DEF Moves
    <3>3. Moves(N, {}, {}, u, WalkExpr[x.y][u])
      BY <2>1, <2>6, <3>2, PartsAre
    <3>4. Moves(N, {}, {}, w, WalkExpr[x.y][u])
      BY <3>2, <3>3, MovesOn
    <3> QED
      BY <2>6, <3>1, <3>4, WalkExprAt
  <2>7. CASE x.k \in {"and", "or"}
    <3>1. \A u \in Walks : Moves(N, {}, {}, u, WalkExpr[x.x][u]) /\ Moves(N, {}, {}, u, WalkExpr[x.y][u])
      BY <2>1, <2>7, PartsAre
    <3>2. Moves(N, {}, {}, w, WalkShort(WalkExpr, w, x))
      BY <3>1, ShortMoves
    <3> QED
      BY <2>7, <3>2, WalkExprAt
  <2>8. CASE x.k = "cond"
    <3>1. PICK c : c = WalkExpr[x.c][w]
      OBVIOUS
    <3>2. Moves(N, {}, {}, w, c) /\ c \in Walks
      BY <2>1, <2>8, <3>1, PartsAre DEF Moves
    <3>3. \A u \in Walks : Moves(N, {}, {}, u, WalkExpr[x.x][u]) /\ Moves(N, {}, {}, u, WalkExpr[x.y][u])
      BY <2>1, <2>8, PartsAre
    <3>4. Moves(N, {}, {}, c, WalkArms(WalkExpr, c, x.x, x.y))
      BY <3>2, <3>3, ArmsMove DEF ArmsFit
    <3>5. Moves(N, {}, {}, w, WalkArms(WalkExpr, c, x.x, x.y))
      BY <3>2, <3>4, MovesOn
    <3> QED
      BY <2>8, <3>1, <3>5, WalkExprAt
  <2>9. CASE x.k \notin {"var", "set", "tell", "not", "call", "ne", "and", "or", "cond"}
    BY <2>9, WalkExprAt, MovesSame
  <2> QED
    BY <2>3, <2>4, <2>5, <2>6, <2>7, <2>8, <2>9
<1> HIDE DEF T
<1>2. Nodes \subseteq T
  BY <1>1, NodeInduction
<1> QED
  BY <1>2 DEF T

(* The same, of an expression that is a part of s. *)
LEMMA PartMoves ==
  ASSUME NEW s \in Nodes, NEW x \in Inner(s), NEW D, NEW J, NEW w \in Walks
  PROVE  /\ Moves(Named(s), D, J, w, WalkExpr[x][w])
         /\ WalkExpr[x][w] \in Walks /\ WalkExpr[x][w].tracked = w.tracked
         /\ w.reported => WalkExpr[x][w].reported
<1>1. x \in Nodes /\ Named(x) \subseteq Named(s)
  BY NodeFacts, NamesInside
<1>2. Moves(Named(x), {}, {}, w, WalkExpr[x][w])
  BY <1>1, WalkExprMoves
<1>3. Moves(Named(s), D, J, w, WalkExpr[x][w])
  BY <1>1, <1>2, MovesMore
<1> QED
  BY <1>2, <1>3 DEF Moves

-----------------------------------------------------------------------------
(* The walk of a statement *)

StmtMoves(s) == \A u \in Walks : Moves(Named(s), Declared(s), JumpsOut[s], u, WalkStmt[s][u])

LEMMA JumpsOutAre ==
  ASSUME NEW s \in Nodes
  PROVE  /\ JumpsOut[s] \subseteq {"break", "continue"}
         /\ s.k \in {"block", "if"} => \A p \in Inner(s) : JumpsOut[p] \subseteq JumpsOut[s]
         /\ s.k = "switch" => \A p \in Inner(s) : JumpsOut[p] \ {"break"} \subseteq JumpsOut[s]
         /\ s.k \in {"break", "continue"} => JumpsOut[s] = {s.k}
         /\ s.k \notin {"break", "continue", "block", "if", "switch"} => JumpsOut[s] = {}
         /\ \A j \in JumpsOut[s] : s.k = j \/ \E p \in Inner(s) : j \in JumpsOut[p]
         /\ s.k = "switch" => "break" \notin JumpsOut[s]
<1> DEFINE T == {x \in Nodes : JumpsOut[x] \subseteq {"break", "continue"}}
<1>1. \A x \in Nodes : JumpsOut[x] = ({x.k} \cap {"break", "continue"})
        \cup (IF x.k \in {"block", "if", "switch"}
              THEN (UNION {JumpsOut[p] : p \in Inner(x)}) \ (IF x.k = "switch" THEN {"break"} ELSE {})
              ELSE {})
  BY JumpsOutIs DEF JumpsOutBy, Inner
<1>2. ASSUME NEW x \in Nodes, Inner(x) \subseteq T PROVE x \in T
  <2> DEFINE ins == UNION {JumpsOut[p] : p \in Inner(x)}
  <2>1. ins \subseteq {"break", "continue"}
    BY <1>2
  <2>2. JumpsOut[x] = ({x.k} \cap {"break", "continue"})
        \cup (IF x.k \in {"block", "if", "switch"}
              THEN ins \ (IF x.k = "switch" THEN {"break"} ELSE {})
              ELSE {})
    BY <1>1
  <2> HIDE DEF ins
  <2> QED
    BY <2>1, <2>2
<1> HIDE DEF T
<1>3. Nodes \subseteq T
  BY <1>2, NodeInduction
<1>4. JumpsOut[s] \subseteq {"break", "continue"}
  BY <1>3 DEF T
<1>5. JumpsOut[s] = ({s.k} \cap {"break", "continue"})
        \cup (IF s.k \in {"block", "if", "switch"}
              THEN (UNION {JumpsOut[p] : p \in Inner(s)}) \ (IF s.k = "switch" THEN {"break"} ELSE {})
              ELSE {})
  BY <1>1
<1>6. s.k \in {"block", "if"} => JumpsOut[s] = UNION {JumpsOut[p] : p \in Inner(s)}
  BY <1>5
<1>7. s.k = "switch" => JumpsOut[s] = (UNION {JumpsOut[p] : p \in Inner(s)}) \ {"break"}
  BY <1>5
<1>8. s.k \in {"break", "continue"} => JumpsOut[s] = {s.k}
  BY <1>5
<1>9. s.k \notin {"break", "continue", "block", "if", "switch"} => JumpsOut[s] = {}
  BY <1>5
<1> QED
  BY <1>4, <1>6, <1>7, <1>8, <1>9

LEMMA WalkStmtAt ==
  ASSUME NEW s \in Nodes, NEW w \in Walks
  PROVE  /\ s.k = "block" => WalkStmt[s][w] = WalkList(WalkStmt, w, s.stmts)
         /\ s.k = "decl" => WalkStmt[s][w] = WalkDecl(w, s)
         /\ s.k = "expr" => WalkStmt[s][w] = WalkExpr[s.x][w]
         /\ s.k = "if" => WalkStmt[s][w] = WalkArms(WalkStmt, WalkExpr[s.c][w], s.then, s.els)
         /\ s.k = "while" => WalkStmt[s][w] = WalkRounds(WalkStmt, WalkExpr[s.c][w], s)
         /\ s.k = "do" => WalkStmt[s][w] = WalkDo(WalkStmt, w, s)
         /\ s.k = "for" => WalkStmt[s][w] = WalkRounds(WalkStmt, WalkExpr[s.c][WalkStmt[s.init][w]], s)
         /\ s.k = "switch" => WalkStmt[s][w] = WalkSwitch(WalkStmt, WalkExpr[s.tag][w], s)
         /\ s.k = "break" => WalkStmt[s][w] = BreakTo(w)
         /\ s.k = "continue" => WalkStmt[s][w] = ContinueTo(w)
         /\ s.k = "return" => WalkStmt[s][w] = At(WalkExpr[s.x][w], Dead)
         /\ s.k \notin {"block", "decl", "expr", "if", "while", "do", "for", "switch", "break",
                        "continue", "return"} => WalkStmt[s][w] = w
<1> DEFINE walk == WalkStmt[s][w]
<1>1. walk = WalkStmtBy(WalkStmt, s)[w]
  BY WalkStmtIs
<1>2. WalkStmtBy(WalkStmt, s)[w] =
        CASE s.k = "block"    -> WalkList(WalkStmt, w, s.stmts)
          [] s.k = "decl"     -> WalkDecl(w, s)
          [] s.k = "expr"     -> WalkExpr[s.x][w]
          [] s.k = "if"       -> WalkArms(WalkStmt, WalkExpr[s.c][w], s.then, s.els)
          [] s.k = "while"    -> WalkRounds(WalkStmt, WalkExpr[s.c][w], s)
          [] s.k = "do"       -> WalkDo(WalkStmt, w, s)
          [] s.k = "for"      -> WalkRounds(WalkStmt, WalkExpr[s.c][WalkStmt[s.init][w]], s)
          [] s.k = "switch"   -> WalkSwitch(WalkStmt, WalkExpr[s.tag][w], s)
          [] s.k = "break"    -> BreakTo(w)
          [] s.k = "continue" -> ContinueTo(w)
          [] s.k = "return"   -> At(WalkExpr[s.x][w], Dead)
          [] OTHER            -> w
  BY DEF WalkStmtBy
<1>3. walk =
        CASE s.k = "block"    -> WalkList(WalkStmt, w, s.stmts)
          [] s.k = "decl"     -> WalkDecl(w, s)
          [] s.k = "expr"     -> WalkExpr[s.x][w]
          [] s.k = "if"       -> WalkArms(WalkStmt, WalkExpr[s.c][w], s.then, s.els)
          [] s.k = "while"    -> WalkRounds(WalkStmt, WalkExpr[s.c][w], s)
          [] s.k = "do"       -> WalkDo(WalkStmt, w, s)
          [] s.k = "for"      -> WalkRounds(WalkStmt, WalkExpr[s.c][WalkStmt[s.init][w]], s)
          [] s.k = "switch"   -> WalkSwitch(WalkStmt, WalkExpr[s.tag][w], s)
          [] s.k = "break"    -> BreakTo(w)
          [] s.k = "continue" -> ContinueTo(w)
          [] s.k = "return"   -> At(WalkExpr[s.x][w], Dead)
          [] OTHER            -> w
  BY <1>1, <1>2
<1> HIDE DEF walk
<1>4. /\ s.k = "block" => walk = WalkList(WalkStmt, w, s.stmts)
      /\ s.k = "decl" => walk = WalkDecl(w, s)
      /\ s.k = "expr" => walk = WalkExpr[s.x][w]
      /\ s.k = "if" => walk = WalkArms(WalkStmt, WalkExpr[s.c][w], s.then, s.els)
      /\ s.k = "while" => walk = WalkRounds(WalkStmt, WalkExpr[s.c][w], s)
      /\ s.k = "do" => walk = WalkDo(WalkStmt, w, s)
  BY <1>3
<1>5. /\ s.k = "for" => walk = WalkRounds(WalkStmt, WalkExpr[s.c][WalkStmt[s.init][w]], s)
      /\ s.k = "switch" => walk = WalkSwitch(WalkStmt, WalkExpr[s.tag][w], s)
      /\ s.k = "break" => walk = BreakTo(w)
      /\ s.k = "continue" => walk = ContinueTo(w)
      /\ s.k = "return" => walk = At(WalkExpr[s.x][w], Dead)
  BY <1>3
<1>6. s.k \notin {"block", "decl", "expr", "if", "while", "do", "for", "switch", "break",
                  "continue", "return"} => walk = w
  BY <1>3
<1> QED
  BY <1>4, <1>5, <1>6 DEF walk

(* The statements of a block, one after another. *)
LEMMA ListFacts ==
  ASSUME NEW s \in Nodes, s.k = "block", \A p \in Inner(s) : StmtMoves(p), NEW w \in Walks
  PROVE  \E at :
           /\ at[0] = w /\ WalkStmt[s][w] = at[Len(s.stmts)]
           /\ \A j \in 1..Len(s.stmts) : at[j] = WalkStmt[s.stmts[j]][at[j - 1]]
           /\ \A j \in 0..Len(s.stmts) : at[j] \in Walks
           /\ \A i, m \in 0..Len(s.stmts) : i <= m =>
                Moves(UNION {Named(s.stmts[j]) : j \in (i + 1)..m}, Declared(s), JumpsOut[s], at[i], at[m])
<1> DEFINE n == Len(s.stmts)
           moves == [i \in DOMAIN s.stmts |-> WalkStmt[s.stmts[i]]]
           NN == [i \in 1..n |-> Named(s.stmts[i])]
           at == Thread(moves, w)
<1>1. n \in Nat /\ DOMAIN s.stmts = 1..n /\ \A i \in 1..n : s.stmts[i] \in Inner(s)
  BY PartsAre
<1>2. Len(moves) = n /\ \A i \in 1..n : moves[i] = WalkStmt[s.stmts[i]]
  BY <1>1
<1>3. ASSUME NEW j \in 1..n, NEW u \in Walks
      PROVE  moves[j][u] \in Walks /\ Moves(NN[j], Declared(s), JumpsOut[s], u, moves[j][u])
  <2> DEFINE p == s.stmts[j]
  <2>1. p \in Inner(s) /\ moves[j] = WalkStmt[p] /\ NN[j] = Named(p)
    BY <1>1, <1>2
  <2>2. Moves(Named(p), Declared(p), JumpsOut[p], u, WalkStmt[p][u])
    BY <2>1 DEF StmtMoves
  <2>3. Declared(p) \subseteq Declared(s) /\ JumpsOut[p] \subseteq JumpsOut[s]
    BY <2>1, NamesInside, JumpsOutAre
  <2> HIDE DEF p, moves, NN
  <2>4. Moves(NN[j], Declared(s), JumpsOut[s], u, moves[j][u])
    BY <2>1, <2>2, <2>3, MovesMore
  <2> QED
    BY <2>4 DEF Moves
<1> HIDE DEF moves
<1>4. /\ at[0] = w /\ \A j \in 1..n : at[j] = moves[j][at[j - 1]]
      /\ \A j \in 0..n : at[j] \in Walks
      /\ \A i, m \in 0..n : i <= m =>
           Moves(UNION {NN[j] : j \in (i + 1)..m}, Declared(s), JumpsOut[s], at[i], at[m])
  <2> HIDE DEF NN, n
  <2>1. Keeping(moves, n, Walks, NN, Declared(s), JumpsOut[s])
    BY <1>3 DEF Keeping
  <2>2. Walks \in SUBSET Walks /\ n \in Nat /\ Len(moves) = n
    BY <1>1, <1>2
  <2>3. Threaded(moves, n, Walks, NN, Declared(s), JumpsOut[s], w, at)
    BY <2>1, <2>2, ThreadMoves
  <2> HIDE DEF at
  <2> QED
    BY <2>3 DEF Threaded
<1>5. WalkStmt[s][w] = at[n]
  BY WalkStmtAt DEF WalkList, moves
<1> HIDE DEF at
<1>6. ASSUME NEW i \in 0..n, NEW m \in 0..n
      PROVE  UNION {NN[j] : j \in (i + 1)..m} = UNION {Named(s.stmts[j]) : j \in (i + 1)..m}
  <2>1. \A j \in (i + 1)..m : NN[j] = Named(s.stmts[j])
    BY <1>1
  <2> HIDE DEF NN
  <2> QED
    BY <2>1
<1> HIDE DEF NN
<1> QED
  BY <1>2, <1>4, <1>5, <1>6

LEMMA EmptyWalk ==
  ASSUME NEW s \in Nodes, s.k = "block", s.stmts = <<>>, \A p \in Inner(s) : StmtMoves(p), NEW w \in Walks
  PROVE  WalkStmt[s][w] = w
<1>1. Len(s.stmts) = 0
  OBVIOUS
<1> QED
  BY <1>1, ListFacts

LEMMA DeclMoves ==
  ASSUME NEW s \in Nodes, s.k = "decl", NEW w \in Walks
  PROVE  /\ Moves(Named(s), Declared(s), {}, w, WalkStmt[s][w])
         /\ WalkExpr[s.x][w].reported => WalkStmt[s][w].reported
         /\ s.x # Absent => WalkStmt[s][w] = Write(WalkExpr[s.x][w], s.v)
         /\ s.x = Absent => WalkStmt[s][w].flow = [w.flow EXCEPT !.assigned = @ \ {s.v}]
<1>1. PICK init : init = WalkExpr[s.x][w]
  OBVIOUS
<1>2. s.x \in Inner(s) /\ s.x \in Nodes
  BY PartsAre, NodeFacts
<1>3. Moves(Named(s), Declared(s), {}, w, init) /\ init \in Walks
  BY <1>1, <1>2, PartMoves
<1>4. WalkStmt[s][w] = IF s.x # Absent THEN Write(init, s.v) ELSE [init EXCEPT !.flow.assigned = @ \ {s.v}]
  BY <1>1, WalkStmtAt DEF WalkDecl
<1>5. s.v \in Names /\ s.v \in Declared(s) /\ s.v \in Named(s)
  BY NamesInside
<1>6. CASE s.x # Absent
  <2>1. Moves({s.v}, {}, {}, init, Write(init, s.v)) /\ {s.v} \subseteq Named(s)
        /\ Write(init, s.v).reported = init.reported
    BY <1>3, <1>5, MovesWrite
  <2>2. Moves(Named(s), Declared(s), {}, w, Write(init, s.v))
    BY <1>3, <2>1, MovesOn
  <2> QED
    BY <1>1, <1>4, <1>6, <2>1, <2>2
<1>7. CASE s.x = Absent
  <2>1. s.x.k = "absent"
    BY <1>7 DEF Absent
  <2>2. init = w
    BY <1>1, <1>2, <2>1, WalkExprAt
  <2> DEFINE f == [w.flow EXCEPT !.assigned = @ \ {s.v}]
  <2>3. f \in Flows /\ f.live = w.flow.live /\ f.assigned = w.flow.assigned \ {s.v}
    BY WalkFields DEF Flows
  <2>4. Reaches(Named(s), Declared(s), w, f)
    BY <1>5, <2>3 DEF Reaches
  <2>5. WalkStmt[s][w] = At(w, f)
    BY <1>4, <1>7, <2>2 DEF At
  <2> HIDE DEF f
  <2>6. Moves(Named(s), Declared(s), {}, w, w)
    BY MovesSame
  <2>7. Moves(Named(s), Declared(s), {}, w, At(w, f)) /\ At(w, f).reported = w.reported /\ At(w, f).flow = f
    BY <2>4, <2>6, MovesAt
  <2> QED
    BY <1>1, <1>7, <2>2, <2>5, <2>7 DEF f
<1> QED
  BY <1>6, <1>7

-----------------------------------------------------------------------------
(* Loops and switches *)

RoundBody(c, s) == WalkStmt[s.body][Push(c, TRUE)]
BodyEnd(b)      == Join(Top(b).continues \cup {b.flow})
RoundPost(c, s) ==
  IF s.k = "while" THEN RoundBody(c, s)
  ELSE WalkExpr[s.post][At(RoundBody(c, s), BodyEnd(RoundBody(c, s)))]

(* A body walked under a frame of its own. *)
LEMMA BodyFacts ==
  ASSUME NEW s \in Nodes, IsLoop(s), StmtMoves(s.body), NEW c \in Walks, NEW b, b = RoundBody(c, s)
  PROVE  /\ Moves(Named(s), Declared(s.body), JumpsOut[s.body], Push(c, TRUE), b)
         /\ b \in Walks /\ b.tracked = c.tracked /\ (c.reported => b.reported)
         /\ Moves(Named(s), Declared(s.body), {}, c, Pop(b)) /\ Pop(b).reported = b.reported
         /\ Push(c, TRUE) \in Walks /\ Push(c, TRUE).flow = c.flow
         /\ Push(c, TRUE).tracked = c.tracked /\ Push(c, TRUE).reported = c.reported
         /\ Len(b.jumps) # 0 /\ LoopOf(b.jumps) = {Len(b.jumps)}
         /\ \A f \in Top(b).breaks \cup Top(b).continues \cup {b.flow, BodyEnd(b)} :
              Reaches(Named(s), Declared(s.body), c, f)
         /\ \A f \in Top(b).continues \cup {b.flow} : Weaker(BodyEnd(b), f)
         /\ BodyEnd(b).live => \E f \in Top(b).continues \cup {b.flow} : f.live
         /\ "break" \notin JumpsOut[s.body] => Top(b).breaks = {}
         /\ "continue" \notin JumpsOut[s.body] => Top(b).continues = {}
<1> DEFINE N == Named(s)
           D == Declared(s.body)
           J == JumpsOut[s.body]
           p == Push(c, TRUE)
<1>1. s.body \in Inner(s) /\ s.body \in Nodes
  BY PartsAre, NodeFacts DEF IsLoop
<1>2. Named(s.body) \subseteq N /\ J \subseteq {"break", "continue"}
  BY <1>1, NamesInside, JumpsOutAre
<1>3. p \in Walks /\ p.flow = c.flow /\ p.tracked = c.tracked /\ p.reported = c.reported
  BY PushFacts
<1>4. Moves(Named(s.body), D, J, p, b)
  BY <1>3 DEF StmtMoves, RoundBody
<1>5. Moves(N, D, J, p, b)
  <2> HIDE DEF N, D, J, p
  <2> QED
    BY <1>2, <1>3, <1>4, MovesMore
<1>6. b \in Walks /\ b.tracked = c.tracked /\ (c.reported => b.reported)
  BY <1>3, <1>5 DEF Moves
<1> HIDE DEF N, D, J
<1>7. /\ Moves(N, D, J \ {"break", "continue"}, c, Pop(b))
      /\ Pop(b).reported = b.reported
      /\ Reaches(N, D, c, b.flow)
      /\ Top(b).breaks \in SUBSET Flows /\ Top(b).continues \in SUBSET Flows
      /\ \A f \in Top(b).breaks : Reaches(N, D, c, f)
      /\ \A f \in Top(b).continues : Reaches(N, D, c, f)
      /\ "break" \notin J => Top(b).breaks = {}
      /\ "continue" \notin J => Top(b).continues = {}
      /\ Len(b.jumps) = Len(c.jumps) + 1 /\ Len(c.jumps) \in Nat
      /\ LoopOf(b.jumps) = {Len(b.jumps)}
  <2>1. Popped(N, D, J, c, TRUE, b)
    BY <1>5, PopMoves
  <2> QED
    BY <2>1 DEF Popped
<1>8. J \ {"break", "continue"} = {} /\ Len(b.jumps) # 0
  BY <1>2, <1>7
<1> DEFINE fs == Top(b).continues \cup {b.flow}
<1>9. fs \in SUBSET Flows /\ \A f \in fs : Reaches(N, D, c, f)
  BY <1>7 DEF Reaches
<1>10. BodyEnd(b) = Join(fs)
  BY DEF BodyEnd
<1> HIDE DEF fs
<1>11. Reaches(N, D, c, Join(fs)) /\ (\A f \in fs : Weaker(Join(fs), f))
       /\ (Join(fs).live <=> \E f \in fs : f.live)
  BY <1>9, JoinFacts
<1> QED
  BY <1>3, <1>5, <1>6, <1>7, <1>8, <1>10, <1>11 DEF N, D, J, fs

(* A while or a for, from the walk after its condition. *)
LEMMA RoundsFacts ==
  ASSUME NEW s \in Nodes, s.k \in {"while", "for"}, StmtMoves(s.body), NEW c \in Walks,
         NEW r, r = WalkRounds(WalkStmt, c, s)
  PROVE  /\ Moves(Named(s), Declared(s.body), {}, c, r)
         /\ RoundBody(c, s).reported => r.reported
         /\ RoundPost(c, s).reported => r.reported
         /\ Reaches(Named(s), Declared(s.body), c, RoundPost(c, s).flow)
         /\ s.k = "for" =>
              LET at == At(RoundBody(c, s), BodyEnd(RoundBody(c, s)))
              IN  at \in Walks /\ at.flow = BodyEnd(RoundBody(c, s)) /\ at.tracked = c.tracked
         /\ \A f \in Top(RoundBody(c, s)).breaks : AlwaysTrue(s.c) => Weaker(r.flow, f)
         /\ ~AlwaysTrue(s.c) => r.flow = c.flow
         /\ AlwaysTrue(s.c) /\ "break" \notin JumpsOut[s.body] => ~r.flow.live
<1> DEFINE N == Named(s)
           D == Declared(s.body)
           J == JumpsOut[s.body]
           p == Push(c, TRUE)
<1>1. PICK b : b = RoundBody(c, s)
  OBVIOUS
<1>2. PICK post : post = RoundPost(c, s)
  OBVIOUS
<1> DEFINE back == At(b, BodyEnd(b))
<1>3. IsLoop(s) /\ (s.k = "for" => s.post \in Inner(s))
  BY PartsAre DEF IsLoop
<1> HIDE DEF N, D, J
<1>4. /\ Moves(N, D, J, p, b) /\ b \in Walks /\ b.tracked = c.tracked
      /\ p \in Walks /\ p.flow = c.flow /\ p.tracked = c.tracked
      /\ Len(b.jumps) # 0
      /\ \A f \in Top(b).breaks \cup Top(b).continues \cup {b.flow, BodyEnd(b)} : Reaches(N, D, c, f)
  BY <1>1, <1>3, BodyFacts DEF N, D, J
<1>5. /\ Moves(N, D, J, p, back) /\ back \in Walks /\ back.flow = BodyEnd(b) /\ back.jumps = b.jumps
      /\ back.tracked = c.tracked /\ back.reported = b.reported
  <2>1. Reaches(N, D, p, BodyEnd(b))
    BY <1>4 DEF Reaches
  <2> HIDE DEF p
  <2> QED
    BY <1>4, <2>1, MovesAt
<1> HIDE DEF back, p
<1>6. /\ Moves(N, D, J, p, post) /\ (b.reported => post.reported)
      /\ Top(b).breaks \subseteq Top(post).breaks
  <2>1. CASE s.k = "while"
    BY <1>1, <1>2, <1>4, <2>1 DEF RoundPost
  <2>2. CASE s.k = "for"
    <3>1. post = WalkExpr[s.post][back]
      BY <1>1, <1>2, <2>2 DEF RoundPost, back
    <3>2. Moves(N, D, J, back, post) /\ (back.reported => post.reported)
      BY <1>3, <1>5, <2>2, <3>1, PartMoves DEF N
    <3>3. Moves(N, D, J, p, post)
      BY <1>4, <1>5, <3>2, MovesOn
    <3>4. Top(back) = Top(b) /\ Len(back.jumps) # 0
      BY <1>4, <1>5 DEF Top
    <3>5. Top(back).breaks \subseteq Top(post).breaks
      BY <1>5, <3>2, <3>4, TopGrows
    <3> QED
      BY <1>5, <3>2, <3>3, <3>4, <3>5
  <2> QED
    BY <2>1, <2>2
<1>7. /\ Moves(N, D, J \ {"break", "continue"}, c, Pop(post)) /\ Pop(post) \in Walks
      /\ Pop(post).reported = post.reported
      /\ Reaches(N, D, c, post.flow)
      /\ Top(post).breaks \in SUBSET Flows
      /\ \A f \in Top(post).breaks : Reaches(N, D, c, f)
      /\ "break" \notin J => Top(post).breaks = {}
  <2>1. Popped(N, D, J, c, TRUE, post)
    BY <1>6, PopMoves DEF p
  <2> QED
    BY <2>1 DEF Popped
<1>8. J \ {"break", "continue"} = {}
  BY <1>3, PartsAre, NodeFacts, JumpsOutAre DEF J
<1> DEFINE f0 == IF AlwaysTrue(s.c) THEN Join(Top(post).breaks) ELSE c.flow
<1>9. r = At(Pop(post), f0)
  <2> HIDE DEF f0
  <2>1. r = LET body == WalkStmt[s.body][Push(c, TRUE)]
                post1 == IF s.k = "while" THEN body
                         ELSE WalkExpr[s.post][At(body, Join(Top(body).continues \cup {body.flow}))]
            IN  At(Pop(post1), IF AlwaysTrue(s.c) THEN Join(Top(post1).breaks) ELSE c.flow)
    BY DEF WalkRounds
  <2> QED
    BY <1>2, <2>1 DEF RoundPost, RoundBody, BodyEnd, f0
<1>10. /\ Reaches(N, D, c, f0)
       /\ AlwaysTrue(s.c) => \A f \in Top(post).breaks : Weaker(f0, f)
       /\ AlwaysTrue(s.c) /\ "break" \notin J => ~f0.live
       /\ ~AlwaysTrue(s.c) => f0 = c.flow
  <2>1. Reaches(N, D, c, c.flow)
    BY MovesSame
  <2> DEFINE fs == Top(post).breaks
  <2>2. fs \in SUBSET Flows /\ (\A f \in fs : Reaches(N, D, c, f)) /\ ("break" \notin J => fs = {})
    BY <1>7
  <2> HIDE DEF fs
  <2>3. Reaches(N, D, c, Join(fs)) /\ (\A f \in fs : Weaker(Join(fs), f))
        /\ (Join(fs).live <=> \E f \in fs : f.live)
    BY <2>2, JoinFacts
  <2>4. AlwaysTrue(s.c) => f0 = Join(fs)
    BY DEF fs
  <2>5. ~AlwaysTrue(s.c) => f0 = c.flow
    OBVIOUS
  <2> HIDE DEF f0
  <2> QED
    BY <2>1, <2>2, <2>3, <2>4, <2>5 DEF fs
<1> HIDE DEF f0
<1>11. Moves(N, D, {}, c, Pop(post))
  BY <1>7, <1>8
<1>12. Moves(N, D, {}, c, r) /\ r.flow = f0 /\ r.reported = post.reported
  BY <1>7, <1>9, <1>10, <1>11, MovesAt
<1> QED
  BY <1>1, <1>2, <1>5, <1>6, <1>7, <1>10, <1>12 DEF N, D, J, back

(* A do, from the walk before it. *)
DoTested(w, s) == WalkExpr[s.c][At(Pop(RoundBody(w, s)), BodyEnd(RoundBody(w, s)))]

LEMMA DoFacts ==
  ASSUME NEW s \in Nodes, s.k = "do", StmtMoves(s.body), NEW w \in Walks,
         NEW r, r = WalkDo(WalkStmt, w, s)
  PROVE  /\ Moves(Named(s), Declared(s.body), {}, w, r)
         /\ RoundBody(w, s).reported => r.reported
         /\ DoTested(w, s).reported => r.reported
         /\ Reaches(Named(s), Declared(s.body), w, DoTested(w, s).flow)
         /\ LET at == At(Pop(RoundBody(w, s)), BodyEnd(RoundBody(w, s)))
            IN  at \in Walks /\ at.flow = BodyEnd(RoundBody(w, s)) /\ at.tracked = w.tracked
         /\ \A f \in Top(RoundBody(w, s)).breaks : Weaker(r.flow, f)
         /\ ~AlwaysTrue(s.c) => Weaker(r.flow, DoTested(w, s).flow)
         /\ DoTerminates(Terminates, s) /\ ~BodyEnd(RoundBody(w, s)).live => ~r.flow.live
         /\ AlwaysTrue(s.c) /\ "break" \notin JumpsOut[s.body] => ~r.flow.live
<1> DEFINE N == Named(s)
           D == Declared(s.body)
           J == JumpsOut[s.body]
<1>1. PICK b : b = RoundBody(w, s)
  OBVIOUS
<1>2. PICK tested : tested = DoTested(w, s)
  OBVIOUS
<1> DEFINE back == At(Pop(b), BodyEnd(b))
<1>3. IsLoop(s) /\ s.c \in Inner(s)
  BY PartsAre DEF IsLoop
<1> HIDE DEF N, D, J
<1>4. /\ Moves(N, D, {}, w, Pop(b)) /\ Pop(b).reported = b.reported
      /\ \A f \in Top(b).breaks \cup {BodyEnd(b)} : Reaches(N, D, w, f)
      /\ "break" \notin J => Top(b).breaks = {}
  BY <1>1, <1>3, BodyFacts DEF N, D, J
<1>5. /\ Moves(N, D, {}, w, back) /\ back \in Walks /\ back.flow = BodyEnd(b)
      /\ back.tracked = w.tracked /\ back.reported = b.reported
  BY <1>4, MovesAt
<1> HIDE DEF back
<1>6. Moves(N, D, {}, back, tested) /\ (b.reported => tested.reported)
  BY <1>1, <1>2, <1>3, <1>5, PartMoves DEF N, DoTested, back
<1>7. Moves(N, D, {}, w, tested)
  BY <1>5, <1>6, MovesOn
<1>8. Reaches(N, D, w, tested.flow) /\ (tested.flow.live => BodyEnd(b).live)
  BY <1>5, <1>6, <1>7 DEF Moves, Reaches
<1> DEFINE fs == Top(b).breaks \cup (IF AlwaysTrue(s.c) THEN {} ELSE {tested.flow})
<1>9. r = At(tested, Join(fs))
  <2> HIDE DEF fs
  <2>1. r = LET body   == WalkStmt[s.body][Push(w, TRUE)]
                frame  == Top(body)
                tested1 == WalkExpr[s.c][At(Pop(body), Join(frame.continues \cup {body.flow}))]
            IN  At(tested1, Join(frame.breaks \cup (IF AlwaysTrue(s.c) THEN {} ELSE {tested1.flow})))
    BY DEF WalkDo
  <2> QED
    BY <1>1, <1>2, <2>1 DEF DoTested, RoundBody, BodyEnd, fs
<1>10. fs \in SUBSET Flows /\ (\A f \in fs : Reaches(N, D, w, f))
       /\ Top(b).breaks \subseteq fs /\ (~AlwaysTrue(s.c) => tested.flow \in fs)
       /\ ("break" \notin J => fs \subseteq (IF AlwaysTrue(s.c) THEN {} ELSE {tested.flow}))
  BY <1>4, <1>8 DEF Reaches
<1> HIDE DEF fs
<1>11. Reaches(N, D, w, Join(fs)) /\ (\A f \in fs : Weaker(Join(fs), f))
       /\ (Join(fs).live <=> \E f \in fs : f.live)
  BY <1>10, JoinFacts
<1>12. Moves(N, D, {}, w, r) /\ r.flow = Join(fs) /\ r.reported = tested.reported
  BY <1>7, <1>9, <1>11, MovesAt
<1>13. AlwaysTrue(s.c) /\ "break" \notin J => ~Join(fs).live
  BY <1>10, <1>11
<1>14. "break" \notin J /\ ~BodyEnd(b).live => ~Join(fs).live
  BY <1>8, <1>10, <1>11
<1>15. DoTerminates(Terminates, s) => "break" \notin J
  BY DEF DoTerminates, J
<1> QED
  BY <1>1, <1>2, <1>5, <1>6, <1>8, <1>10, <1>11, <1>12, <1>13, <1>14, <1>15 DEF N, D, J, back

ArmsDeclare(s) == UNION {Declared(s.arms[i].body) : i \in DOMAIN s.arms}
ArmsJump(s)    == UNION {JumpsOut[s.arms[i].body] : i \in DOMAIN s.arms}

(* Arm i, walked from u, which has the flow state after the tag. *)
ArmFits(s, tag, starts, all, r, i) ==
  LET u == starts[i - 1]
      e == WalkStmt[s.arms[i].body][u]
  IN  /\ u \in Walks /\ u.flow = tag.flow /\ u.tracked = tag.tracked
      /\ e \in Walks
      /\ e.reported => r.reported
      /\ Reaches(Named(s), ArmsDeclare(s), tag, e.flow)
      /\ \E back \in Walks : /\ back.jumps = e.jumps
                             /\ Moves(Named(s), ArmsDeclare(s), ArmsJump(s), back, all)
      /\ Empty(s.arms[i]) => e = u
      /\ HasDefault(s) /\ ~Empty(s.arms[i]) => Weaker(r.flow, e.flow)

SwitchFits(s, tag, starts, all, r) ==
  /\ all \in Walks /\ Popped(Named(s), ArmsDeclare(s), ArmsJump(s), tag, FALSE, all)
  /\ Moves(Named(s), ArmsDeclare(s), ArmsJump(s) \ {"break"}, tag, r)
  /\ r.jumps = Pop(all).jumps /\ r.reported = all.reported
  /\ \A i \in DOMAIN s.arms : ArmFits(s, tag, starts, all, r, i)
  /\ HasDefault(s) =>
       /\ \A f \in Top(all).breaks : Weaker(r.flow, f)
       /\ r.flow.live => \/ Top(all).breaks # {}
                         \/ \E i \in DOMAIN s.arms :
                              ~Empty(s.arms[i]) /\ WalkStmt[s.arms[i].body][starts[i - 1]].flow.live
  /\ ~HasDefault(s) => r.flow = tag.flow

LEMMA SwitchFacts ==
  ASSUME NEW s \in Nodes, s.k = "switch", \A p \in Inner(s) : StmtMoves(p),
         NEW tag \in Walks, NEW r, r = WalkSwitch(WalkStmt, tag, s)
  PROVE  \E starts, all : SwitchFits(s, tag, starts, all, r)
<1> DEFINE N == Named(s)
           D == ArmsDeclare(s)
           J == ArmsJump(s)
           n == Len(s.arms)
           Body(i) == s.arms[i].body
           moves == [i \in DOMAIN s.arms |->
                       [u \in Walks |-> IF Empty(s.arms[i]) THEN u
                                        ELSE At(WalkStmt[s.arms[i].body][u], tag.flow)]]
           U == {u \in Walks : u.flow = tag.flow /\ u.tracked = tag.tracked}
           NN == [i \in DOMAIN s.arms |-> N]
           p == Push(tag, FALSE)
           starts == Thread(moves, p)
           all == starts[n]
<1>1. n \in Nat /\ DOMAIN s.arms = 1..n /\ \A i \in 1..n : Body(i) \in Inner(s) /\ Body(i) \in Nodes
                                                           /\ Body(i).k = "block"
  BY ArmsAre
<1>2. ASSUME NEW i \in 1..n, NEW u \in Walks
      PROVE  Moves(N, D, J, u, WalkStmt[Body(i)][u])
  <2> DEFINE b == Body(i)
  <2>1. b \in Inner(s) /\ b \in Nodes /\ i \in DOMAIN s.arms
    BY <1>1
  <2>2. Moves(Named(b), Declared(b), JumpsOut[b], u, WalkStmt[b][u])
    BY <2>1 DEF StmtMoves
  <2>3. Named(b) \subseteq N /\ Declared(b) \subseteq D /\ JumpsOut[b] \subseteq J
    BY <2>1, NamesInside DEF ArmsDeclare, ArmsJump
  <2> HIDE DEF b, N, D, J
  <2>4. Moves(N, D, J, u, WalkStmt[b][u])
    BY <2>2, <2>3, MovesMore
  <2> QED
    BY <2>4 DEF b
<1>3. ASSUME NEW i \in 1..n, NEW u \in Walks, Empty(s.arms[i]) PROVE WalkStmt[Body(i)][u] = u
  <2>1. Body(i) \in Nodes /\ Body(i).k = "block" /\ Body(i).stmts = <<>>
    BY <1>1, <1>3 DEF Empty
  <2>2. Inner(Body(i)) = {}
    BY <2>1, PartsAre
  <2> QED
    BY <2>1, <2>2, EmptyWalk
<1> HIDE DEF N, D, J, n
<1>4. Len(moves) = n /\ \A i \in 1..n : \A u \in Walks :
        moves[i][u] = IF Empty(s.arms[i]) THEN u ELSE At(WalkStmt[Body(i)][u], tag.flow)
  BY <1>1
<1>5. U \in SUBSET Walks /\ p \in U
  BY PushFacts
<1>6. \A i \in 1..n : NN[i] = N
  BY <1>1
<1> HIDE DEF moves, NN
<1>7. ASSUME NEW i \in 1..n, NEW u \in U
      PROVE  /\ moves[i][u] \in U /\ Moves(N, D, J, u, moves[i][u])
             /\ moves[i][u].jumps = WalkStmt[Body(i)][u].jumps
             /\ moves[i][u].reported = WalkStmt[Body(i)][u].reported
  <2>1. u \in Walks /\ u.flow = tag.flow /\ u.tracked = tag.tracked
    OBVIOUS
  <2>2. CASE Empty(s.arms[i])
    <3>1. moves[i][u] = u /\ WalkStmt[Body(i)][u] = u
      BY <1>3, <1>4, <2>1, <2>2
    <3> QED
      BY <2>1, <3>1, MovesSame
  <2>3. CASE ~Empty(s.arms[i])
    <3>1. PICK e : e = WalkStmt[Body(i)][u]
      OBVIOUS
    <3>2. Moves(N, D, J, u, e) /\ moves[i][u] = At(e, u.flow)
      BY <1>2, <1>4, <2>1, <2>3, <3>1
    <3>3. Reaches(N, D, u, u.flow)
      BY <2>1, MovesSame
    <3>4. /\ Moves(N, D, J, u, At(e, u.flow)) /\ At(e, u.flow) \in Walks
          /\ At(e, u.flow).flow = u.flow /\ At(e, u.flow).jumps = e.jumps
          /\ At(e, u.flow).tracked = u.tracked /\ At(e, u.flow).reported = e.reported
      BY <2>1, <3>2, <3>3, MovesAt
    <3> QED
      BY <2>1, <3>1, <3>2, <3>4
  <2> QED
    BY <2>2, <2>3
<1>8. Threaded(moves, n, U, NN, D, J, p, starts)
  <2>1. Keeping(moves, n, U, NN, D, J)
    BY <1>6, <1>7 DEF Keeping
  <2> HIDE DEF U, p
  <2> QED
    BY <1>1, <1>4, <1>5, <2>1, ThreadMoves
<1> HIDE DEF starts
<1>9. /\ starts[0] = p /\ \A i \in 1..n : starts[i] = moves[i][starts[i - 1]]
      /\ \A i \in 0..n : starts[i] \in U
  BY <1>8 DEF Threaded
<1>10. \A i \in 0..n : Moves(N, D, J, starts[i], all)
  <2> SUFFICES ASSUME NEW i \in 0..n PROVE Moves(N, D, J, starts[i], all)
    OBVIOUS
  <2>1. i <= n /\ n \in 0..n
    BY <1>1
  <2>2. Moves(UNION {NN[j] : j \in (i + 1)..n}, D, J, starts[i], all)
    BY <1>8, <2>1 DEF Threaded
  <2>3. \A j \in (i + 1)..n : NN[j] = N
    BY <1>1, <1>6
  <2>4. UNION {NN[j] : j \in (i + 1)..n} \subseteq N
    BY <2>3
  <2>5. starts[i] \in Walks
    BY <1>9
  <2> HIDE DEF all
  <2> QED
    BY <2>2, <2>4, <2>5, MovesMore
<1>11. all \in Walks /\ all \in U /\ Moves(N, D, J, p, all)
  <2>1. 0 \in 0..n /\ n \in 0..n
    BY <1>1
  <2>2. all \in U
    BY <1>9, <2>1
  <2>3. Moves(N, D, J, starts[0], all)
    BY <1>10, <2>1
  <2>4. \A u \in U : u \in Walks
    OBVIOUS
  <2> HIDE DEF U, all, p
  <2> QED
    BY <1>9, <2>2, <2>3, <2>4
<1> HIDE DEF all, U
<1>12. Popped(N, D, J, tag, FALSE, all)
  BY <1>11, PopMoves DEF p
<1> DEFINE pop == Pop(all)
           End(i) == WalkStmt[Body(i)][starts[i - 1]]
           exits == {End(i).flow : i \in {j \in DOMAIN s.arms : ~Empty(s.arms[j])}}
           f0 == IF HasDefault(s) THEN Join(Top(all).breaks \cup exits) ELSE tag.flow
<1>13. r = At(pop, f0)
  <2>1. ArmStarts(WalkStmt, tag, s) = starts
    BY DEF ArmStarts, starts, moves
  <2>2. starts[Len(s.arms)] = all
    BY DEF all, n
  <2> HIDE DEF starts, all
  <2> QED
    BY <2>1, <2>2 DEF WalkSwitch
<1>14. /\ Moves(N, D, J \ {"break"}, tag, pop) /\ pop \in Walks /\ pop.reported = all.reported
       /\ Top(all).breaks \in SUBSET Flows /\ \A f \in Top(all).breaks : Reaches(N, D, tag, f)
  BY <1>12 DEF Popped
<1>15. ASSUME NEW i \in 1..n
       PROVE  /\ starts[i - 1] \in U /\ Moves(N, D, J, starts[i - 1], End(i)) /\ End(i) \in Walks
              /\ Reaches(N, D, tag, End(i).flow)
              /\ starts[i] \in Walks /\ starts[i].jumps = End(i).jumps
              /\ starts[i].reported = End(i).reported
              /\ Moves(N, D, J, starts[i], all)
              /\ Empty(s.arms[i]) => End(i) = starts[i - 1]
  <2>1. i - 1 \in 0..n /\ i \in 0..n
    BY <1>1
  <2>2. starts[i - 1] \in U /\ starts[i] \in U
    BY <1>9, <2>1
  <2>3. starts[i - 1] \in Walks /\ starts[i] \in Walks
        /\ starts[i - 1].flow = tag.flow /\ starts[i - 1].tracked = tag.tracked
    BY <2>2 DEF U
  <2>4. Moves(N, D, J, starts[i - 1], End(i))
    BY <1>2, <2>3
  <2>5. End(i) \in Walks /\ Reaches(N, D, starts[i - 1], End(i).flow)
    BY <2>4 DEF Moves
  <2>6. Reaches(N, D, tag, End(i).flow)
    BY <2>3, <2>5 DEF Reaches
  <2>7. starts[i].jumps = End(i).jumps /\ starts[i].reported = End(i).reported
    BY <1>7, <1>9, <2>2
  <2>8. Empty(s.arms[i]) => End(i) = starts[i - 1]
    BY <1>3, <2>3
  <2> QED
    BY <1>10, <2>1, <2>2, <2>3, <2>4, <2>5, <2>6, <2>7, <2>8
<1> HIDE DEF Body, pop
<1>16. \A f \in exits : Reaches(N, D, tag, f)
  BY <1>1, <1>15
<1> DEFINE fs == Top(all).breaks \cup exits
<1>17. fs \in SUBSET Flows /\ \A f \in fs : Reaches(N, D, tag, f)
  BY <1>14, <1>16 DEF Reaches
<1>18. f0 = IF HasDefault(s) THEN Join(fs) ELSE tag.flow
  OBVIOUS
<1>19. /\ \A i \in 1..n : ~Empty(s.arms[i]) => End(i).flow \in fs
       /\ Top(all).breaks \subseteq fs
       /\ \A f \in fs : f \in Top(all).breaks \/ \E i \in 1..n : ~Empty(s.arms[i]) /\ f = End(i).flow
  BY <1>1
<1> HIDE DEF fs, exits
<1>20. Reaches(N, D, tag, Join(fs)) /\ (\A f \in fs : Weaker(Join(fs), f))
       /\ (Join(fs).live <=> \E f \in fs : f.live)
  BY <1>17, JoinFacts
<1>21. Reaches(N, D, tag, tag.flow)
  BY MovesSame
<1>22. Reaches(N, D, tag, f0)
  BY <1>18, <1>20, <1>21
<1> HIDE DEF f0
<1>23. /\ Moves(N, D, J \ {"break"}, tag, r) /\ r.flow = f0 /\ r.jumps = pop.jumps
       /\ r.reported = all.reported
  BY <1>13, <1>14, <1>22, MovesAt
<1>24. ASSUME NEW i \in 1..n PROVE ArmFits(s, tag, starts, all, r, i)
  <2>1. starts[i - 1] \in Walks /\ starts[i - 1].flow = tag.flow /\ starts[i - 1].tracked = tag.tracked
    BY <1>15 DEF U
  <2>2. End(i).reported => r.reported
    BY <1>15, <1>23 DEF Moves
  <2>3. HasDefault(s) /\ ~Empty(s.arms[i]) => Weaker(r.flow, End(i).flow)
    BY <1>18, <1>19, <1>20, <1>23
  <2>4. End(i) \in Walks /\ Reaches(N, D, tag, End(i).flow) /\ starts[i] \in Walks
        /\ starts[i].jumps = End(i).jumps /\ Moves(N, D, J, starts[i], all)
        /\ (Empty(s.arms[i]) => End(i) = starts[i - 1])
    BY <1>15
  <2> QED
    BY <2>1, <2>2, <2>3, <2>4 DEF ArmFits, N, D, J, Body
<1>25. HasDefault(s) =>
         /\ \A f \in Top(all).breaks : Weaker(r.flow, f)
         /\ r.flow.live => \/ Top(all).breaks # {}
                           \/ \E i \in DOMAIN s.arms : ~Empty(s.arms[i]) /\ End(i).flow.live
  BY <1>1, <1>18, <1>19, <1>20, <1>23
<1>26. ~HasDefault(s) => r.flow = tag.flow
  BY <1>18, <1>23
<1>27. \A i \in DOMAIN s.arms : ArmFits(s, tag, starts, all, r, i)
  BY <1>1, <1>24
<1>28. SwitchFits(s, tag, starts, all, r)
  BY <1>11, <1>12, <1>23, <1>25, <1>26, <1>27 DEF SwitchFits, N, D, J, Body, pop
<1> QED
  BY <1>28

LEMMA WalkStmtMoves ==
  \A s \in Nodes : StmtMoves(s)
<1> DEFINE T == {s \in Nodes : StmtMoves(s)}
<1>1. ASSUME NEW s \in Nodes, Inner(s) \subseteq T PROVE s \in T
  <2> DEFINE N == Named(s)
             D == Declared(s)
             J == JumpsOut[s]
  <2>1. \A p \in Inner(s) : StmtMoves(p)
    BY <1>1
  <2>2. \A p \in Inner(s) : Declared(p) \subseteq D
    BY NamesInside
  <2> SUFFICES ASSUME NEW w \in Walks PROVE Moves(N, D, J, w, WalkStmt[s][w])
    BY DEF StmtMoves
  <2> HIDE DEF T, N, D, J
  <2>3. \A x \in Inner(s) : \A u \in Walks : Moves(N, D, J, u, WalkExpr[x][u])
    BY PartMoves DEF N
  <2>4. CASE s.k = "block"
    <3>1. PICK at : /\ at[0] = w /\ WalkStmt[s][w] = at[Len(s.stmts)]
                    /\ \A i, m \in 0..Len(s.stmts) : i <= m =>
                         Moves(UNION {Named(s.stmts[j]) : j \in (i + 1)..m}, D, J, at[i], at[m])
      BY <2>1, <2>4, ListFacts DEF D, J
    <3> DEFINE M == UNION {Named(s.stmts[j]) : j \in 1..Len(s.stmts)}
    <3>2. Len(s.stmts) \in Nat /\ \A j \in 1..Len(s.stmts) : s.stmts[j] \in Inner(s)
      BY <2>4, PartsAre
    <3>3. Moves(M, D, J, w, WalkStmt[s][w])
      <4>1. 0 \in 0..Len(s.stmts) /\ Len(s.stmts) \in 0..Len(s.stmts) /\ 0 <= Len(s.stmts) /\ 0 + 1 = 1
        BY <3>2
      <4>2. Moves(UNION {Named(s.stmts[j]) : j \in (0 + 1)..Len(s.stmts)}, D, J, at[0], at[Len(s.stmts)])
        BY <3>1, <4>1
      <4> QED
        BY <3>1, <4>1, <4>2
    <3>4. M \subseteq N
      BY <3>2, NamesInside DEF N
    <3> HIDE DEF M
    <3> QED
      BY <3>3, <3>4, MovesMore
  <2>5. CASE s.k = "decl"
    <3>1. Moves(N, D, {}, w, WalkStmt[s][w])
      BY <2>5, DeclMoves DEF N, D
    <3> QED
      BY <3>1, MovesMore
  <2>6. CASE s.k = "expr"
    BY <2>3, <2>6, PartsAre, WalkStmtAt
  <2>7. CASE s.k = "if"
    <3>1. PICK c : c = WalkExpr[s.c][w]
      OBVIOUS
    <3>2. s.c \in Inner(s) /\ s.then \in Inner(s) /\ s.els \in Inner(s)
      BY <2>7, PartsAre
    <3>3. Moves(N, D, J, w, c) /\ c \in Walks
      BY <2>3, <3>1, <3>2 DEF Moves
    <3>4. ASSUME NEW p \in Inner(s), NEW u \in Walks PROVE Moves(N, D, J, u, WalkStmt[p][u])
      <4>1. Moves(Named(p), Declared(p), JumpsOut[p], u, WalkStmt[p][u])
        BY <2>1 DEF StmtMoves
      <4>2. Named(p) \subseteq N /\ Declared(p) \subseteq D /\ JumpsOut[p] \subseteq J
        BY <2>7, NamesInside, JumpsOutAre DEF N, D, J
      <4> QED
        BY <4>1, <4>2, MovesMore
    <3>5. \A u \in Walks : Moves(N, D, J, u, WalkStmt[s.then][u]) /\ Moves(N, D, J, u, WalkStmt[s.els][u])
      BY <3>2, <3>4
    <3>6. Moves(N, D, J, c, WalkArms(WalkStmt, c, s.then, s.els))
      BY <3>3, <3>5, ArmsMove DEF ArmsFit
    <3>7. Moves(N, D, J, w, WalkArms(WalkStmt, c, s.then, s.els))
      BY <3>3, <3>6, MovesOn
    <3> QED
      BY <2>7, <3>1, <3>7, WalkStmtAt
  <2>8. CASE s.k \in {"while", "for"}
    <3>1. s.c \in Inner(s) /\ s.body \in Inner(s) /\ (s.k = "for" => s.init \in Inner(s))
      BY <2>8, PartsAre
    <3>2. PICK head : head = IF s.k = "for" THEN WalkStmt[s.init][w] ELSE w
      OBVIOUS
    <3>3. Moves(N, D, J, w, head) /\ head \in Walks
      <4>1. CASE s.k = "while"
        BY <3>2, <4>1, MovesSame
      <4>2. CASE s.k = "for"
        <5>1. s.init \in Nodes /\ s.init.k \in {"decl", "expr", "absent"}
          BY <3>1, <4>2, NodeFacts DEF Shaped
        <5>2. JumpsOut[s.init] \subseteq J /\ Named(s.init) \subseteq N /\ Declared(s.init) \subseteq D
          BY <3>1, <4>2, <5>1, JumpsOutAre, NamesInside DEF N, D
        <5>3. Moves(Named(s.init), Declared(s.init), JumpsOut[s.init], w, WalkStmt[s.init][w])
          BY <2>1, <3>1, <4>2 DEF StmtMoves
        <5>4. head = WalkStmt[s.init][w]
          BY <3>2, <4>2
        <5>5. Moves(N, D, J, w, head)
          BY <5>2, <5>3, <5>4, MovesMore
        <5> QED
          BY <5>5 DEF Moves
      <4> QED
        BY <2>8, <4>1, <4>2
    <3>4. PICK c : c = WalkExpr[s.c][head]
      OBVIOUS
    <3>5. Moves(N, D, J, head, c) /\ c \in Walks
      BY <2>3, <3>1, <3>3, <3>4 DEF Moves
    <3>6. PICK r : r = WalkRounds(WalkStmt, c, s)
      OBVIOUS
    <3>7. Moves(N, Declared(s.body), {}, c, r) /\ StmtMoves(s.body) /\ Declared(s.body) \subseteq D
      BY <2>1, <2>2, <2>8, <3>1, <3>5, <3>6, RoundsFacts DEF N
    <3>8. Moves(N, D, J, head, r)
      BY <3>3, <3>5, <3>7, MovesOn
    <3>9. Moves(N, D, J, w, r)
      BY <3>3, <3>8, MovesOn
    <3>10. WalkStmt[s][w] = r
      BY <2>8, <3>2, <3>4, <3>6, WalkStmtAt
    <3> QED
      BY <3>9, <3>10
  <2>9. CASE s.k = "do"
    <3>1. s.body \in Inner(s)
      BY <2>9, PartsAre
    <3>2. PICK r : r = WalkDo(WalkStmt, w, s)
      OBVIOUS
    <3>3. Moves(N, Declared(s.body), {}, w, r) /\ Declared(s.body) \subseteq D
      BY <2>1, <2>2, <2>9, <3>1, <3>2, DoFacts DEF N
    <3>4. Moves(N, D, J, w, r)
      BY <3>3, MovesMore
    <3> QED
      BY <2>9, <3>2, <3>4, WalkStmtAt
  <2>10. CASE s.k = "switch"
    <3>1. s.tag \in Inner(s) /\ \A i \in DOMAIN s.arms : s.arms[i].body \in Inner(s)
      BY <2>10, ArmsAre
    <3>2. PICK tag : tag = WalkExpr[s.tag][w]
      OBVIOUS
    <3>3. Moves(N, D, J, w, tag) /\ tag \in Walks
      BY <2>3, <3>1, <3>2 DEF Moves
    <3>4. PICK r : r = WalkSwitch(WalkStmt, tag, s)
      OBVIOUS
    <3>5. Moves(N, ArmsDeclare(s), ArmsJump(s) \ {"break"}, tag, r)
      BY <2>1, <2>10, <3>3, <3>4, SwitchFacts DEF SwitchFits, N
    <3>6. ArmsDeclare(s) \subseteq D
      BY <2>2, <3>1 DEF ArmsDeclare
    <3>7. \A p \in Inner(s) : JumpsOut[p] \ {"break"} \subseteq J
      BY <2>10, JumpsOutAre DEF J
    <3>8. ArmsJump(s) \ {"break"} \subseteq J
      BY <3>1, <3>7 DEF ArmsJump
    <3>9. Moves(N, D, J, w, r)
      BY <3>3, <3>5, <3>6, <3>8, MovesOn
    <3> QED
      BY <2>10, <3>2, <3>4, <3>9, WalkStmtAt
  <2>11. CASE s.k \in {"break", "continue"}
    <3>1. PICK u : u = WalkStmt[s][w]
      OBVIOUS
    <3>2. u = IF s.k = "break" THEN BreakTo(w) ELSE ContinueTo(w)
      BY <2>11, <3>1, WalkStmtAt
    <3>3. Moves({}, {}, {s.k}, w, u)
      BY <2>11, <3>2, MovesJump
    <3>4. {s.k} \subseteq J
      BY <2>11, JumpsOutAre DEF J
    <3>5. Moves(N, D, J, w, u)
      BY <3>3, <3>4, MovesMore
    <3> QED
      BY <3>1, <3>5
  <2>12. CASE s.k = "return"
    <3>1. PICK u : u = WalkExpr[s.x][w]
      OBVIOUS
    <3>2. Moves(N, D, J, w, u) /\ Reaches(N, D, w, Dead)
      BY <2>3, <2>12, <3>1, PartsAre, DeadReached
    <3>3. Moves(N, D, J, w, At(u, Dead))
      BY <3>2, MovesAt
    <3> QED
      BY <2>12, <3>1, <3>3, WalkStmtAt
  <2>13. CASE s.k \notin {"block", "decl", "expr", "if", "while", "do", "for", "switch", "break",
                         "continue", "return"}
    BY <2>13, WalkStmtAt, MovesSame
  <2> QED
    BY <2>4, <2>5, <2>6, <2>7, <2>8, <2>9, <2>10, <2>11, <2>12, <2>13
<1> HIDE DEF T
<1>2. Nodes \subseteq T
  BY <1>1, NodeInduction
<1> QED
  BY <1>2 DEF T

LEMMA WalkStmtFacts ==
  ASSUME NEW s \in Nodes, NEW w \in Walks
  PROVE  /\ Moves(Named(s), Declared(s), JumpsOut[s], w, WalkStmt[s][w])
         /\ WalkStmt[s][w] \in Walks /\ WalkStmt[s][w].tracked = w.tracked
         /\ w.reported => WalkStmt[s][w].reported
  BY WalkStmtMoves DEF StmtMoves, Moves

-----------------------------------------------------------------------------
(* A statement that terminates is not run through: no flow state is live   *)
(* after it.                                                               *)

LEMMA TerminatesAt ==
  ASSUME NEW s \in Nodes, Terminates[s]
  PROVE  /\ s.k \in {"return", "break", "continue", "block", "if", "while", "for", "do", "switch"}
         /\ s.k = "block" => TerminatesList(Terminates, s.stmts)
         /\ s.k = "if" => s.els # Absent /\ Terminates[s.then] /\ Terminates[s.els]
         /\ s.k \in {"while", "for"} => AlwaysTrue(s.c) /\ "break" \notin JumpsOut[s.body]
         /\ s.k = "do" => DoTerminates(Terminates, s)
         /\ s.k = "switch" => SwitchTerminates(Terminates, s)
<1>1. TerminatesBy(Terminates, s)
  BY TerminatesIs
<1> QED
  BY <1>1 DEF TerminatesBy

LEMMA TerminatesDead ==
  \A s \in Nodes : Terminates[s] => \A w \in Walks : ~WalkStmt[s][w].flow.live
<1> DEFINE T == {s \in Nodes : Terminates[s] => \A w \in Walks : ~WalkStmt[s][w].flow.live}
<1>1. ASSUME NEW s \in Nodes, Inner(s) \subseteq T PROVE s \in T
  <2> SUFFICES ASSUME Terminates[s], NEW w \in Walks PROVE ~WalkStmt[s][w].flow.live
    OBVIOUS
  <2>1. \A p \in Inner(s) : Terminates[p] => \A u \in Walks : ~WalkStmt[p][u].flow.live
    BY <1>1
  <2>2. \A p \in Inner(s) : p \in Nodes /\ StmtMoves(p)
    BY NodeFacts, WalkStmtMoves
  <2> HIDE DEF T
  <2>3. CASE s.k \in {"break", "continue"}
    <3>1. PICK u : u = WalkStmt[s][w]
      OBVIOUS
    <3>2. u = IF s.k = "break" THEN BreakTo(w) ELSE ContinueTo(w)
      BY <2>3, <3>1, WalkStmtAt
    <3>3. u.flow = Dead
      BY <2>3, <3>2, MovesJump
    <3> QED
      BY <3>1, <3>3 DEF Dead
  <2>4. CASE s.k = "return"
    <3>1. PICK u : u = WalkExpr[s.x][w]
      OBVIOUS
    <3>2. u \in Walks
      BY <2>4, <3>1, PartsAre, PartMoves
    <3>4. At(u, Dead).flow = Dead
      BY <3>2 DEF At, Walks
    <3> QED
      BY <2>4, <3>1, <3>4, WalkStmtAt DEF Dead
  <2>5. CASE s.k = "block"
    <3>1. PICK at : /\ WalkStmt[s][w] = at[Len(s.stmts)]
                    /\ \A j \in 1..Len(s.stmts) : at[j] = WalkStmt[s.stmts[j]][at[j - 1]]
                    /\ \A j \in 0..Len(s.stmts) : at[j] \in Walks
                    /\ \A i, m \in 0..Len(s.stmts) : i <= m =>
                         Moves(UNION {Named(s.stmts[j]) : j \in (i + 1)..m}, Declared(s), JumpsOut[s], at[i], at[m])
      BY <2>2, <2>5, ListFacts
    <3>2. Len(s.stmts) \in Nat /\ DOMAIN s.stmts = 1..Len(s.stmts)
          /\ \A j \in 1..Len(s.stmts) : s.stmts[j] \in Inner(s)
      BY <2>5, PartsAre
    <3>3. PICK i \in 1..Len(s.stmts) : Terminates[s.stmts[i]]
      BY <2>5, <3>2, TerminatesAt DEF TerminatesList
    <3>4. i - 1 \in 0..Len(s.stmts) /\ i \in 0..Len(s.stmts) /\ Len(s.stmts) \in 0..Len(s.stmts)
          /\ i <= Len(s.stmts)
      BY <3>2
    <3>5. ~at[i].flow.live
      BY <2>1, <3>1, <3>2, <3>3, <3>4
    <3> DEFINE M == UNION {Named(s.stmts[j]) : j \in (i + 1)..Len(s.stmts)}
    <3>6. Moves(M, Declared(s), JumpsOut[s], at[i], at[Len(s.stmts)])
      BY <3>1, <3>4
    <3> HIDE DEF M
    <3> QED
      BY <3>1, <3>5, <3>6 DEF Moves, Reaches
  <2>6. CASE s.k = "if"
    <3>1. PICK c : c = WalkExpr[s.c][w]
      OBVIOUS
    <3>2. s.c \in Inner(s) /\ s.then \in Inner(s) /\ s.els \in Inner(s)
      BY <2>6, PartsAre
    <3>3. c \in Walks
      BY <3>1, <3>2, PartMoves
    <3> DEFINE N == Named(s)
               D == Declared(s)
               J == JumpsOut[s]
    <3>4. ASSUME NEW p \in Inner(s), NEW u \in Walks PROVE Moves(N, D, J, u, WalkStmt[p][u])
      <4>1. Moves(Named(p), Declared(p), JumpsOut[p], u, WalkStmt[p][u])
        BY <2>2 DEF StmtMoves
      <4>2. Named(p) \subseteq N /\ Declared(p) \subseteq D /\ JumpsOut[p] \subseteq J
        BY <2>6, NamesInside, JumpsOutAre
      <4> HIDE DEF N, D, J
      <4> QED
        BY <4>1, <4>2, MovesMore
    <3> HIDE DEF N, D, J
    <3>5. \A u \in Walks : Moves(N, D, J, u, WalkStmt[s.then][u]) /\ Moves(N, D, J, u, WalkStmt[s.els][u])
      BY <3>2, <3>4
    <3>6. PICK r : r = WalkArms(WalkStmt, c, s.then, s.els)
      OBVIOUS
    <3>7. PICK then, els : ArmsFit(WalkStmt, N, D, J, c, s.then, s.els, r, then, els)
      BY <3>3, <3>5, <3>6, ArmsMove
    <3>8. ~then.flow.live /\ ~els.flow.live
      BY <2>1, <2>6, <3>2, <3>3, <3>7, TerminatesAt DEF ArmsFit
    <3> QED
      BY <2>6, <3>1, <3>6, <3>7, <3>8, WalkStmtAt DEF ArmsFit
  <2>7. CASE s.k \in {"while", "for"}
    <3>1. s.c \in Inner(s) /\ s.body \in Inner(s) /\ (s.k = "for" => s.init \in Inner(s))
      BY <2>7, PartsAre
    <3>2. PICK head : head = IF s.k = "for" THEN WalkStmt[s.init][w] ELSE w
      OBVIOUS
    <3>3. head \in Walks
      BY <2>2, <3>1, <3>2, WalkStmtFacts
    <3>4. PICK c : c = WalkExpr[s.c][head]
      OBVIOUS
    <3>5. c \in Walks
      BY <3>1, <3>3, <3>4, PartMoves
    <3>6. PICK r : r = WalkRounds(WalkStmt, c, s)
      OBVIOUS
    <3>7. ~r.flow.live
      BY <2>2, <2>7, <3>1, <3>5, <3>6, RoundsFacts, TerminatesAt
    <3> QED
      BY <2>7, <3>2, <3>4, <3>6, <3>7, WalkStmtAt
  <2>8. CASE s.k = "do"
    <3>1. s.body \in Inner(s) /\ IsLoop(s)
      BY <2>8, PartsAre DEF IsLoop
    <3>2. PICK r : r = WalkDo(WalkStmt, w, s)
      OBVIOUS
    <3>3. PICK b : b = RoundBody(w, s)
      OBVIOUS
    <3>4. DoTerminates(Terminates, s)
      BY <2>8, TerminatesAt
    <3>5. CASE AlwaysTrue(s.c)
      <4>1. "break" \notin JumpsOut[s.body]
        BY <3>4 DEF DoTerminates
      <4>2. ~r.flow.live
        BY <2>2, <2>8, <3>1, <3>2, <3>5, <4>1, DoFacts
      <4> QED
        BY <2>8, <3>2, <4>2, WalkStmtAt
    <3>6. CASE ~AlwaysTrue(s.c)
      <4>1. Terminates[s.body] /\ "continue" \notin JumpsOut[s.body]
        BY <3>4, <3>6 DEF DoTerminates
      <4>2. /\ Push(w, TRUE) \in Walks
            /\ BodyEnd(b).live => \E f \in Top(b).continues \cup {b.flow} : f.live
            /\ "continue" \notin JumpsOut[s.body] => Top(b).continues = {}
        BY <2>2, <3>1, <3>3, BodyFacts
      <4>3. ~b.flow.live
        BY <2>1, <3>1, <3>3, <4>1, <4>2 DEF RoundBody
      <4>4. ~BodyEnd(b).live
        BY <4>1, <4>2, <4>3
      <4>5. ~r.flow.live
        BY <2>2, <2>8, <3>1, <3>2, <3>3, <3>4, <4>4, DoFacts
      <4> QED
        BY <2>8, <3>2, <4>5, WalkStmtAt
    <3> QED
      BY <3>5, <3>6
  <2>9. CASE s.k = "switch"
    <3>1. s.tag \in Inner(s) /\ Len(s.arms) \in Nat /\ DOMAIN s.arms = 1..Len(s.arms)
          /\ \A i \in DOMAIN s.arms : s.arms[i].body \in Inner(s)
      BY <2>9, ArmsAre
    <3>2. PICK tag : tag = WalkExpr[s.tag][w]
      OBVIOUS
    <3>3. tag \in Walks
      BY <3>1, <3>2, PartMoves
    <3>4. PICK r : r = WalkSwitch(WalkStmt, tag, s)
      OBVIOUS
    <3>5. PICK starts, all : SwitchFits(s, tag, starts, all, r)
      BY <2>2, <2>9, <3>3, <3>4, SwitchFacts
    <3>6. SwitchTerminates(Terminates, s)
      BY <2>9, TerminatesAt
    <3>7. "break" \notin ArmsJump(s)
      BY <3>6 DEF SwitchTerminates, ArmsJump
    <3>8. Top(all).breaks = {}
      BY <3>5, <3>7 DEF SwitchFits, Popped
    <3>9. ASSUME NEW i \in DOMAIN s.arms, ~Empty(s.arms[i])
          PROVE  ~WalkStmt[s.arms[i].body][starts[i - 1]].flow.live
      <4>1. Terminates[s.arms[i].body]
        BY <3>6, <3>9 DEF SwitchTerminates
      <4>2. starts[i - 1] \in Walks
        BY <3>5 DEF SwitchFits, ArmFits
      <4> QED
        BY <2>1, <3>1, <4>1, <4>2
    <3>10. HasDefault(s)
      BY <3>6 DEF SwitchTerminates
    <3>11. ~r.flow.live
      BY <3>5, <3>8, <3>9, <3>10 DEF SwitchFits
    <3> QED
      BY <2>9, <3>2, <3>4, <3>11, WalkStmtAt
  <2> QED
    BY <2>3, <2>4, <2>5, <2>6, <2>7, <2>8, <2>9, TerminatesAt
<1> HIDE DEF T
<1>2. Nodes \subseteq T
  BY <1>1, NodeInduction
<1> QED
  BY <1>2 DEF T

(* Out of a body whose jumps are bound none leads. *)
LEMMA BoundJumps ==
  \A s \in Nodes : \A around \in SUBSET {"loop", "switch"} : JumpsBound[s][around] =>
     /\ around = {} => JumpsOut[s] = {}
     /\ "loop" \notin around => "continue" \notin JumpsOut[s]
<1> DEFINE Ok(s) == \A around \in SUBSET {"loop", "switch"} : JumpsBound[s][around] =>
                      /\ around = {} => JumpsOut[s] = {}
                      /\ "loop" \notin around => "continue" \notin JumpsOut[s]
           T == {s \in Nodes : Ok(s)}
<1>1. ASSUME NEW s \in Nodes, Inner(s) \subseteq T PROVE s \in T
  <2> SUFFICES ASSUME NEW around \in SUBSET {"loop", "switch"}, JumpsBound[s][around]
               PROVE  /\ around = {} => JumpsOut[s] = {}
                      /\ "loop" \notin around => "continue" \notin JumpsOut[s]
    OBVIOUS
  <2> DEFINE within == around \cup (IF IsLoop(s) THEN {"loop"} ELSE {})
                              \cup (IF s.k = "switch" THEN {"switch"} ELSE {})
  <2>1. JumpsBound[s] = JumpsBoundBy(JumpsBound, s)
    BY JumpsBoundIs
  <2>2. /\ s.k = "break" => around # {}
        /\ s.k = "continue" => "loop" \in around
        /\ \A p \in Inner(s) : JumpsBound[p][within]
    BY <2>1 DEF JumpsBoundBy, Inner
  <2>3. within \in SUBSET {"loop", "switch"}
    OBVIOUS
  <2>4. \A p \in Inner(s) : /\ within = {} => JumpsOut[p] = {}
                            /\ "loop" \notin within => "continue" \notin JumpsOut[p]
    <3> HIDE DEF within
    <3> QED
      BY <1>1, <2>2, <2>3
  <2>5. ASSUME "loop" \notin around, "continue" \in JumpsOut[s] PROVE FALSE
    <3>1. s.k # "continue" /\ s.k \in {"block", "if", "switch"}
      BY <2>2, <2>5, JumpsOutAre
    <3>2. "loop" \notin within
      BY <2>5, <3>1 DEF IsLoop
    <3> QED
      BY <2>4, <2>5, <3>1, <3>2, JumpsOutAre
  <2>6. ASSUME around = {}, "break" \in JumpsOut[s] PROVE FALSE
    <3>1. s.k # "break" /\ s.k \in {"block", "if"}
      BY <2>2, <2>6, JumpsOutAre
    <3>2. within = {}
      BY <2>6, <3>1 DEF IsLoop
    <3> QED
      BY <2>4, <2>6, <3>1, <3>2, JumpsOutAre
  <2> QED
    BY <2>5, <2>6, JumpsOutAre
<1> HIDE DEF T
<1>2. Nodes \subseteq T
  BY <1>1, NodeInduction
<1> QED
  BY <1>2 DEF T

-----------------------------------------------------------------------------
(* What is left to do, matched with the walks                              *)
(*                                                                         *)
(* Between two items stands a context: the function being run, the flow    *)
(* state its walk had there, the flow states that a break and a continue   *)
(* lead to, the names the callers count on, and whether the value on top   *)
(* of the stack is known not to be zero.                                   *)

Contexts(p) == [fn : FunctionsOf(p), flow : Flows, to : [{"break", "continue"} -> Flows],
                kept : SUBSET Names, sure : BOOLEAN]

Right(p, c) ==
  /\ c \in Contexts(p)
  /\ c.flow.live => c.flow.assigned \subseteq Tracked(c.fn.body)
  /\ \A v \in c.kept : \E g \in FunctionsOf(p) : v \in Locals(g) /\ Rank(c.fn.body) < Rank(g.body)

Carries(fn, w) ==
  /\ w \in Walks /\ w.tracked = Tracked(fn.body)
  /\ w.flow.live => w.flow.assigned \subseteq Tracked(fn.body)

Along(a, b) == a.fn = b.fn /\ a.kept = b.kept /\ a.to = b.to
Eases(a, b) == Along(a, b) /\ Weaker(b.flow, a.flow)

(* Nothing that D declares has been assigned. *)
Clear(flow, D) == flow.live => flow.assigned \cap D = {}

(* The jumps collected so far find what they need where they lead to. *)
Landed(u, J, to) ==
  /\ "break" \in J => u.jumps # <<>> /\ \A f \in Top(u).breaks : Weaker(to["break"], f)
  /\ "continue" \in J =>
       /\ LoopOf(u.jumps) # {}
       /\ \A i \in LoopOf(u.jumps) : \A f \in u.jumps[i].continues : Weaker(to["continue"], f)

Literal(x) == x.k \in {"bool", "lit"} /\ x.n # 0

FitsExpr(x, a, b) ==
  /\ Along(a, b) /\ x \in Inside[a.fn.body]
  /\ b.sure => Literal(x)
  /\ \E w : /\ Carries(a.fn, w) /\ w.flow = a.flow
            /\ ~WalkExpr[x][w].reported /\ Weaker(b.flow, WalkExpr[x][w].flow)

FitsStmt(s, a, b) ==
  /\ Along(a, b) /\ s \in Inside[a.fn.body] /\ ~b.sure
  /\ Clear(a.flow, Declared(s))
  /\ \E w : /\ Carries(a.fn, w) /\ w.flow = a.flow
            /\ ~WalkStmt[s][w].reported /\ Weaker(b.flow, WalkStmt[s][w].flow)
            /\ Landed(WalkStmt[s][w], JumpsOut[s], a.to)

Rounds(s, w) ==
  IF s.k = "do" THEN WalkDo(WalkStmt, w, s) ELSE WalkRounds(WalkStmt, WalkExpr[s.c][w], s)

(* The rounds of s that the walk w heads. *)
FitsLoop(s, w, a, b) ==
  /\ Along(a, b) /\ s \in Inside[a.fn.body] /\ IsLoop(s) /\ ~b.sure
  /\ Carries(a.fn, w) /\ Clear(w.flow, Declared(s.body))
  /\ ~Rounds(s, w).reported /\ Weaker(b.flow, Rounds(s, w).flow)
  /\ b.flow = a.to["break"]

FitsAgain(s, a, b) == \E w : FitsLoop(s, w, a, b) /\ Weaker(w.flow, a.flow)

Tested(s, w) == IF s.k = "do" THEN DoTested(w, s) ELSE WalkExpr[s.c][w]

FitsShort(x, a, b) ==
  /\ Weaker(b.flow, a.flow)
  /\ \E w : Carries(a.fn, w) /\ w.flow = a.flow /\ ~WalkExpr[x.y][w].reported

FitsCond(x, a, b) ==
  \E w, r : /\ Carries(a.fn, w) /\ w.flow = a.flow
            /\ r = WalkArms(WalkExpr, w, x.x, x.y)
            /\ ~r.reported /\ Weaker(b.flow, r.flow)

FitsIf(s, a, b) ==
  /\ Clear(a.flow, Declared(s.then)) /\ Clear(a.flow, Declared(s.els))
  /\ \E w, r : /\ Carries(a.fn, w) /\ w.flow = a.flow
               /\ r = WalkArms(WalkStmt, w, s.then, s.els)
               /\ ~r.reported /\ Weaker(b.flow, r.flow)
               /\ Landed(r, JumpsOut[s], a.to)

FitsTest(x, a, b) ==
  /\ Along(a, b) /\ x \in Inside[a.fn.body] /\ ~b.sure
  /\ \/ x.k = "not" /\ Weaker(b.flow, a.flow)
     \/ x.k \in {"and", "or"} /\ FitsShort(x, a, b)
     \/ x.k = "cond" /\ FitsCond(x, a, b)
     \/ x.k = "if" /\ FitsIf(x, a, b)
     \/ /\ IsLoop(x)
        /\ AlwaysTrue(x.c) => a.sure
        /\ \E w : FitsLoop(x, w, a, b) /\ Weaker(Tested(x, w).flow, a.flow)

FitsSelect(s, a, b) ==
  /\ Along(a, b) /\ s \in Inside[a.fn.body] /\ ~b.sure
  /\ s.k = "switch" /\ b.flow = a.to["break"]
  /\ Clear(a.flow, ArmsDeclare(s))
  /\ \E w, r : /\ Carries(a.fn, w) /\ w.flow = a.flow
               /\ r = WalkSwitch(WalkStmt, w, s)
               /\ ~r.reported /\ Weaker(b.flow, r.flow)
               /\ Landed(r, JumpsOut[s], a.to)

FitsMark(name, a, b) ==
  /\ ~b.sure
  /\ IF name = "return"
     THEN /\ b.flow.live /\ a.kept = b.kept \cup b.flow.assigned \cup b.fn.param
          /\ a.to["break"] = Dead /\ a.to["continue"] = Dead
     ELSE /\ name \in {"break", "continue"}
          /\ a.fn = b.fn /\ a.kept = b.kept /\ a.to = [b.to EXCEPT ![name] = b.flow]
          /\ Weaker(b.flow, a.flow)

FitsLeave(name, a, b) ==
  /\ Along(a, b) /\ name \in {"break", "continue", "return"}
  /\ name # "return" => Weaker(a.to[name], a.flow)

FitsStore(v, a, b) ==
  /\ Along(a, b) /\ ~b.sure
  /\ a.flow.live => b.flow.live /\ b.flow.assigned \subseteq a.flow.assigned \cup {v}

FitsLoad(v, a, b) ==
  /\ Eases(a, b) /\ ~b.sure /\ v \in Locals(a.fn)
  /\ a.flow.live /\ v \in Tracked(a.fn.body) => v \in a.flow.assigned

FitsDeclare(s, a, b) ==
  /\ Along(a, b) /\ ~b.sure /\ s \in Inside[a.fn.body] /\ s.k = "decl"
  /\ a.flow.live => b.flow.live /\ b.flow.assigned \subseteq a.flow.assigned \ {s.v}

FitsCall(p, fn, a, b) ==
  /\ Eases(a, b) /\ ~b.sure
  /\ fn \in FunctionsOf(p) /\ Rank(fn.body) < Rank(a.fn.body)

Fits(p, item, a, b) ==
  CASE item.do = "expr"    -> FitsExpr(item.x, a, b)
    [] item.do = "stmt"    -> FitsStmt(item.s, a, b)
    [] item.do = "again"   -> FitsAgain(item.s, a, b)
    [] item.do = "test"    -> FitsTest(item.x, a, b)
    [] item.do = "select"  -> FitsSelect(item.s, a, b)
    [] item.do = "mark"    -> item = Mark(item.at) /\ FitsMark(item.at, a, b)
    [] item.do = "leave"   -> FitsLeave(item.to, a, b)
    [] item.do = "load"    -> FitsLoad(item.v, a, b)
    [] item.do = "store"   -> FitsStore(item.v, a, b)
    [] item.do = "declare" -> FitsDeclare(item.s, a, b)
    [] item.do = "call"    -> FitsCall(p, item.fn, a, b)
    [] item.do = "fallOff" -> Eases(a, b) /\ ~b.sure /\ (item.owed => ~a.flow.live)
    [] item.do = "number"  -> Eases(a, b) /\ (b.sure => item.n # 0)
    [] item.do \in {"drop", "differ", "truth", "ask", "tell"} -> Eases(a, b) /\ ~b.sure
    [] OTHER -> FALSE

IsSequence(s) == \E T : s \in Seq(T)

Fitting(p, items, ctx) ==
  /\ IsSequence(items)
  /\ ctx \in Seq(Contexts(p)) /\ Len(ctx) = Len(items) + 1
  /\ \A i \in 1..(Len(items) + 1) : Right(p, ctx[i])
  /\ \A i \in 1..Len(items) : Fits(p, items[i], ctx[i], ctx[i + 1])

(* Of each kind of item. *)
LEMMA FitsAre ==
  ASSUME NEW p, NEW a, NEW b
  PROVE  /\ \A x : Fits(p, E(x), a, b) <=> FitsExpr(x, a, b)
         /\ \A s : Fits(p, S(s), a, b) <=> FitsStmt(s, a, b)
         /\ \A s : Fits(p, Again(s), a, b) <=> FitsAgain(s, a, b)
         /\ \A x : Fits(p, Test(x), a, b) <=> FitsTest(x, a, b)
         /\ \A n : Fits(p, Number(n), a, b) <=> Eases(a, b) /\ (b.sure => n # 0)
         /\ \A name : Fits(p, Mark(name), a, b) <=> FitsMark(name, a, b)
         /\ \A name \in {"drop", "differ", "truth", "tell"} :
              Fits(p, Step(name), a, b) <=> Eases(a, b) /\ ~b.sure
<1>1. \A x : Fits(p, E(x), a, b) <=> FitsExpr(x, a, b)
  BY DEF Fits, E
<1>2. \A s : Fits(p, S(s), a, b) <=> FitsStmt(s, a, b)
  BY DEF Fits, S
<1>3. \A s : Fits(p, Again(s), a, b) <=> FitsAgain(s, a, b)
  BY DEF Fits, Again
<1>4. \A x : Fits(p, Test(x), a, b) <=> FitsTest(x, a, b)
  BY DEF Fits, Test
<1>5. \A n : Fits(p, Number(n), a, b) <=> Eases(a, b) /\ (b.sure => n # 0)
  BY DEF Fits, Number
<1>6. \A name : Fits(p, Mark(name), a, b) <=> FitsMark(name, a, b)
  BY DEF Fits, Mark
<1>7. \A name \in {"drop", "differ", "truth", "tell"} :
        Fits(p, Step(name), a, b) <=> Eases(a, b) /\ ~b.sure
  BY DEF Fits, Step
<1> QED
  BY <1>1, <1>2, <1>3, <1>4, <1>5, <1>6, <1>7

LEMMA FitsRecords ==
  ASSUME NEW p, NEW a, NEW b
  PROVE  /\ \A v : Fits(p, [do |-> "load", v |-> v], a, b) <=> FitsLoad(v, a, b)
         /\ \A v : Fits(p, [do |-> "store", v |-> v], a, b) <=> FitsStore(v, a, b)
         /\ \A n : Fits(p, [do |-> "ask", n |-> n], a, b) <=> Eases(a, b) /\ ~b.sure
         /\ \A fn : Fits(p, [do |-> "call", fn |-> fn], a, b) <=> FitsCall(p, fn, a, b)
         /\ \A s : Fits(p, [do |-> "declare", s |-> s], a, b) <=> FitsDeclare(s, a, b)
         /\ \A s : Fits(p, [do |-> "select", s |-> s], a, b) <=> FitsSelect(s, a, b)
         /\ \A name : Fits(p, [do |-> "leave", to |-> name], a, b) <=> FitsLeave(name, a, b)
         /\ \A owed : Fits(p, [do |-> "fallOff", owed |-> owed], a, b)
                        <=> Eases(a, b) /\ ~b.sure /\ (owed => ~a.flow.live)
<1>1. \A v : Fits(p, [do |-> "load", v |-> v], a, b) <=> FitsLoad(v, a, b)
  BY DEF Fits
<1>2. \A v : Fits(p, [do |-> "store", v |-> v], a, b) <=> FitsStore(v, a, b)
  BY DEF Fits
<1>3. \A n : Fits(p, [do |-> "ask", n |-> n], a, b) <=> Eases(a, b) /\ ~b.sure
  BY DEF Fits
<1>4. \A fn : Fits(p, [do |-> "call", fn |-> fn], a, b) <=> FitsCall(p, fn, a, b)
  BY DEF Fits
<1>5. \A s : Fits(p, [do |-> "declare", s |-> s], a, b) <=> FitsDeclare(s, a, b)
  BY DEF Fits
<1>6. \A s : Fits(p, [do |-> "select", s |-> s], a, b) <=> FitsSelect(s, a, b)
  BY DEF Fits
<1>7. \A name : Fits(p, [do |-> "leave", to |-> name], a, b) <=> FitsLeave(name, a, b)
  BY DEF Fits
<1>8. \A owed : Fits(p, [do |-> "fallOff", owed |-> owed], a, b)
                  <=> Eases(a, b) /\ ~b.sure /\ (owed => ~a.flow.live)
  BY DEF Fits
<1> QED
  BY <1>1, <1>2, <1>3, <1>4, <1>5, <1>6, <1>7, <1>8

-----------------------------------------------------------------------------
(* Sequences *)

LEMMA SequenceIs ==
  ASSUME NEW s, IsSequence(s)
  PROVE  Len(s) \in Nat /\ DOMAIN s = 1..Len(s) /\ (s = <<>> <=> Len(s) = 0)
  BY DEF IsSequence

LEMMA Joined ==
  ASSUME NEW s, NEW t, IsSequence(s), IsSequence(t)
  PROVE  /\ IsSequence(s \o t) /\ Len(s \o t) = Len(s) + Len(t)
         /\ \A i \in 1..Len(s) : (s \o t)[i] = s[i]
         /\ \A i \in 1..Len(t) : (s \o t)[Len(s) + i] = t[i]
<1>1. PICK A : s \in Seq(A)
  BY DEF IsSequence
<1>2. PICK B : t \in Seq(B)
  BY DEF IsSequence
<1>3. s \in Seq(A \cup B) /\ t \in Seq(A \cup B)
  BY <1>1, <1>2
<1> QED
  BY <1>3 DEF IsSequence

LEMMA Rest ==
  ASSUME NEW s, IsSequence(s), NEW k \in Nat, k <= Len(s)
  PROVE  /\ IsSequence(SubSeq(s, k + 1, Len(s))) /\ Len(SubSeq(s, k + 1, Len(s))) = Len(s) - k
         /\ \A i \in 1..(Len(s) - k) : SubSeq(s, k + 1, Len(s))[i] = s[i + k]
<1>1. PICK A : s \in Seq(A)
  BY DEF IsSequence
<1>2. Len(s) \in Nat /\ k + 1 \in Nat
  BY <1>1
<1>3. SubSeq(s, k + 1, Len(s)) \in Seq(A) /\ Len(SubSeq(s, k + 1, Len(s))) = Len(s) - k
      /\ \A i \in 1..(Len(s) - k) : SubSeq(s, k + 1, Len(s))[i] = s[i + k]
  BY <1>1, <1>2
<1> QED
  BY <1>3 DEF IsSequence

LEMMA TailIs ==
  ASSUME NEW s, IsSequence(s), s # <<>>
  PROVE  /\ IsSequence(Tail(s)) /\ Len(Tail(s)) = Len(s) - 1 /\ Len(s) >= 1
         /\ \A i \in 1..(Len(s) - 1) : Tail(s)[i] = s[i + 1]
<1>1. PICK A : s \in Seq(A)
  BY DEF IsSequence
<1> QED
  BY <1>1 DEF IsSequence

LEMMA Tuples ==
  /\ IsSequence(<<>>)
  /\ \A a : IsSequence(<<a>>)
  /\ \A a, b : IsSequence(<<a, b>>)
  /\ \A a, b, c : IsSequence(<<a, b, c>>)
  /\ \A a, b, c, d : IsSequence(<<a, b, c, d>>)
  /\ \A a, b, c, d, e : IsSequence(<<a, b, c, d, e>>)
<1>1. \A a : <<a>> \in Seq({a})
  OBVIOUS
<1>2. \A a, b : <<a, b>> \in Seq({a, b})
  OBVIOUS
<1>3. \A a, b, c : <<a, b, c>> \in Seq({a, b, c})
  OBVIOUS
<1>4. \A a, b, c, d : <<a, b, c, d>> \in Seq({a, b, c, d})
  OBVIOUS
<1>5. \A a, b, c, d, e : <<a, b, c, d, e>> \in Seq({a, b, c, d, e})
  OBVIOUS
<1>6. <<>> \in Seq({})
  OBVIOUS
<1> QED
  BY <1>1, <1>2, <1>3, <1>4, <1>5, <1>6 DEF IsSequence

-----------------------------------------------------------------------------
(* Steps put in the place of the item on top *)

Chained(p, steps, cs, last) ==
  /\ IsSequence(steps) /\ cs \in Seq(Contexts(p)) /\ Len(cs) = Len(steps)
  /\ \A i \in 1..Len(steps) :
       /\ Right(p, cs[i])
       /\ Fits(p, steps[i], cs[i], IF i = Len(steps) THEN last ELSE cs[i + 1])

Pushed(p, steps, items, cs, last, c2) ==
  /\ Fitting(p, steps \o Tail(items), c2)
  /\ c2[1] = IF steps = <<>> THEN last ELSE cs[1]

LEMMA Pushing ==
  ASSUME NEW p, NEW items, NEW ctx, Fitting(p, items, ctx), items # <<>>,
         NEW steps, NEW cs, Chained(p, steps, cs, ctx[2])
  PROVE  \E c2 : Pushed(p, steps, items, cs, ctx[2], c2)
<1> DEFINE n == Len(items)
           m == Len(steps)
           items2 == steps \o Tail(items)
           c2 == cs \o Tail(ctx)
<1>1. IsSequence(items) /\ IsSequence(ctx) /\ Len(ctx) = n + 1 /\ n \in Nat /\ n >= 1
  BY TailIs, SequenceIs DEF Fitting, IsSequence
<1>2. IsSequence(steps) /\ IsSequence(cs) /\ Len(cs) = m /\ m \in Nat
  BY SequenceIs DEF Chained, IsSequence
<1>3. IsSequence(Tail(items)) /\ Len(Tail(items)) = n - 1
      /\ \A i \in 1..(n - 1) : Tail(items)[i] = items[i + 1]
  BY <1>1, TailIs
<1>4. ctx # <<>>
  BY <1>1
<1>5. IsSequence(Tail(ctx)) /\ Len(Tail(ctx)) = n /\ \A i \in 1..n : Tail(ctx)[i] = ctx[i + 1]
  BY <1>1, <1>4, TailIs
<1>6. /\ IsSequence(items2) /\ Len(items2) = m + (n - 1)
      /\ \A i \in 1..m : items2[i] = steps[i]
      /\ \A i \in 1..(n - 1) : items2[m + i] = Tail(items)[i]
  BY <1>2, <1>3, Joined
<1>7. /\ Len(c2) = m + n
      /\ \A i \in 1..m : c2[i] = cs[i]
      /\ \A i \in 1..n : c2[m + i] = Tail(ctx)[i]
  BY <1>2, <1>5, Joined
<1>75. /\ \A i \in 1..n : c2[m + i] = ctx[i + 1]
       /\ \A i \in 1..(n - 1) : items2[m + i] = items[i + 1]
  <2> HIDE DEF c2, items2
  <2> QED
    BY <1>3, <1>5, <1>6, <1>7
<1>8. c2 \in Seq(Contexts(p))
  BY <1>1, <1>4 DEF Fitting, Chained
<1>9. \A i \in 1..(m + (n - 1) + 1) : Right(p, c2[i])
  <2> SUFFICES ASSUME NEW i \in 1..(m + (n - 1) + 1) PROVE Right(p, c2[i])
    OBVIOUS
  <2> HIDE DEF c2, items2
  <2>1. CASE i <= m
    BY <1>2, <1>7, <2>1 DEF Chained
  <2>2. CASE i > m
    <3>1. i - m \in 1..n /\ m + (i - m) = i /\ (i - m) + 1 \in 1..(n + 1)
      BY <1>1, <1>2, <2>2
    <3>2. c2[i] = ctx[(i - m) + 1]
      BY <1>5, <1>7, <3>1
    <3> QED
      BY <3>1, <3>2 DEF Fitting
  <2> QED
    BY <1>1, <1>2, <2>1, <2>2
<1>10. ASSUME NEW i \in 1..(m + (n - 1)) PROVE Fits(p, items2[i], c2[i], c2[i + 1])
  <2> HIDE DEF c2, items2
  <2>1. CASE i < m
    <3>1. i \in 1..m /\ i + 1 \in 1..m /\ i # m
      BY <1>1, <1>2, <2>1
    <3>2. Fits(p, steps[i], cs[i], cs[i + 1])
      BY <3>1 DEF Chained
    <3> QED
      BY <1>6, <1>7, <3>1, <3>2
  <2>2. CASE i = m
    <3>1. i \in 1..m /\ 1 \in 1..n /\ i + 1 = m + 1
      BY <1>1, <1>2, <2>2
    <3>2. Fits(p, steps[i], cs[i], ctx[2])
      BY <2>2, <3>1 DEF Chained
    <3>3. c2[i + 1] = ctx[2]
      <4>1. c2[m + 1] = ctx[1 + 1] /\ 1 + 1 = 2
        BY <1>75, <3>1
      <4> QED
        BY <3>1, <4>1
    <3> QED
      BY <1>6, <1>7, <3>1, <3>2, <3>3
  <2>3. CASE i > m
    <3>0. PICK j : j = i - m
      OBVIOUS
    <3>1. j \in 1..(n - 1) /\ j \in 1..n /\ j + 1 \in 1..n /\ m + j = i /\ m + (j + 1) = i + 1
      BY <1>1, <1>2, <2>3, <3>0
    <3>2. items2[i] = items[j + 1] /\ c2[i] = ctx[j + 1] /\ c2[i + 1] = ctx[(j + 1) + 1]
      BY <1>75, <3>1
    <3>3. Fits(p, items[j + 1], ctx[j + 1], ctx[(j + 1) + 1])
      BY <3>1 DEF Fitting
    <3> QED
      BY <3>2, <3>3
  <2> QED
    BY <1>1, <1>2, <2>1, <2>2, <2>3
<1>11. c2[1] = IF steps = <<>> THEN ctx[2] ELSE cs[1]
  <2> HIDE DEF c2, items2
  <2>1. CASE steps = <<>>
    <3>1. m = 0 /\ 1 \in 1..n /\ m + 1 = 1
      BY <1>1, <2>1
    <3> QED
      BY <1>5, <1>7, <2>1, <3>1
  <2>2. CASE steps # <<>>
    <3>1. 1 \in 1..m
      BY <1>2, <2>2, SequenceIs
    <3> QED
      BY <1>7, <2>2, <3>1
  <2> QED
    BY <2>1, <2>2
<1>12. Len(items2) + 1 = m + (n - 1) + 1 /\ Len(c2) = Len(items2) + 1
  BY <1>1, <1>2, <1>6, <1>7
<1> HIDE DEF c2, items2
<1>13. Fitting(p, items2, c2)
  BY <1>6, <1>8, <1>9, <1>10, <1>12 DEF Fitting
<1> QED
  BY <1>11, <1>13 DEF items2, Pushed


(* The steps of an item on top, between a and b, lead on. *)
Opens(c, a) == c.fn = a.fn /\ c.kept = a.kept /\ Weaker(c.flow, a.flow) /\ ~c.sure

Expands(p, steps, a, b) ==
  \E cs : Chained(p, steps, cs, b) /\ Opens(IF steps = <<>> THEN b ELSE cs[1], a)

LEMMA Expand0 ==
  ASSUME NEW p, NEW a, NEW b, Opens(b, a)
  PROVE  Expands(p, <<>>, a, b)
<1>1. Chained(p, <<>>, <<>>, b)
  BY Tuples DEF Chained
<1> QED
  BY <1>1 DEF Expands

LEMMA Expand1 ==
  ASSUME NEW p, NEW a, NEW b, NEW s1, NEW c1, Opens(c1, a), Right(p, c1), Fits(p, s1, c1, b)
  PROVE  Expands(p, <<s1>>, a, b)
<1>1. <<c1>> \in Seq(Contexts(p))
  BY DEF Right
<1>2. Chained(p, <<s1>>, <<c1>>, b)
  BY <1>1, Tuples DEF Chained
<1> QED
  BY <1>2 DEF Expands

LEMMA Expand2 ==
  ASSUME NEW p, NEW a, NEW b, NEW s1, NEW s2, NEW c1, NEW c2, Opens(c1, a),
         Right(p, c1), Right(p, c2), Fits(p, s1, c1, c2), Fits(p, s2, c2, b)
  PROVE  Expands(p, <<s1, s2>>, a, b)
<1> DEFINE cs == <<c1, c2>>
           ss == <<s1, s2>>
<1>1. cs \in Seq(Contexts(p)) /\ IsSequence(ss) /\ Len(cs) = 2 /\ Len(ss) = 2
  BY Tuples DEF Right
<1>2. ASSUME NEW i \in 1..2
      PROVE  Right(p, cs[i]) /\ Fits(p, ss[i], cs[i], IF i = 2 THEN b ELSE cs[i + 1])
  <2>1. CASE i = 1
    BY <2>1
  <2>2. CASE i = 2
    BY <2>2
  <2> QED
    BY <2>1, <2>2
<1>3. Chained(p, ss, cs, b)
  BY <1>1, <1>2 DEF Chained
<1> QED
  BY <1>3 DEF Expands

LEMMA Expand3 ==
  ASSUME NEW p, NEW a, NEW b, NEW s1, NEW s2, NEW s3, NEW c1, NEW c2, NEW c3, Opens(c1, a),
         Right(p, c1), Right(p, c2), Right(p, c3),
         Fits(p, s1, c1, c2), Fits(p, s2, c2, c3), Fits(p, s3, c3, b)
  PROVE  Expands(p, <<s1, s2, s3>>, a, b)
<1> DEFINE cs == <<c1, c2, c3>>
           ss == <<s1, s2, s3>>
<1>1. cs \in Seq(Contexts(p)) /\ IsSequence(ss) /\ Len(cs) = 3 /\ Len(ss) = 3
  BY Tuples DEF Right
<1>2. ASSUME NEW i \in 1..3
      PROVE  Right(p, cs[i]) /\ Fits(p, ss[i], cs[i], IF i = 3 THEN b ELSE cs[i + 1])
  <2>1. CASE i = 1
    BY <2>1
  <2>2. CASE i = 2
    BY <2>2
  <2>3. CASE i = 3
    BY <2>3
  <2> QED
    BY <2>1, <2>2, <2>3
<1>3. Chained(p, ss, cs, b)
  BY <1>1, <1>2 DEF Chained
<1> QED
  BY <1>3 DEF Expands

LEMMA Expand4 ==
  ASSUME NEW p, NEW a, NEW b, NEW s1, NEW s2, NEW s3, NEW s4, NEW c1, NEW c2, NEW c3, NEW c4,
         Opens(c1, a), Right(p, c1), Right(p, c2), Right(p, c3), Right(p, c4),
         Fits(p, s1, c1, c2), Fits(p, s2, c2, c3), Fits(p, s3, c3, c4), Fits(p, s4, c4, b)
  PROVE  Expands(p, <<s1, s2, s3, s4>>, a, b)
<1> DEFINE cs == <<c1, c2, c3, c4>>
           ss == <<s1, s2, s3, s4>>
<1>1. cs \in Seq(Contexts(p)) /\ IsSequence(ss) /\ Len(cs) = 4 /\ Len(ss) = 4
  BY Tuples DEF Right
<1>2. ASSUME NEW i \in 1..4
      PROVE  Right(p, cs[i]) /\ Fits(p, ss[i], cs[i], IF i = 4 THEN b ELSE cs[i + 1])
  <2>1. CASE i = 1
    BY <2>1
  <2>2. CASE i = 2
    BY <2>2
  <2>3. CASE i = 3
    BY <2>3
  <2>4. CASE i = 4
    BY <2>4
  <2> QED
    BY <2>1, <2>2, <2>3, <2>4
<1>3. Chained(p, ss, cs, b)
  BY <1>1, <1>2 DEF Chained
<1> QED
  BY <1>3 DEF Expands

LEMMA Expand5 ==
  ASSUME NEW p, NEW a, NEW b, NEW s1, NEW s2, NEW s3, NEW s4, NEW s5,
         NEW c1, NEW c2, NEW c3, NEW c4, NEW c5, Opens(c1, a),
         Right(p, c1), Right(p, c2), Right(p, c3), Right(p, c4), Right(p, c5),
         Fits(p, s1, c1, c2), Fits(p, s2, c2, c3), Fits(p, s3, c3, c4), Fits(p, s4, c4, c5),
         Fits(p, s5, c5, b)
  PROVE  Expands(p, <<s1, s2, s3, s4, s5>>, a, b)
<1> DEFINE cs == <<c1, c2, c3, c4, c5>>
           ss == <<s1, s2, s3, s4, s5>>
<1>1. cs \in Seq(Contexts(p)) /\ IsSequence(ss) /\ Len(cs) = 5 /\ Len(ss) = 5
  BY Tuples DEF Right
<1>2. ASSUME NEW i \in 1..5
      PROVE  Right(p, cs[i]) /\ Fits(p, ss[i], cs[i], IF i = 5 THEN b ELSE cs[i + 1])
  <2>1. CASE i = 1
    BY <2>1
  <2>2. CASE i = 2
    BY <2>2
  <2>3. CASE i = 3
    BY <2>3
  <2>4. CASE i = 4
    BY <2>4
  <2>5. CASE i = 5
    BY <2>5
  <2> QED
    BY <2>1, <2>2, <2>3, <2>4, <2>5
<1>3. Chained(p, ss, cs, b)
  BY <1>1, <1>2 DEF Chained
<1> QED
  BY <1>3 DEF Expands

LEMMA Expanded ==
  ASSUME NEW p, NEW items, NEW ctx, Fitting(p, items, ctx), items # <<>>,
         NEW steps, Expands(p, steps, ctx[1], ctx[2])
  PROVE  \E c2 : Fitting(p, steps \o Tail(items), c2) /\ Opens(c2[1], ctx[1])
<1>1. PICK cs : Chained(p, steps, cs, ctx[2])
                /\ Opens(IF steps = <<>> THEN ctx[2] ELSE cs[1], ctx[1])
  BY DEF Expands
<1>2. PICK c2 : Pushed(p, steps, items, cs, ctx[2], c2)
  BY <1>1, Pushing
<1> QED
  BY <1>1, <1>2 DEF Pushed

-----------------------------------------------------------------------------
(* Contexts of one function *)

Ctx(a, to, f, y) == [fn |-> a.fn, flow |-> f, to |-> to, kept |-> a.kept, sure |-> y]

LEMMA ContextFields ==
  ASSUME NEW p, NEW c \in Contexts(p)
  PROVE  /\ c.fn \in FunctionsOf(p) /\ c.flow \in Flows /\ c.kept \in SUBSET Names
         /\ c.flow.live \in BOOLEAN /\ c.flow.assigned \in SUBSET Names
         /\ c.to \in [{"break", "continue"} -> Flows] /\ c.sure \in BOOLEAN
         /\ c.to["break"] \in Flows /\ c.to["continue"] \in Flows
  BY DEF Contexts, Flows

LEMMA CtxRight ==
  ASSUME NEW p, NEW a, Right(p, a), NEW to \in [{"break", "continue"} -> Flows],
         NEW f \in Flows, f.live => f.assigned \subseteq Tracked(a.fn.body), NEW y \in BOOLEAN,
         NEW c, c = Ctx(a, to, f, y)
  PROVE  /\ Right(p, c)
         /\ c.fn = a.fn /\ c.flow = f /\ c.to = to /\ c.kept = a.kept /\ c.sure = y
<1>1. c.fn = a.fn /\ c.flow = f /\ c.to = to /\ c.kept = a.kept /\ c.sure = y
  BY DEF Ctx
<1>2. c \in Contexts(p)
  BY ContextFields DEF Ctx, Right, Contexts
<1> QED
  BY <1>1, <1>2 DEF Right

LEMMA CarriesOn ==
  ASSUME NEW fn, NEW w, Carries(fn, w), NEW N, NEW D
  PROVE  /\ \A f : Reaches(N, D, w, f) => f \in Flows /\ (f.live => f.assigned \subseteq Tracked(fn.body))
         /\ \A u : u \in Walks /\ u.tracked = w.tracked /\ Reaches(N, D, w, u.flow) => Carries(fn, u)
<1>1. ASSUME NEW f, Reaches(N, D, w, f)
      PROVE  f \in Flows /\ (f.live => f.assigned \subseteq Tracked(fn.body))
  BY <1>1 DEF Carries, Reaches
<1> QED
  BY <1>1 DEF Carries

(* The walk that a right context can head. *)
LEMMA RightWalks ==
  ASSUME NEW p, NEW a, Right(p, a)
  PROVE  a.flow \in Flows /\ (a.flow.live => a.flow.assigned \subseteq Tracked(a.fn.body))
         /\ a.to \in [{"break", "continue"} -> Flows]
  BY ContextFields DEF Right

(* What is supposed of a program: what sema has decided, and what its names *)
(* stand for.                                                              *)
Good(p) == Scoped(p) /\ LastArmsHeld(p) /\ \A fn \in FunctionsOf(p) : Accepts(fn)

LEMMA GoodFacts ==
  ASSUME NEW p, Good(p), NEW fn \in FunctionsOf(p)
  PROVE  /\ fn.body \in Nodes /\ Inside[fn.body] \subseteq Nodes
         /\ fn.param \in SUBSET Names /\ fn.param \cap Declared(fn.body) = {}
         /\ Named(fn.body) \subseteq Locals(fn)
         /\ Tracked(fn.body) \cap Memory(fn.body) = {}
         /\ \A x \in Inside[fn.body] : x.k = "call" =>
              x.fn \in FunctionsOf(p) /\ Rank(x.fn.body) < Rank(fn.body)
         /\ \A other \in FunctionsOf(p) : fn # other => Locals(fn) \cap Locals(other) = {}
<1>1. Resolved(p, fn)
  BY DEF Good, Scoped
<1>2. fn.body \in Nodes /\ Inside[fn.body] \subseteq Nodes
  BY <1>1, InsideNodes DEF Resolved
<1>3. ASSUME NEW x \in Inside[fn.body], x.k = "call"
      PROVE  x.fn \in FunctionsOf(p) /\ Rank(x.fn.body) < Rank(fn.body)
  BY <1>1, <1>2, <1>3, CallsLower DEF Resolved, FunctionsOf
<1>4. \A other \in FunctionsOf(p) : fn # other => Locals(fn) \cap Locals(other) = {}
  BY DEF Good, Scoped
<1> QED
  BY <1>1, <1>2, <1>3, <1>4 DEF Resolved

(* A node of a body. *)
LEMMA NodeOf ==
  ASSUME NEW p, Good(p), NEW fn \in FunctionsOf(p), NEW x \in Inside[fn.body]
  PROVE  /\ x \in Nodes /\ Inner(x) \subseteq Inside[fn.body] /\ Inner(x) \subseteq Nodes
         /\ Named(x) \subseteq Locals(fn)
         /\ Declared(x) \subseteq Declared(fn.body)
<1>1. fn.body \in Nodes /\ Named(fn.body) \subseteq Locals(fn)
  BY GoodFacts
<1>2. x \in Nodes /\ Inner(x) \subseteq Inside[fn.body]
  BY <1>1, PartsInside
<1>3. Inner(x) \subseteq Nodes
  BY <1>2, NodeFacts
<1>4. Inside[x] \subseteq Inside[fn.body]
  BY <1>1, InsideGoesOn
<1>5. Named(x) \subseteq Named(fn.body) /\ Declared(x) \subseteq Declared(fn.body)
  BY <1>4 DEF Named, Declared
<1> QED
  BY <1>1, <1>2, <1>3, <1>5

LEMMA ExprFits ==
  ASSUME NEW p, NEW x, NEW a, NEW b, Along(a, b), x \in Inside[a.fn.body], b.sure => Literal(x),
         NEW w, Carries(a.fn, w), w.flow = a.flow, ~WalkExpr[x][w].reported,
         Weaker(b.flow, WalkExpr[x][w].flow)
  PROVE  Fits(p, E(x), a, b)
<1>1. FitsExpr(x, a, b)
  BY DEF FitsExpr
<1> QED
  BY <1>1, FitsAre

LEMMA StmtFits ==
  ASSUME NEW p, NEW s, NEW a, NEW b, Along(a, b), s \in Inside[a.fn.body], ~b.sure,
         Clear(a.flow, Declared(s)),
         NEW w, Carries(a.fn, w), w.flow = a.flow, ~WalkStmt[s][w].reported,
         Weaker(b.flow, WalkStmt[s][w].flow), Landed(WalkStmt[s][w], JumpsOut[s], a.to)
  PROVE  Fits(p, S(s), a, b)
<1>1. FitsStmt(s, a, b)
  BY DEF FitsStmt
<1> QED
  BY <1>1, FitsAre

(* An expression x walked from w, with the contexts before and after it.    *)
Walked(p, a, x, w, to, u, y, c1, c2) ==
  /\ Right(p, c1) /\ c1.fn = a.fn /\ c1.kept = a.kept /\ c1.to = to /\ ~c1.sure /\ c1.flow = w.flow
  /\ Right(p, c2) /\ c2.fn = a.fn /\ c2.kept = a.kept /\ c2.to = to /\ c2.sure = y /\ c2.flow = u.flow
  /\ Fits(p, E(x), c1, c2)
  /\ Carries(a.fn, u)

LEMMA ExprWalked ==
  ASSUME NEW p, Good(p), NEW a, Right(p, a), NEW to \in [{"break", "continue"} -> Flows],
         NEW w, Carries(a.fn, w), NEW x \in Inside[a.fn.body],
         NEW u, u = WalkExpr[x][w], ~u.reported, NEW y \in BOOLEAN, y => Literal(x)
  PROVE  \E c1, c2 : Walked(p, a, x, w, to, u, y, c1, c2)
<1>1. a.fn \in FunctionsOf(p)
  BY ContextFields DEF Right
<1>2. x \in Nodes
  BY <1>1, NodeOf
<1>3. Moves(Named(x), {}, {}, w, u) /\ w \in Walks
  BY <1>2, WalkExprMoves DEF Carries
<1>4. u \in Walks /\ u.tracked = w.tracked /\ Reaches(Named(x), {}, w, u.flow)
  BY <1>3 DEF Moves
<1>5. Carries(a.fn, u) /\ u.flow \in Flows /\ w.flow \in Flows
  BY <1>3, <1>4, CarriesOn, WalkFields
<1>55. PICK no \in BOOLEAN : no = FALSE
  OBVIOUS
<1>6. PICK c1 : c1 = Ctx(a, to, w.flow, no)
  OBVIOUS
<1>7. Right(p, c1) /\ c1.fn = a.fn /\ c1.flow = w.flow /\ c1.to = to /\ c1.kept = a.kept /\ ~c1.sure
  BY <1>5, <1>55, <1>6, CtxRight DEF Carries
<1>8. PICK c2 : c2 = Ctx(a, to, u.flow, y)
  OBVIOUS
<1>9. Right(p, c2) /\ c2.fn = a.fn /\ c2.flow = u.flow /\ c2.to = to /\ c2.kept = a.kept /\ c2.sure = y
  BY <1>5, <1>8, CtxRight DEF Carries
<1>10. Along(c1, c2) /\ Weaker(c2.flow, u.flow)
  BY <1>7, <1>9, WeakerFacts DEF Along
<1>11. Fits(p, E(x), c1, c2)
  BY <1>7, <1>9, <1>10, ExprFits
<1> QED
  BY <1>5, <1>7, <1>9, <1>11 DEF Walked

-----------------------------------------------------------------------------
(* Expressions *)

(* An expression whose first operand y is walked before a next step.       *)
LEMMA OperandThen ==
  ASSUME NEW p, Good(p), NEW a, Right(p, a), NEW b, Along(a, b),
         NEW w, Carries(a.fn, w), w.flow = a.flow, NEW y \in Inside[a.fn.body],
         NEW u, u = WalkExpr[y][w], ~u.reported, NEW step,
         \A c \in Contexts(p) : Right(p, c) /\ Along(c, b) /\ c.flow = u.flow /\ Carries(a.fn, u)
                                  => Fits(p, step, c, b)
  PROVE  Expands(p, <<E(y), step>>, a, b)
<1>1. PICK to, no : to = a.to /\ no \in BOOLEAN /\ no = FALSE
  OBVIOUS
<1>2. to \in [{"break", "continue"} -> Flows]
  BY <1>1, RightWalks
<1>3. PICK c1, c2 : Walked(p, a, y, w, to, u, no, c1, c2)
  BY <1>1, <1>2, ExprWalked
<1>4. /\ Right(p, c1) /\ c1.fn = a.fn /\ c1.kept = a.kept /\ ~c1.sure /\ c1.flow = a.flow
      /\ Right(p, c2) /\ c2.fn = a.fn /\ c2.kept = a.kept /\ c2.to = a.to /\ ~c2.sure
      /\ c2.flow = u.flow /\ Fits(p, E(y), c1, c2) /\ Carries(a.fn, u) /\ c2 \in Contexts(p)
  BY <1>1, <1>3 DEF Walked, Right
<1>5. Along(c2, b)
  BY <1>4 DEF Along
<1>6. Fits(p, step, c2, b)
  BY <1>4, <1>5
<1>7. Opens(c1, a)
  BY <1>4, WeakerFacts DEF Opens
<1> QED
  BY <1>4, <1>6, <1>7, Expand2

(* A step that leaves the flow state, on its own. *)
LEMMA AloneFits ==
  ASSUME NEW p, NEW a, Right(p, a), NEW b, NEW step,
         \A c \in Contexts(p) : Right(p, c) /\ c.fn = a.fn /\ c.kept = a.kept /\ c.to = a.to
                                  /\ c.flow = a.flow /\ ~c.sure => Fits(p, step, c, b)
  PROVE  Expands(p, <<step>>, a, b)
<1>1. PICK to, no, f : to = a.to /\ no \in BOOLEAN /\ no = FALSE /\ f = a.flow
  OBVIOUS
<1>2. to \in [{"break", "continue"} -> Flows] /\ f \in Flows /\ (f.live => f.assigned \subseteq Tracked(a.fn.body))
  BY <1>1, RightWalks
<1>3. PICK c : c = Ctx(a, to, f, no)
  OBVIOUS
<1>4. Right(p, c) /\ c.fn = a.fn /\ c.flow = f /\ c.to = to /\ c.kept = a.kept /\ c.sure = no
  BY <1>1, <1>2, <1>3, CtxRight
<1>5. c \in Contexts(p) /\ Fits(p, step, c, b) /\ Opens(c, a)
  BY <1>1, <1>4, WeakerFacts DEF Right, Opens
<1> QED
  BY <1>4, <1>5, Expand1

LEMMA WriteFields ==
  ASSUME NEW u \in Walks, NEW v
  PROVE  /\ Write(u, v).reported = u.reported /\ Write(u, v).jumps = u.jumps
         /\ Write(u, v).flow.live = u.flow.live
         /\ Write(u, v).flow.assigned \subseteq u.flow.assigned \cup {v}
<1>1. CASE ~u.flow.live \/ v \notin u.tracked
  BY <1>1 DEF Write
<1>2. CASE ~(~u.flow.live \/ v \notin u.tracked)
  <2>1. Write(u, v) = [u EXCEPT !.flow.assigned = @ \cup {v}]
    BY <1>2 DEF Write
  <2> QED
    BY <2>1 DEF Walks, Flows
<1> QED
  BY <1>1, <1>2

LEMMA ExprExpands ==
  ASSUME NEW p, Good(p), NEW a, Right(p, a), NEW b, NEW x, FitsExpr(x, a, b), a.flow.live
  PROVE  Expands(p, ExprSteps(x), a, b)
<1>1. Along(a, b) /\ x \in Inside[a.fn.body] /\ (b.sure => Literal(x)) /\ a.fn \in FunctionsOf(p)
  BY ContextFields DEF FitsExpr, Right
<1>2. PICK w : /\ Carries(a.fn, w) /\ w.flow = a.flow
               /\ ~WalkExpr[x][w].reported /\ Weaker(b.flow, WalkExpr[x][w].flow)
  BY DEF FitsExpr
<1>3. x \in Nodes /\ Inner(x) \subseteq Inside[a.fn.body] /\ Inner(x) \subseteq Nodes
      /\ Named(x) \subseteq Locals(a.fn)
  BY <1>1, NodeOf
<1>4. w \in Walks /\ w.tracked = Tracked(a.fn.body)
  BY <1>2 DEF Carries
<1>5. ASSUME NEW y \in Inner(x), NEW v, v \in Walks
      PROVE  WalkExpr[y][v] \in Walks /\ (v.reported => WalkExpr[y][v].reported)
  BY <1>3, <1>5, PartMoves
<1>6. CASE x.k \in {"bool", "lit"}
  <2>1. ExprSteps(x) = <<Number(x.n)>>
    BY <1>6 DEF ExprSteps
  <2>2. WalkExpr[x][w] = w
    BY <1>3, <1>4, <1>6, WalkExprAt
  <2>3. PICK step : step = Number(x.n)
    OBVIOUS
  <2>4. ASSUME NEW c \in Contexts(p), c.fn = a.fn, c.kept = a.kept, c.to = a.to, c.flow = a.flow
        PROVE  Fits(p, step, c, b)
    <3>1. Eases(c, b) /\ (b.sure => x.n # 0)
      BY <1>1, <1>2, <2>2, <2>4 DEF Eases, Along, Literal
    <3> QED
      BY <2>3, <3>1, FitsAre
  <2>5. Expands(p, <<step>>, a, b)
    BY <2>4, AloneFits
  <2> QED
    BY <2>1, <2>3, <2>5
<1>7. CASE x.k = "var"
  <2>1. PICK step : step = [do |-> "load", v |-> x.v]
    OBVIOUS
  <2>2. ExprSteps(x) = <<step>>
    BY <1>7, <2>1 DEF ExprSteps
  <2>3. WalkExpr[x][w] = Read(w, x.v)
    BY <1>3, <1>4, <1>7, WalkExprAt
  <2>4. x.v \in Names /\ x.v \in Locals(a.fn)
    BY <1>3, <1>7, NamesInside
  <2>45. PICK name \in Names : name = x.v
    BY <2>4
  <2>5. Read(w, x.v) = w /\ (~w.flow.live \/ x.v \notin w.tracked \/ x.v \in w.flow.assigned)
    <3>1. ~Read(w, name).reported
      BY <1>2, <2>3, <2>45
    <3>2. Read(w, name) = w
      BY <1>4, <3>1, MovesWrite
    <3>3. ~w.flow.live \/ name \notin w.tracked \/ name \in w.flow.assigned
      BY <1>4, <3>1, MovesWrite
    <3> QED
      BY <2>45, <3>2, <3>3
  <2>6. ~b.sure
    BY <1>1, <1>7 DEF Literal
  <2>7. ASSUME NEW c \in Contexts(p), c.fn = a.fn, c.kept = a.kept, c.to = a.to, c.flow = a.flow
        PROVE  Fits(p, step, c, b)
    <3>1. FitsLoad(x.v, c, b)
      BY <1>1, <1>2, <1>4, <2>3, <2>4, <2>5, <2>6, <2>7 DEF FitsLoad, Eases, Along
    <3> QED
      BY <2>1, <3>1, FitsRecords
  <2>8. Expands(p, <<step>>, a, b)
    BY <2>7, AloneFits
  <2> QED
    BY <2>2, <2>8
<1>8. CASE x.k = "ask"
  <2>1. PICK step : step = [do |-> "ask", n |-> x.n]
    OBVIOUS
  <2>2. ExprSteps(x) = <<step>>
    BY <1>8, <2>1 DEF ExprSteps
  <2>3. WalkExpr[x][w] = w
    BY <1>3, <1>4, <1>8, WalkExprAt
  <2>4. ~b.sure
    BY <1>1, <1>8 DEF Literal
  <2>5. ASSUME NEW c \in Contexts(p), c.fn = a.fn, c.kept = a.kept, c.to = a.to, c.flow = a.flow
        PROVE  Fits(p, step, c, b)
    <3>1. Eases(c, b)
      BY <1>1, <1>2, <2>3, <2>5 DEF Eases, Along
    <3> QED
      BY <2>1, <2>4, <3>1, FitsRecords
  <2>6. Expands(p, <<step>>, a, b)
    BY <2>5, AloneFits
  <2> QED
    BY <2>2, <2>6
<1>9. CASE x.k \notin {"bool", "lit", "var", "ask", "tell", "set", "ne", "not", "and", "or", "cond", "call"}
  <2>1. PICK step : step = Number(0)
    OBVIOUS
  <2>2. ExprSteps(x) = <<step>>
    BY <1>9, <2>1 DEF ExprSteps
  <2>3. WalkExpr[x][w] = w
    BY <1>3, <1>4, <1>9, WalkExprAt
  <2>4. ~b.sure
    BY <1>1, <1>9 DEF Literal
  <2>5. ASSUME NEW c \in Contexts(p), c.fn = a.fn, c.kept = a.kept, c.to = a.to, c.flow = a.flow
        PROVE  Fits(p, step, c, b)
    <3>1. Eases(c, b)
      BY <1>1, <1>2, <2>3, <2>5 DEF Eases, Along
    <3> QED
      BY <2>1, <2>4, <3>1, FitsAre
  <2>6. Expands(p, <<step>>, a, b)
    BY <2>5, AloneFits
  <2> QED
    BY <2>2, <2>6
<1>10. CASE x.k = "tell"
  <2>1. PICK step : step = Step("tell")
    OBVIOUS
  <2>2. ExprSteps(x) = <<E(x.x), step>>
    BY <1>10, <2>1 DEF ExprSteps
  <2>3. WalkExpr[x][w] = WalkExpr[x.x][w] /\ x.x \in Inside[a.fn.body]
    BY <1>3, <1>4, <1>10, WalkExprAt, PartsAre
  <2>4. ~b.sure
    BY <1>1, <1>10 DEF Literal
  <2>5. PICK u : u = WalkExpr[x.x][w]
    OBVIOUS
  <2>6. ASSUME NEW c \in Contexts(p), Along(c, b), c.flow = u.flow
        PROVE  Fits(p, step, c, b)
    <3>1. Eases(c, b)
      BY <1>2, <2>3, <2>5, <2>6 DEF Eases
    <3> QED
      BY <2>1, <2>4, <3>1, FitsAre
  <2>7. Expands(p, <<E(x.x), step>>, a, b)
    BY <1>1, <1>2, <2>3, <2>5, <2>6, OperandThen
  <2> QED
    BY <2>2, <2>7
<1>11. CASE x.k = "set"
  <2>1. PICK step : step = [do |-> "store", v |-> x.v]
    OBVIOUS
  <2>2. ExprSteps(x) = <<E(x.x), step>>
    BY <1>11, <2>1 DEF ExprSteps
  <2>3. WalkExpr[x][w] = Write(WalkExpr[x.x][w], x.v) /\ x.x \in Inside[a.fn.body] /\ x.x \in Inner(x)
    BY <1>3, <1>4, <1>11, WalkExprAt, PartsAre
  <2>4. ~b.sure
    BY <1>1, <1>11 DEF Literal
  <2>5. PICK u : u = WalkExpr[x.x][w]
    OBVIOUS
  <2>6. x.v \in Names /\ u \in Walks
    BY <1>3, <1>4, <1>5, <1>11, <2>3, <2>5, NamesInside
  <2>7. Write(u, x.v).reported = u.reported
    BY <2>6, WriteFields
  <2>8. u.flow.live => Write(u, x.v).flow.live
                       /\ Write(u, x.v).flow.assigned \subseteq u.flow.assigned \cup {x.v}
    BY <2>6, WriteFields
  <2>9. ASSUME NEW c \in Contexts(p), Along(c, b), c.flow = u.flow
        PROVE  Fits(p, step, c, b)
    <3>1. FitsStore(x.v, c, b)
      BY <1>2, <2>3, <2>4, <2>5, <2>8, <2>9 DEF FitsStore, Weaker
    <3> QED
      BY <2>1, <3>1, FitsRecords
  <2>10. Expands(p, <<E(x.x), step>>, a, b)
    BY <1>1, <1>2, <2>3, <2>5, <2>7, <2>9, OperandThen
  <2> QED
    BY <2>2, <2>10
<1>12. CASE x.k = "not"
  <2>1. PICK step : step = Test(x)
    OBVIOUS
  <2>2. ExprSteps(x) = <<E(x.x), step>>
    BY <1>12, <2>1 DEF ExprSteps
  <2>3. WalkExpr[x][w] = WalkExpr[x.x][w] /\ x.x \in Inside[a.fn.body]
    BY <1>3, <1>4, <1>12, WalkExprAt, PartsAre
  <2>4. ~b.sure
    BY <1>1, <1>12 DEF Literal
  <2>5. PICK u : u = WalkExpr[x.x][w]
    OBVIOUS
  <2>6. ASSUME NEW c \in Contexts(p), Along(c, b), c.flow = u.flow
        PROVE  Fits(p, step, c, b)
    <3>1. FitsTest(x, c, b)
      BY <1>1, <1>2, <1>12, <2>3, <2>4, <2>5, <2>6 DEF FitsTest, Along
    <3> QED
      BY <2>1, <3>1, FitsAre
  <2>7. Expands(p, <<E(x.x), step>>, a, b)
    BY <1>1, <1>2, <2>3, <2>5, <2>6, OperandThen
  <2> QED
    BY <2>2, <2>7
<1>13. CASE x.k \in {"and", "or"}
  <2>1. PICK step : step = Test(x)
    OBVIOUS
  <2>2. ExprSteps(x) = <<E(x.x), step>>
    BY <1>13, <2>1 DEF ExprSteps
  <2>3. /\ WalkExpr[x][w] = WalkShort(WalkExpr, w, x)
        /\ x.x \in Inside[a.fn.body] /\ x.x \in Inner(x) /\ x.y \in Inner(x)
    BY <1>3, <1>4, <1>13, WalkExprAt, PartsAre
  <2>4. ~b.sure
    BY <1>1, <1>13 DEF Literal
  <2>5. PICK u : u = WalkExpr[x.x][w]
    OBVIOUS
  <2>6. PICK N : N = Named(x)
    OBVIOUS
  <2>7. \A v \in Walks : Moves(N, {}, {}, v, WalkExpr[x.x][v]) /\ Moves(N, {}, {}, v, WalkExpr[x.y][v])
    BY <1>3, <2>3, <2>6, PartMoves
  <2>8. /\ WalkExpr[x][w].flow = u.flow
        /\ WalkExpr[x][w].reported = WalkExpr[x.y][u].reported
        /\ u \in Walks
    <3>1. WalkShort(WalkExpr, w, x).flow = WalkExpr[x.x][w].flow
      BY <1>4, <2>7, ShortMoves
    <3>2. WalkShort(WalkExpr, w, x).reported = WalkExpr[x.y][WalkExpr[x.x][w]].reported
      BY <1>4, <2>7, ShortMoves
    <3>3. WalkExpr[x.x][w] \in Walks
      BY <1>4, <2>7 DEF Moves
    <3> QED
      BY <2>3, <2>5, <3>1, <3>2, <3>3
  <2>9. ~u.reported /\ ~WalkExpr[x.y][u].reported
    BY <1>2, <1>5, <2>3, <2>8
  <2>10. ASSUME NEW c \in Contexts(p), Along(c, b), c.flow = u.flow, Carries(a.fn, u)
         PROVE  Fits(p, step, c, b)
    <3>1. c.fn = a.fn
      BY <1>1, <2>10 DEF Along
    <3>2. FitsShort(x, c, b)
      BY <1>2, <2>8, <2>9, <2>10, <3>1 DEF FitsShort
    <3>3. FitsTest(x, c, b)
      BY <1>1, <1>13, <2>4, <2>10, <3>1, <3>2 DEF FitsTest
    <3> QED
      BY <2>1, <3>3, FitsAre
  <2>11. Expands(p, <<E(x.x), step>>, a, b)
    BY <1>1, <1>2, <2>3, <2>5, <2>9, <2>10, OperandThen
  <2> QED
    BY <2>2, <2>11
<1>14. CASE x.k = "cond"
  <2>1. PICK step : step = Test(x)
    OBVIOUS
  <2>2. ExprSteps(x) = <<E(x.c), step>>
    BY <1>14, <2>1 DEF ExprSteps
  <2>3. /\ WalkExpr[x][w] = WalkArms(WalkExpr, WalkExpr[x.c][w], x.x, x.y)
        /\ x.c \in Inside[a.fn.body] /\ x.c \in Inner(x) /\ x.x \in Inner(x) /\ x.y \in Inner(x)
    BY <1>3, <1>4, <1>14, WalkExprAt, PartsAre
  <2>4. ~b.sure
    BY <1>1, <1>14 DEF Literal
  <2>5. PICK u, r : u = WalkExpr[x.c][w] /\ r = WalkArms(WalkExpr, u, x.x, x.y)
    OBVIOUS
  <2>6. PICK N : N = Named(x)
    OBVIOUS
  <2>7. \A v \in Walks : Moves(N, {}, {}, v, WalkExpr[x.x][v]) /\ Moves(N, {}, {}, v, WalkExpr[x.y][v])
    BY <1>3, <2>3, <2>6, PartMoves
  <2>8. u \in Walks
    BY <1>4, <1>5, <2>3, <2>5
  <2>9. \E then, els : ArmsFit(WalkExpr, N, {}, {}, u, x.x, x.y, r, then, els)
    BY <2>5, <2>7, <2>8, ArmsMove
  <2>10. ~r.reported /\ ~u.reported /\ Weaker(b.flow, r.flow)
    BY <1>2, <2>3, <2>5, <2>9 DEF ArmsFit, Moves
  <2>11. ASSUME NEW c \in Contexts(p), Along(c, b), c.flow = u.flow, Carries(a.fn, u)
         PROVE  Fits(p, step, c, b)
    <3>1. c.fn = a.fn
      BY <1>1, <2>11 DEF Along
    <3>2. FitsCond(x, c, b)
      BY <2>5, <2>10, <2>11, <3>1 DEF FitsCond
    <3>3. FitsTest(x, c, b)
      BY <1>1, <1>14, <2>4, <2>11, <3>1, <3>2 DEF FitsTest
    <3> QED
      BY <2>1, <3>3, FitsAre
  <2>12. Expands(p, <<E(x.c), step>>, a, b)
    BY <1>1, <1>2, <2>3, <2>5, <2>10, <2>11, OperandThen
  <2> QED
    BY <2>2, <2>12
<1>15. CASE x.k = "call"
  <2>1. PICK step : step = [do |-> "call", fn |-> x.fn]
    OBVIOUS
  <2>2. ExprSteps(x) = <<E(x.x), step>>
    BY <1>15, <2>1 DEF ExprSteps
  <2>3. WalkExpr[x][w] = WalkExpr[x.x][w] /\ x.x \in Inside[a.fn.body]
    BY <1>3, <1>4, <1>15, WalkExprAt, PartsAre
  <2>4. ~b.sure
    BY <1>1, <1>15 DEF Literal
  <2>5. PICK u : u = WalkExpr[x.x][w]
    OBVIOUS
  <2>6. x.fn \in FunctionsOf(p) /\ Rank(x.fn.body) < Rank(a.fn.body)
    BY <1>1, <1>15, GoodFacts
  <2>7. ASSUME NEW c \in Contexts(p), Along(c, b), c.flow = u.flow
        PROVE  Fits(p, step, c, b)
    <3>1. c.fn = a.fn
      BY <1>1, <2>7 DEF Along
    <3>2. FitsCall(p, x.fn, c, b)
      BY <1>2, <2>3, <2>4, <2>5, <2>6, <2>7, <3>1 DEF FitsCall, Eases
    <3> QED
      BY <2>1, <3>2, FitsRecords
  <2>8. Expands(p, <<E(x.x), step>>, a, b)
    BY <1>1, <1>2, <2>3, <2>5, <2>7, OperandThen
  <2> QED
    BY <2>2, <2>8
<1>16. CASE x.k = "ne"
  <2>1. PICK s1, s2, s3 : s1 = E(x.x) /\ s2 = E(x.y) /\ s3 = Step("differ")
    OBVIOUS
  <2>2. ExprSteps(x) = <<s1, s2, s3>>
    BY <1>16, <2>1 DEF ExprSteps
  <2>3. /\ WalkExpr[x][w] = WalkExpr[x.y][WalkExpr[x.x][w]]
        /\ x.x \in Inside[a.fn.body] /\ x.x \in Inner(x)
        /\ x.y \in Inside[a.fn.body] /\ x.y \in Inner(x)
    BY <1>3, <1>4, <1>16, WalkExprAt, PartsAre
  <2>4. ~b.sure
    BY <1>1, <1>16 DEF Literal
  <2>5. PICK u, v : u = WalkExpr[x.x][w] /\ v = WalkExpr[x.y][u]
    OBVIOUS
  <2>6. u \in Walks /\ ~v.reported /\ ~u.reported /\ Weaker(b.flow, v.flow)
    BY <1>2, <1>4, <1>5, <2>3, <2>5
  <2>7. PICK to, no : to = a.to /\ no \in BOOLEAN /\ no = FALSE
    OBVIOUS
  <2>8. to \in [{"break", "continue"} -> Flows]
    BY <2>7, RightWalks
  <2>85. PICK y1, y2 : y1 = x.x /\ y2 = x.y
    OBVIOUS
  <2>9. PICK c1, c2 : Walked(p, a, y1, w, to, u, no, c1, c2)
    BY <1>2, <2>3, <2>5, <2>6, <2>7, <2>8, <2>85, ExprWalked
  <2>10. /\ Right(p, c1) /\ c1.fn = a.fn /\ c1.kept = a.kept /\ ~c1.sure /\ c1.flow = a.flow
         /\ Right(p, c2) /\ c2.fn = a.fn /\ c2.kept = a.kept /\ c2.to = a.to /\ ~c2.sure
         /\ c2.flow = u.flow /\ Fits(p, s1, c1, c2) /\ Carries(a.fn, u)
    BY <1>2, <2>1, <2>7, <2>85, <2>9 DEF Walked
  <2>105. /\ Carries(a.fn, u) /\ y2 \in Inside[a.fn.body] /\ v = WalkExpr[y2][u] /\ ~v.reported
          /\ ~no /\ no \in BOOLEAN
    BY <2>3, <2>5, <2>6, <2>7, <2>85, <2>10
  <2>11. PICK d2, c3 : Walked(p, a, y2, u, to, v, no, d2, c3)
    BY <2>8, <2>105, ExprWalked
  <2>12. /\ Right(p, c3) /\ c3.fn = a.fn /\ c3.kept = a.kept /\ c3.to = a.to /\ ~c3.sure
         /\ c3.flow = v.flow
    BY <2>7, <2>11 DEF Walked
  <2>13. Fits(p, s2, c2, c3)
    <3>1. Along(c2, c3) /\ Weaker(c3.flow, v.flow)
      BY <2>10, <2>12, WeakerFacts DEF Along
    <3>2. Fits(p, E(x.y), c2, c3)
      BY <2>3, <2>5, <2>6, <2>10, <2>12, <3>1, ExprFits
    <3> QED
      BY <2>1, <3>2
  <2>14. Fits(p, s3, c3, b)
    <3>1. Eases(c3, b)
      BY <1>1, <2>6, <2>12 DEF Eases, Along
    <3> QED
      BY <2>1, <2>4, <3>1, FitsAre
  <2>15. Opens(c1, a)
    BY <2>10, WeakerFacts DEF Opens
  <2> QED
    BY <2>2, <2>10, <2>12, <2>13, <2>14, <2>15, Expand3
<1> QED
  BY <1>6, <1>7, <1>8, <1>9, <1>10, <1>11, <1>12, <1>13, <1>14, <1>15, <1>16

-----------------------------------------------------------------------------
(* Statements *)

LEMMA LandedBefore ==
  ASSUME NEW N, NEW D, NEW K, NEW u \in Walks, NEW v, Moves(N, D, K, u, v),
         NEW J, NEW L \in SUBSET J, NEW to, Landed(v, J, to)
  PROVE  Landed(u, L, to)
<1>1. LoopOf(v.jumps) = LoopOf(u.jumps) /\ DOMAIN v.jumps = DOMAIN u.jumps
  BY LoopOfSame
<1>2. v \in Walks /\ Len(v.jumps) = Len(u.jumps)
      /\ \A i \in DOMAIN u.jumps : u.jumps[i].continues \subseteq v.jumps[i].continues
  BY DEF Moves, Collects
<1>3. u.jumps \in Seq(Frames) /\ v.jumps \in Seq(Frames)
  BY <1>2, WalkFields
<1>4. ASSUME "break" \in L
      PROVE  u.jumps # <<>> /\ \A f \in Top(u).breaks : Weaker(to["break"], f)
  <2>1. v.jumps # <<>> /\ \A f \in Top(v).breaks : Weaker(to["break"], f)
    BY <1>4 DEF Landed
  <2>2. Len(u.jumps) # 0
    BY <1>2, <1>3, <2>1
  <2>3. Top(u).breaks \subseteq Top(v).breaks
    BY <2>2, TopGrows
  <2> QED
    BY <1>3, <2>1, <2>2, <2>3
<1>5. ASSUME "continue" \in L
      PROVE  /\ LoopOf(u.jumps) # {}
             /\ \A i \in LoopOf(u.jumps) : \A f \in u.jumps[i].continues : Weaker(to["continue"], f)
  <2>1. /\ LoopOf(v.jumps) # {}
        /\ \A i \in LoopOf(v.jumps) : \A f \in v.jumps[i].continues : Weaker(to["continue"], f)
    BY <1>5 DEF Landed
  <2>2. LoopOf(u.jumps) \subseteq DOMAIN u.jumps
    BY DEF LoopOf
  <2> QED
    BY <1>1, <1>2, <2>1, <2>2
<1> QED
  BY <1>4, <1>5 DEF Landed

(* Where the jumps lead matters only for those bound there, and only the frames count. *)
LEMMA LandedSame ==
  ASSUME NEW u, NEW v, v.jumps = u.jumps, NEW J, NEW L \in SUBSET J, NEW to, NEW to2,
         \A name \in L : to2[name] = to[name], Landed(u, J, to)
  PROVE  Landed(v, L, to2)
  BY DEF Landed, Top

LEMMA ClearsOn ==
  ASSUME NEW N, NEW D, NEW w, NEW f, Reaches(N, D, w, f), NEW X, Clear(w.flow, X), N \cap X = {}
  PROVE  Clear(f, X)
  BY DEF Clear, Reaches

LEMMA ClearsLess ==
  ASSUME NEW f, NEW X, NEW Y \in SUBSET X, Clear(f, X)
  PROVE  Clear(f, Y)
  BY DEF Clear

(* No name is used ahead of the part that declares it. *)
LEMMA OrderFacts ==
  ASSUME NEW p, Good(p), NEW fn \in FunctionsOf(p), NEW s \in Inside[fn.body]
  PROVE  /\ s.k = "if" => Named(s.c) \cap Declared(s.then) = {} /\ Named(s.c) \cap Declared(s.els) = {}
         /\ s.k = "while" => Named(s.c) \cap Declared(s.body) = {}
         /\ s.k = "for" => Named(s.init) \cap Declared(s.body) = {} /\ Named(s.c) \cap Declared(s.body) = {}
         /\ s.k = "switch" => \A i \in DOMAIN s.arms : Named(s.tag) \cap Declared(s.arms[i].body) = {}
         /\ s.k = "block" => \A j \in DOMAIN s.stmts : \A i \in 1..(j - 1) :
                               Named(s.stmts[i]) \cap Declared(s.stmts[j]) = {}
<1>1. \A j \in DOMAIN Parts(s) : \A i \in 1..(j - 1) : Named(Parts(s)[i]) \cap Declared(Parts(s)[j]) = {}
  BY DEF Good, Scoped, Resolved
<1>2. s \in Nodes
  BY NodeOf
<1>3. s.k = "if" => Named(s.c) \cap Declared(s.then) = {} /\ Named(s.c) \cap Declared(s.els) = {}
  <2> SUFFICES ASSUME s.k = "if"
               PROVE  Named(s.c) \cap Declared(s.then) = {} /\ Named(s.c) \cap Declared(s.els) = {}
    OBVIOUS
  <2>1. Parts(s) = <<s.c, s.then, s.els>>
    BY DEF Parts
  <2>2. 2 \in DOMAIN Parts(s) /\ 3 \in DOMAIN Parts(s) /\ Parts(s)[1] = s.c /\ Parts(s)[2] = s.then
        /\ Parts(s)[3] = s.els /\ 1 \in 1..(2 - 1) /\ 1 \in 1..(3 - 1)
    BY <2>1
  <2> QED
    BY <1>1, <2>2
<1>4. s.k = "while" => Named(s.c) \cap Declared(s.body) = {}
  <2> SUFFICES ASSUME s.k = "while" PROVE Named(s.c) \cap Declared(s.body) = {}
    OBVIOUS
  <2>1. Parts(s) = <<s.c, s.body>>
    BY DEF Parts
  <2>2. 2 \in DOMAIN Parts(s) /\ Parts(s)[1] = s.c /\ Parts(s)[2] = s.body /\ 1 \in 1..(2 - 1)
    BY <2>1
  <2> QED
    BY <1>1, <2>2
<1>5. s.k = "for" => Named(s.init) \cap Declared(s.body) = {} /\ Named(s.c) \cap Declared(s.body) = {}
  <2> SUFFICES ASSUME s.k = "for"
               PROVE  Named(s.init) \cap Declared(s.body) = {} /\ Named(s.c) \cap Declared(s.body) = {}
    OBVIOUS
  <2>1. Parts(s) = <<s.init, s.c, s.post, s.body>>
    BY DEF Parts
  <2>2. 4 \in DOMAIN Parts(s) /\ Parts(s)[1] = s.init /\ Parts(s)[2] = s.c /\ Parts(s)[4] = s.body
        /\ 1 \in 1..(4 - 1) /\ 2 \in 1..(4 - 1)
    BY <2>1
  <2> QED
    BY <1>1, <2>2
<1>6. s.k = "switch" => \A i \in DOMAIN s.arms : Named(s.tag) \cap Declared(s.arms[i].body) = {}
  <2> SUFFICES ASSUME s.k = "switch", NEW i \in DOMAIN s.arms
               PROVE  Named(s.tag) \cap Declared(s.arms[i].body) = {}
    OBVIOUS
  <2>1. i + 1 \in DOMAIN Parts(s) /\ Parts(s)[i + 1] = s.arms[i].body /\ Parts(s)[1] = s.tag /\ i \in Nat /\ i >= 1
    BY <1>2, ArmsAre
  <2>2. 1 \in 1..((i + 1) - 1)
    BY <2>1
  <2> QED
    BY <1>1, <2>1, <2>2
<1>7. s.k = "block" => \A j \in DOMAIN s.stmts : \A i \in 1..(j - 1) :
                         Named(s.stmts[i]) \cap Declared(s.stmts[j]) = {}
  BY <1>1, <1>2, PartsAre
<1> QED
  BY <1>3, <1>4, <1>5, <1>6, <1>7

(* Where a break or a continue leads, bound to a mark ahead of b. *)
Marked(p, a, b, name, to) ==
  /\ to \in [{"break", "continue"} -> Flows] /\ to[name] = b.flow
  /\ \A other \in {"break", "continue"} : other # name => to[other] = a.to[other]
  /\ \A c : c.fn = a.fn /\ c.kept = a.kept /\ c.to = to /\ Weaker(b.flow, c.flow)
              => Fits(p, Mark(name), c, b)

LEMMA MarkFits ==
  ASSUME NEW p, NEW a, Right(p, a), NEW b, Right(p, b), ~b.sure, NEW name \in {"break", "continue"},
         a.fn = b.fn, a.kept = b.kept, a.to = b.to,
         NEW to, to = [a.to EXCEPT ![name] = b.flow]
  PROVE  Marked(p, a, b, name, to)
<1>1. a.to \in [{"break", "continue"} -> Flows] /\ b.flow \in Flows
  BY RightWalks
<1>2. ASSUME NEW c, c.fn = a.fn, c.kept = a.kept, c.to = to, Weaker(b.flow, c.flow)
      PROVE  Fits(p, Mark(name), c, b)
  <2>1. FitsMark(name, c, b)
    BY <1>2 DEF FitsMark
  <2> QED
    BY <2>1, FitsAre
<1> QED
  BY <1>1, <1>2 DEF Marked

(* Contexts at a walk. *)
LEMMA CtxAt ==
  ASSUME NEW p, NEW a, Right(p, a), NEW to \in [{"break", "continue"} -> Flows],
         NEW w, Carries(a.fn, w)
  PROVE  \E c : /\ Right(p, c) /\ c.fn = a.fn /\ c.flow = w.flow /\ c.to = to
                /\ c.kept = a.kept /\ ~c.sure
<1>1. PICK no \in BOOLEAN, f \in Flows : no = FALSE /\ f = w.flow
  BY WalkFields DEF Carries
<1>2. PICK c : c = Ctx(a, to, f, no)
  OBVIOUS
<1>3. Right(p, c) /\ c.fn = a.fn /\ c.flow = f /\ c.to = to /\ c.kept = a.kept /\ c.sure = no
  BY <1>1, <1>2, CtxRight DEF Carries
<1> QED
  BY <1>1, <1>3

LEMMA CtxOf ==
  ASSUME NEW p, NEW a, Right(p, a), NEW to \in [{"break", "continue"} -> Flows],
         NEW b, Right(p, b), b.fn = a.fn
  PROVE  \E c : /\ Right(p, c) /\ c.fn = a.fn /\ c.flow = b.flow /\ c.to = to
                /\ c.kept = a.kept /\ ~c.sure
<1>1. b.flow \in Flows /\ (b.flow.live => b.flow.assigned \subseteq Tracked(a.fn.body))
  BY RightWalks
<1>2. PICK no \in BOOLEAN, f \in Flows : no = FALSE /\ f = b.flow
  BY <1>1
<1>3. PICK c : c = Ctx(a, to, f, no)
  OBVIOUS
<1>4. Right(p, c) /\ c.fn = a.fn /\ c.flow = f /\ c.to = to /\ c.kept = a.kept /\ c.sure = no
  BY <1>1, <1>2, <1>3, CtxRight
<1> QED
  BY <1>2, <1>4

(* A statement s on top, walked from w to r. *)
Running(p, s, a, b, w, r) ==
  /\ Good(p) /\ Right(p, a) /\ Right(p, b) /\ Along(a, b) /\ ~b.sure
  /\ a.fn \in FunctionsOf(p) /\ s \in Inside[a.fn.body] /\ s \in Nodes
  /\ Inner(s) \subseteq Inside[a.fn.body] /\ Inner(s) \subseteq Nodes
  /\ Clear(a.flow, Declared(s))
  /\ w \in Walks /\ Carries(a.fn, w) /\ w.flow = a.flow
  /\ r = WalkStmt[s][w] /\ ~r.reported
  /\ Weaker(b.flow, r.flow) /\ Landed(r, JumpsOut[s], a.to)

LEMMA BlockExpands ==
  ASSUME NEW p, NEW s, NEW a, NEW b, NEW w, NEW r, Running(p, s, a, b, w, r), s.k = "block"
  PROVE  Expands(p, [i \in DOMAIN s.stmts |-> S(s.stmts[i])], a, b)
<1> USE DEF Running
<1>1. s.stmts \in Seq(Nodes) /\ Parts(s) = s.stmts /\ Inner(s) = {s.stmts[i] : i \in DOMAIN s.stmts}
  BY PartsAre
<1> DEFINE n == Len(s.stmts)
           D == Declared(s)
           NN(i, m) == UNION {Named(s.stmts[j]) : j \in (i + 1)..m}
<1>2. n \in Nat /\ DOMAIN s.stmts = 1..n
  BY <1>1
<1>3. \A q \in Inner(s) : StmtMoves(q)
  BY WalkStmtMoves
<1>4. PICK at :
        /\ at[0] = w /\ r = at[n]
        /\ \A j \in 1..n : at[j] = WalkStmt[s.stmts[j]][at[j - 1]]
        /\ \A j \in 0..n : at[j] \in Walks
        /\ \A i, m \in 0..n : i <= m => Moves(NN(i, m), D, JumpsOut[s], at[i], at[m])
  BY <1>3, ListFacts
<1>5. ASSUME NEW i \in 0..n
      PROVE  /\ Carries(a.fn, at[i]) /\ Reaches(NN(0, i), D, w, at[i].flow)
             /\ ~at[i].reported
             /\ Moves(NN(i, n), D, JumpsOut[s], at[i], r)
  <2>1. 0 \in 0..n /\ n \in 0..n /\ 0 <= i /\ i <= n
    BY <1>2
  <2>2. Moves(NN(0, i), D, JumpsOut[s], w, at[i]) /\ Moves(NN(i, n), D, JumpsOut[s], at[i], r)
    BY <1>4, <2>1
  <2>3. at[i] \in Walks /\ at[i].tracked = w.tracked /\ Reaches(NN(0, i), D, w, at[i].flow)
    BY <2>2 DEF Moves
  <2>4. Carries(a.fn, at[i])
    BY <2>3, CarriesOn
  <2>5. ~at[i].reported
    BY <2>2 DEF Moves
  <2> HIDE DEF NN
  <2> QED
    BY <2>2, <2>3, <2>4, <2>5
<1>6. a.to \in [{"break", "continue"} -> Flows]
  BY RightWalks
<1> DEFINE cs == [i \in 1..n |-> Ctx(a, a.to, at[i - 1].flow, FALSE)]
           steps == [i \in DOMAIN s.stmts |-> S(s.stmts[i])]
<1>7. ASSUME NEW i \in 1..n
      PROVE  /\ Right(p, cs[i]) /\ cs[i].fn = a.fn /\ cs[i].flow = at[i - 1].flow /\ cs[i].to = a.to
             /\ cs[i].kept = a.kept /\ ~cs[i].sure
  <2>1. i - 1 \in 0..n
    BY <1>2
  <2>2. Carries(a.fn, at[i - 1]) /\ at[i - 1] \in Walks
    BY <1>4, <1>5, <2>1
  <2>3. PICK no, f, to : /\ no \in BOOLEAN /\ f \in Flows
                            /\ no = FALSE /\ f = at[i - 1].flow /\ to = a.to
    BY <2>2, WalkFields
  <2>4. PICK c : c = Ctx(a, to, f, no)
    OBVIOUS
  <2>5. Right(p, c) /\ c.fn = a.fn /\ c.flow = f /\ c.to = to /\ c.kept = a.kept /\ c.sure = no
    BY <1>6, <2>2, <2>3, <2>4, CtxRight DEF Carries
  <2>6. cs[i] = c
    BY <2>3, <2>4
  <2> QED
    BY <2>3, <2>5, <2>6
<1>8. steps \in Seq({S(s.stmts[i]) : i \in 1..n}) /\ Len(steps) = n
      /\ \A i \in 1..n : steps[i] = S(s.stmts[i])
  BY <1>2
<1>9. cs \in Seq(Contexts(p)) /\ Len(cs) = n
  <2>1. ASSUME NEW i \in 1..n PROVE cs[i] \in Contexts(p)
    <3>1. Right(p, cs[i])
      BY <1>7
    <3> HIDE DEF cs
    <3> QED
      BY <3>1 DEF Right
  <2>2. cs = [i \in 1..n |-> cs[i]]
    OBVIOUS
  <2> HIDE DEF cs
  <2> QED
    BY <1>2, <2>1, <2>2
<1>10. ASSUME NEW i \in 1..n, NEW c, Along(a, c), ~c.sure,
              Weaker(c.flow, at[i].flow)
       PROVE  Fits(p, S(s.stmts[i]), cs[i], c)
  <2>1. PICK x, u, v : x = s.stmts[i] /\ u = at[i - 1] /\ v = at[i]
    OBVIOUS
  <2>2. i - 1 \in 0..n /\ i \in 0..n
    BY <1>2
  <2>3. /\ x \in Inner(s) /\ x \in Nodes /\ u \in Walks /\ v = WalkStmt[x][u]
        /\ Carries(a.fn, u) /\ ~v.reported
    BY <1>1, <1>2, <1>4, <1>5, <2>1, <2>2
  <2>4. NN(0, i - 1) \cap Declared(x) = {}
    <3>1. \A j \in 1..(i - 1) : Named(s.stmts[j]) \cap Declared(s.stmts[i]) = {}
      BY <1>2, OrderFacts
    <3>2. 0 + 1 = 1
      OBVIOUS
    <3> QED
      BY <2>1, <3>1, <3>2
  <2>5. Declared(x) \subseteq D
    BY <2>3, NamesInside
  <2>6. Clear(u.flow, Declared(x))
    <3>1. Reaches(NN(0, i - 1), D, w, u.flow)
      BY <1>5, <2>1, <2>2
    <3>2. Clear(w.flow, Declared(x))
      BY <2>5, ClearsLess
    <3> HIDE DEF NN, D
    <3> QED
      BY <2>4, <3>1, <3>2, ClearsOn
  <2>7. Landed(v, JumpsOut[x], a.to)
    <3>1. JumpsOut[x] \subseteq JumpsOut[s]
      BY <2>3, JumpsOutAre
    <3>2. PICK N, J, L : N = NN(i, n) /\ J = JumpsOut[s] /\ L = JumpsOut[x]
      OBVIOUS
    <3>3. Moves(N, D, J, v, r) /\ v \in Walks /\ L \in SUBSET J
      BY <1>4, <1>5, <2>1, <2>2, <3>1, <3>2
    <3>4. Landed(r, J, a.to)
      BY <3>2
    <3> HIDE DEF D
    <3> QED
      BY <3>2, <3>3, <3>4, LandedBefore
  <2>8. /\ Along(cs[i], c) /\ x \in Inside[cs[i].fn.body] /\ Carries(cs[i].fn, u) /\ cs[i].flow = u.flow
        /\ cs[i].to = a.to
    BY <1>7, <1>10, <2>1, <2>3 DEF Along
  <2> HIDE DEF cs
  <2>9. Fits(p, S(x), cs[i], c)
    BY <1>10, <2>1, <2>3, <2>6, <2>7, <2>8, StmtFits
  <2> QED
    BY <2>1, <2>9
<1>11. ASSUME NEW i \in 1..n
       PROVE  Fits(p, steps[i], cs[i], IF i = n THEN b ELSE cs[i + 1])
  <2>1. CASE i = n
    <3>1. Along(a, b) /\ ~b.sure /\ Weaker(b.flow, at[i].flow)
      BY <1>4, <2>1
    <3>2. Fits(p, S(s.stmts[i]), cs[i], b)
      BY <1>10, <3>1
    <3> HIDE DEF cs, steps
    <3> QED
      BY <1>8, <2>1, <3>2
  <2>2. CASE i # n
    <3>1. i + 1 \in 1..n /\ (i + 1) - 1 = i
      BY <1>2, <2>2
    <3> HIDE DEF cs, steps
    <3>2. Along(a, cs[i + 1]) /\ ~cs[i + 1].sure /\ cs[i + 1].flow = at[i].flow
      BY <1>7, <3>1 DEF Along
    <3>3. Weaker(cs[i + 1].flow, at[i].flow)
      BY <3>2, WeakerFacts
    <3>4. Fits(p, S(s.stmts[i]), cs[i], cs[i + 1])
      BY <1>10, <3>2, <3>3
    <3> QED
      BY <1>8, <2>2, <3>4
  <2> QED
    BY <2>1, <2>2
<1> HIDE DEF cs, steps
<1>12. Chained(p, steps, cs, b)
  <2>1. IsSequence(steps)
    BY <1>8 DEF IsSequence
  <2> QED
    BY <1>7, <1>8, <1>9, <1>11, <2>1 DEF Chained
<1>13. Opens(IF steps = <<>> THEN b ELSE cs[1], a)
  <2>1. CASE n = 0
    <3>1. steps = <<>> /\ r = w
      BY <1>4, <1>8, <2>1
    <3> QED
      BY <3>1 DEF Opens, Along
  <2>2. CASE n # 0
    <3>1. 1 \in 1..n /\ 1 - 1 = 0 /\ steps # <<>>
      BY <1>2, <1>8, <2>2
    <3>2. cs[1].flow = at[1 - 1].flow /\ cs[1].fn = a.fn /\ cs[1].kept = a.kept /\ ~cs[1].sure
      BY <1>7, <3>1
    <3>3. cs[1].flow = a.flow
      BY <1>4, <3>1, <3>2
    <3> QED
      BY <3>1, <3>2, <3>3, WeakerFacts DEF Opens
  <2> QED
    BY <2>1, <2>2
<1>14. Expands(p, steps, a, b)
  BY <1>12, <1>13 DEF Expands
<1> QED
  BY <1>14 DEF steps

LEMMA DeclExpands ==
  ASSUME NEW p, NEW s, NEW a, NEW b, NEW w, NEW r, Running(p, s, a, b, w, r), s.k = "decl", a.flow.live
  PROVE  Expands(p, StmtSteps(s), a, b)
<1> USE DEF Running
<1>1. s.x \in Inner(s) /\ s.x \in Inside[a.fn.body] /\ s.v \in Names /\ s.v \in Locals(a.fn)
  BY PartsAre, NodeOf, NamesInside
<1>2. CASE s.x = Absent
  <2>1. PICK step : step = [do |-> "declare", s |-> s]
    OBVIOUS
  <2>2. StmtSteps(s) = <<step>>
    BY <1>2, <2>1 DEF StmtSteps
  <2>3. r.flow = [w.flow EXCEPT !.assigned = @ \ {s.v}]
    BY <1>2, DeclMoves
  <2>4. r.flow.live = w.flow.live /\ r.flow.assigned = w.flow.assigned \ {s.v}
    BY <2>3, WalkFields DEF Flows
  <2>5. ASSUME NEW c \in Contexts(p), c.fn = a.fn, c.kept = a.kept, c.to = a.to, c.flow = a.flow
        PROVE  Fits(p, step, c, b)
    <3>1. FitsDeclare(s, c, b)
      BY <2>4, <2>5 DEF FitsDeclare, Along, Weaker
    <3> QED
      BY <2>1, <3>1, FitsRecords
  <2>6. Expands(p, <<step>>, a, b)
    BY <2>5, AloneFits
  <2> QED
    BY <2>2, <2>6
<1>3. CASE s.x # Absent
  <2>1. PICK s1, s2, s3, x, v : /\ s1 = E(s.x) /\ s2 = [do |-> "store", v |-> s.v] /\ s3 = Step("drop")
                                /\ x = s.x /\ v = s.v
    OBVIOUS
  <2>2. StmtSteps(s) = <<s1, s2, s3>>
    BY <1>3, <2>1 DEF StmtSteps
  <2>3. PICK u : u = WalkExpr[x][w]
    OBVIOUS
  <2>4. r = Write(u, v) /\ (u.reported => r.reported)
    BY <1>3, <2>1, <2>3, DeclMoves
  <2>5. PICK to, no : to = a.to /\ no \in BOOLEAN /\ no = FALSE
    OBVIOUS
  <2>6. to \in [{"break", "continue"} -> Flows]
    BY <2>5, RightWalks
  <2>7. x \in Inside[a.fn.body] /\ ~u.reported /\ Carries(a.fn, w) /\ Good(p) /\ Right(p, a)
    BY <1>1, <2>1, <2>4
  <2>8. PICK c1, c2 : Walked(p, a, x, w, to, u, no, c1, c2)
    BY <2>3, <2>5, <2>6, <2>7, ExprWalked
  <2>9. /\ Right(p, c1) /\ c1.fn = a.fn /\ c1.kept = a.kept /\ ~c1.sure /\ c1.flow = a.flow
        /\ Right(p, c2) /\ c2.fn = a.fn /\ c2.kept = a.kept /\ c2.to = a.to /\ ~c2.sure
        /\ c2.flow = u.flow /\ Fits(p, s1, c1, c2) /\ Carries(a.fn, u)
    BY <2>1, <2>5, <2>8 DEF Walked
  <2>10. Carries(a.fn, r) /\ u \in Walks
    <3>1. u \in Walks
      BY <2>9 DEF Carries
    <3>2. Moves({v}, {}, {}, u, Write(u, v))
      BY <1>1, <2>1, <3>1, MovesWrite
    <3>3. r \in Walks /\ r.tracked = u.tracked /\ Reaches({v}, {}, u, r.flow)
      BY <2>4, <3>2 DEF Moves
    <3> QED
      BY <2>9, <3>1, <3>3, CarriesOn
  <2>11. PICK c3 : /\ Right(p, c3) /\ c3.fn = a.fn /\ c3.flow = r.flow /\ c3.to = to
                   /\ c3.kept = a.kept /\ ~c3.sure
    BY <2>6, <2>7, <2>10, CtxAt
  <2>12. Fits(p, s2, c2, c3)
    <3>1. /\ r.flow.live = u.flow.live
          /\ r.flow.assigned \subseteq u.flow.assigned \cup {v}
      BY <2>4, <2>10, WriteFields
    <3>2. FitsStore(v, c2, c3)
      BY <2>5, <2>9, <2>11, <3>1 DEF FitsStore, Along
    <3> QED
      BY <2>1, <3>2, FitsRecords
  <2>13. Fits(p, s3, c3, b)
    <3>1. Eases(c3, b)
      BY <2>5, <2>11 DEF Eases, Along
    <3> QED
      BY <2>1, <3>1, FitsAre
  <2>14. Opens(c1, a)
    BY <2>9, WeakerFacts DEF Opens
  <2> QED
    BY <2>2, <2>9, <2>11, <2>12, <2>13, <2>14, Expand3
<1> QED
  BY <1>2, <1>3

LEMMA PlainExpands ==
  ASSUME NEW p, NEW s, NEW a, NEW b, NEW w, NEW r, Running(p, s, a, b, w, r),
         s.k \in {"expr", "if", "return"}, a.flow.live
  PROVE  Expands(p, StmtSteps(s), a, b)
<1> USE DEF Running
<1>1. CASE s.k = "expr"
  <2>1. PICK step, y, u : step = Step("drop") /\ y = s.x /\ u = WalkExpr[y][w]
    OBVIOUS
  <2>2. StmtSteps(s) = <<E(y), step>>
    BY <1>1, <2>1 DEF StmtSteps
  <2>3. r = u /\ y \in Inside[a.fn.body]
    BY <1>1, <2>1, WalkStmtAt, PartsAre
  <2>4. ASSUME NEW c \in Contexts(p), Along(c, b), c.flow = u.flow
        PROVE  Fits(p, step, c, b)
    <3>1. Eases(c, b)
      BY <2>3, <2>4 DEF Eases
    <3> QED
      BY <2>1, <3>1, FitsAre
  <2>5. Expands(p, <<E(y), step>>, a, b)
    BY <2>1, <2>3, <2>4, OperandThen
  <2> QED
    BY <2>2, <2>5
<1>2. CASE s.k = "return"
  <2>1. PICK step, y, u, name : /\ name = "return" /\ step = [do |-> "leave", to |-> name]
                                /\ y = s.x /\ u = WalkExpr[y][w]
    OBVIOUS
  <2>2. StmtSteps(s) = <<E(y), step>>
    BY <1>2, <2>1 DEF StmtSteps
  <2>3. r = At(u, Dead) /\ y \in Inside[a.fn.body] /\ y \in Inner(s)
    BY <1>2, <2>1, WalkStmtAt, PartsAre
  <2>4. u \in Walks
    BY <2>1, <2>3, PartMoves
  <2>5. r.reported = u.reported
    BY <2>3, <2>4 DEF At, Walks
  <2>6. ASSUME NEW c \in Contexts(p), Along(c, b)
        PROVE  Fits(p, step, c, b)
    <3>1. FitsLeave(name, c, b)
      BY <2>1, <2>6 DEF FitsLeave
    <3> QED
      BY <2>1, <3>1, FitsRecords
  <2>7. Expands(p, <<E(y), step>>, a, b)
    BY <2>1, <2>3, <2>5, <2>6, OperandThen
  <2> QED
    BY <2>2, <2>7
<1>3. CASE s.k = "if"
  <2>1. PICK step, y, u : step = Test(s) /\ y = s.c /\ u = WalkExpr[y][w]
    OBVIOUS
  <2>2. StmtSteps(s) = <<E(y), step>>
    BY <1>3, <2>1 DEF StmtSteps
  <2>3. r = WalkArms(WalkStmt, u, s.then, s.els) /\ y \in Inside[a.fn.body] /\ y \in Inner(s)
        /\ s.then \in Inner(s) /\ s.els \in Inner(s)
    BY <1>3, <2>1, WalkStmtAt, PartsAre
  <2>4. PICK N, D, J : N = Named(s) /\ D = Declared(s) /\ J = JumpsOut[s]
    OBVIOUS
  <2>5. \A v \in Walks : Moves(N, D, J, v, WalkStmt[s.then][v]) /\ Moves(N, D, J, v, WalkStmt[s.els][v])
    <3> SUFFICES ASSUME NEW v \in Walks, NEW q \in Inner(s)
                 PROVE  Moves(N, D, J, v, WalkStmt[q][v])
      BY <2>3
    <3>1. Moves(Named(q), Declared(q), JumpsOut[q], v, WalkStmt[q][v])
      BY WalkStmtFacts
    <3>2. Named(q) \in SUBSET N /\ Declared(q) \in SUBSET D /\ JumpsOut[q] \in SUBSET J
      BY <1>3, <2>4, NamesInside, JumpsOutAre
    <3> QED
      BY <3>1, <3>2, MovesMore
  <2>6. Moves(Named(s), {}, {}, w, u) /\ u \in Walks
    BY <2>1, <2>3, PartMoves
  <2>7. \E then, els : ArmsFit(WalkStmt, N, D, J, u, s.then, s.els, r, then, els)
    BY <2>3, <2>5, <2>6, ArmsMove
  <2>8. ~u.reported
    BY <2>7 DEF ArmsFit, Moves
  <2>9. Clear(u.flow, Declared(s.then)) /\ Clear(u.flow, Declared(s.els))
    <3>1. Moves(Named(y), {}, {}, w, u)
      BY <2>1, <2>3, WalkExprMoves
    <3>2. Reaches(Named(y), {}, w, u.flow)
      BY <3>1 DEF Moves
    <3>3. Named(y) \cap Declared(s.then) = {} /\ Named(y) \cap Declared(s.els) = {}
      BY <1>3, <2>1, OrderFacts
    <3>4. Declared(s.then) \subseteq Declared(s) /\ Declared(s.els) \subseteq Declared(s)
      BY <2>3, NamesInside
    <3>5. Clear(w.flow, Declared(s.then)) /\ Clear(w.flow, Declared(s.els))
      BY <3>4, ClearsLess
    <3> QED
      BY <3>2, <3>3, <3>5, ClearsOn
  <2>10. ASSUME NEW c \in Contexts(p), Along(c, b), c.flow = u.flow, Carries(a.fn, u)
         PROVE  Fits(p, step, c, b)
    <3>1. c.fn = a.fn /\ c.to = a.to
      BY <2>10 DEF Along
    <3>2. FitsIf(s, c, b)
      BY <2>3, <2>9, <2>10, <3>1 DEF FitsIf
    <3>3. FitsTest(s, c, b)
      BY <1>3, <2>10, <3>1, <3>2 DEF FitsTest
    <3> QED
      BY <2>1, <3>3, FitsAre
  <2>11. Expands(p, <<E(y), step>>, a, b)
    BY <2>1, <2>3, <2>8, <2>10, OperandThen
  <2> QED
    BY <2>2, <2>11
<1> QED
  BY <1>1, <1>2, <1>3

LEMMA JumpExpands ==
  ASSUME NEW p, NEW s, NEW a, NEW b, NEW w, NEW r, Running(p, s, a, b, w, r),
         s.k \in {"break", "continue"}, a.flow.live
  PROVE  Expands(p, StmtSteps(s), a, b)
<1> USE DEF Running
<1>1. PICK name \in {"break", "continue"} : name = s.k
  OBVIOUS
<1>2. PICK step : step = [do |-> "leave", to |-> name]
  OBVIOUS
<1>3. StmtSteps(s) = <<step>>
  BY <1>1, <1>2 DEF StmtSteps
<1>4. r = IF name = "break" THEN BreakTo(w) ELSE ContinueTo(w)
  BY <1>1, WalkStmtAt
<1>5. Landed(r, {name}, a.to)
  BY <1>1, JumpsOutAre
<1>6. Moves({}, {}, {name}, w, r) /\ Jumped(name, w, r)
  BY <1>4, MovesJump
<1>7. Len(r.jumps) = Len(w.jumps) /\ r \in Walks
  BY <1>6 DEF Moves
<1>8. LoopOf(r.jumps) = LoopOf(w.jumps)
  BY <1>6, LoopOfSame
<1>9. Weaker(a.to[name], w.flow)
  <2>1. CASE name = "break"
    <3>1. r.jumps # <<>> /\ \A f \in Top(r).breaks : Weaker(a.to["break"], f)
      BY <1>5, <2>1 DEF Landed
    <3>2. Len(w.jumps) \in DOMAIN w.jumps
      BY <1>7, <3>1, WalkFields
    <3>3. w.flow \in Top(r).breaks
      BY <1>6, <1>7, <2>1, <3>2 DEF Top, Jumped
    <3> QED
      BY <2>1, <3>1, <3>3
  <2>2. CASE name = "continue"
    BY <1>5, <1>6, <1>8, <2>2 DEF Landed, Jumped
  <2> QED
    BY <2>1, <2>2
<1>10. ASSUME NEW c \in Contexts(p), c.fn = a.fn, c.kept = a.kept, c.to = a.to, c.flow = a.flow
       PROVE  Fits(p, step, c, b)
  <2>1. FitsLeave(name, c, b)
    BY <1>9, <1>10 DEF FitsLeave, Along
  <2> QED
    BY <1>2, <2>1, FitsRecords
<1>11. Expands(p, <<step>>, a, b)
  BY <1>10, AloneFits
<1> QED
  BY <1>3, <1>11

LEMMA LoopExpands ==
  ASSUME NEW p, NEW s, NEW a, NEW b, NEW w, NEW r, Running(p, s, a, b, w, r), IsLoop(s), a.flow.live
  PROVE  Expands(p, StmtSteps(s), a, b)
<1> USE DEF Running
<1>1. PICK name \in {"break", "continue"} : name = "break"
  OBVIOUS
<1>2. PICK to : to = [a.to EXCEPT ![name] = b.flow]
  OBVIOUS
<1>3. a.fn = b.fn /\ a.kept = b.kept /\ a.to = b.to
  BY DEF Along
<1>4. /\ to \in [{"break", "continue"} -> Flows] /\ to[name] = b.flow
      /\ \A c : c.fn = a.fn /\ c.kept = a.kept /\ c.to = to /\ Weaker(b.flow, c.flow)
                  => Fits(p, Mark(name), c, b)
  <2>1. Right(p, a) /\ Right(p, b) /\ ~b.sure
    OBVIOUS
  <2>2. Marked(p, a, b, name, to)
    BY <1>2, <1>3, <2>1, MarkFits
  <2> QED
    BY <2>2 DEF Marked
<1>5. PICK last : /\ Right(p, last) /\ last.fn = a.fn /\ last.flow = b.flow /\ last.to = to
                  /\ last.kept = a.kept /\ ~last.sure
  BY <1>3, <1>4, CtxOf
<1>6. Fits(p, Mark(name), last, b)
  BY <1>4, <1>5, WeakerFacts
<1>7. s.body \in Inner(s) /\ s.c \in Inner(s)
  BY PartsAre DEF IsLoop
<1>8. Declared(s.body) \subseteq Declared(s)
  BY <1>7, NamesInside
(* The rounds, from the walk v that heads them. *)
<1>9. ASSUME NEW v, Carries(a.fn, v), Clear(v.flow, Declared(s.body)), Rounds(s, v) = r,
             NEW c, c.fn = a.fn, c.kept = a.kept, c.to = to, c.flow = v.flow
      PROVE  Fits(p, Again(s), c, last)
  <2>1. FitsLoop(s, v, c, last)
    BY <1>1, <1>4, <1>5, <1>9 DEF FitsLoop, Along
  <2>2. FitsAgain(s, c, last)
    BY <1>9, <2>1, WeakerFacts DEF FitsAgain
  <2> QED
    BY <2>2, FitsAre
<1>10. CASE s.k \in {"while", "do"}
  <2>1. StmtSteps(s) = <<Again(s), Mark(name)>>
    BY <1>1, <1>10 DEF StmtSteps
  <2>2. Rounds(s, w) = r
    BY <1>10, WalkStmtAt DEF Rounds
  <2>3. Clear(w.flow, Declared(s.body))
    BY <1>8, ClearsLess
  <2>4. PICK c1 : /\ Right(p, c1) /\ c1.fn = a.fn /\ c1.flow = w.flow /\ c1.to = to
                  /\ c1.kept = a.kept /\ ~c1.sure
    BY <1>4, CtxAt
  <2>5. Fits(p, Again(s), c1, last)
    BY <1>9, <2>2, <2>3, <2>4
  <2>6. Opens(c1, a)
    BY <2>4, WeakerFacts DEF Opens
  <2>7. PICK s1, s2 : s1 = Again(s) /\ s2 = Mark(name)
    OBVIOUS
  <2>8. Expands(p, <<s1, s2>>, a, b)
    BY <1>5, <1>6, <2>4, <2>5, <2>6, <2>7, Expand2
  <2> QED
    BY <2>1, <2>7, <2>8
<1>11. CASE s.k = "for"
  <2>1. PICK i, u, v : i = s.init /\ u = WalkStmt[i][w] /\ v = WalkExpr[s.c][u]
    OBVIOUS
  <2>2. StmtSteps(s) = <<S(i), Again(s), Mark(name)>>
    BY <1>1, <1>11, <2>1 DEF StmtSteps
  <2>3. r = WalkRounds(WalkStmt, v, s) /\ Rounds(s, u) = r
    BY <1>11, <2>1, WalkStmtAt DEF Rounds
  <2>4. i \in Inner(s) /\ i \in Nodes /\ i \in Inside[a.fn.body]
    BY <1>11, <2>1, PartsAre
  <2>5. /\ Moves(Named(i), Declared(i), JumpsOut[i], w, u) /\ u \in Walks /\ u.tracked = w.tracked
    BY <2>1, <2>4, WalkStmtFacts
  <2>6. Reaches(Named(i), Declared(i), w, u.flow)
    BY <2>5 DEF Moves
  <2>7. Carries(a.fn, u)
    BY <2>5, <2>6, CarriesOn
  <2>8. v \in Walks /\ (u.reported => v.reported)
    BY <1>7, <2>1, <2>5, PartMoves
  <2>9. StmtMoves(s.body)
    BY <1>7, WalkStmtMoves
  <2>10. RoundBody(v, s).reported => r.reported
    BY <1>11, <2>3, <2>8, <2>9, RoundsFacts
  <2>11. v.reported => RoundBody(v, s).reported
    <3>1. PICK body : body = RoundBody(v, s)
      OBVIOUS
    <3>2. v.reported => body.reported
      BY <2>8, <2>9, <3>1, BodyFacts
    <3> QED
      BY <3>1, <3>2
  <2>12. ~u.reported
    BY <2>8, <2>10, <2>11
  <2>13. Named(i) \cap Declared(s.body) = {} /\ Declared(i) \subseteq Declared(s)
    BY <1>11, <2>1, <2>4, OrderFacts, NamesInside
  <2>14. Clear(w.flow, Declared(s.body)) /\ Clear(w.flow, Declared(i))
    BY <1>8, <2>13, ClearsLess
  <2>15. Clear(u.flow, Declared(s.body))
    BY <2>6, <2>13, <2>14, ClearsOn
  <2>16. JumpsOut[i] = {}
    <3>1. Shaped(s)
      BY NodeFacts
    <3>2. i.k \in {"decl", "expr", "absent"}
      BY <1>11, <2>1, <3>1 DEF Shaped
    <3> QED
      BY <2>4, <3>2, JumpsOutAre
  <2>17. PICK c1 : /\ Right(p, c1) /\ c1.fn = a.fn /\ c1.flow = w.flow /\ c1.to = to
                   /\ c1.kept = a.kept /\ ~c1.sure
    BY <1>4, CtxAt
  <2>18. PICK c2 : /\ Right(p, c2) /\ c2.fn = a.fn /\ c2.flow = u.flow /\ c2.to = to
                   /\ c2.kept = a.kept /\ ~c2.sure
    BY <1>4, <2>7, CtxAt
  <2>19. Fits(p, S(i), c1, c2)
    <3>1. Along(c1, c2) /\ Weaker(c2.flow, u.flow)
      BY <2>17, <2>18, WeakerFacts DEF Along
    <3>2. Landed(u, JumpsOut[i], c1.to)
      BY <2>16 DEF Landed
    <3>3. Carries(c1.fn, w) /\ Clear(c1.flow, Declared(i)) /\ i \in Inside[c1.fn.body]
          /\ ~WalkStmt[i][w].reported
      BY <2>1, <2>4, <2>12, <2>14, <2>17
    <3> QED
      BY <2>1, <2>17, <2>18, <3>1, <3>2, <3>3, StmtFits
  <2>20. Fits(p, Again(s), c2, last)
    BY <1>9, <2>3, <2>7, <2>15, <2>18
  <2>21. Opens(c1, a)
    BY <2>17, WeakerFacts DEF Opens
  <2>22. PICK s1, s2, s3 : s1 = S(i) /\ s2 = Again(s) /\ s3 = Mark(name)
    OBVIOUS
  <2>23. Expands(p, <<s1, s2, s3>>, a, b)
    BY <1>5, <1>6, <2>17, <2>18, <2>19, <2>20, <2>21, <2>22, Expand3
  <2> QED
    BY <2>2, <2>22, <2>23
<1> QED
  BY <1>10, <1>11 DEF IsLoop

LEMMA SwitchExpands ==
  ASSUME NEW p, NEW s, NEW a, NEW b, NEW w, NEW r, Running(p, s, a, b, w, r), s.k = "switch", a.flow.live
  PROVE  Expands(p, StmtSteps(s), a, b)
<1> USE DEF Running
<1>1. PICK name \in {"break", "continue"} : name = "break"
  OBVIOUS
<1>2. PICK to : to = [a.to EXCEPT ![name] = b.flow]
  OBVIOUS
<1>3. a.fn = b.fn /\ a.kept = b.kept /\ a.to = b.to
  BY DEF Along
<1>4. /\ to \in [{"break", "continue"} -> Flows] /\ to[name] = b.flow
      /\ \A other \in {"break", "continue"} : other # name => to[other] = a.to[other]
      /\ \A c : c.fn = a.fn /\ c.kept = a.kept /\ c.to = to /\ Weaker(b.flow, c.flow)
                  => Fits(p, Mark(name), c, b)
  <2>1. Right(p, a) /\ Right(p, b) /\ ~b.sure
    OBVIOUS
  <2>2. Marked(p, a, b, name, to)
    BY <1>2, <1>3, <2>1, MarkFits
  <2> QED
    BY <2>2 DEF Marked
<1>5. PICK last : /\ Right(p, last) /\ last.fn = a.fn /\ last.flow = b.flow /\ last.to = to
                  /\ last.kept = a.kept /\ ~last.sure
  BY <1>3, <1>4, CtxOf
<1>6. Fits(p, Mark(name), last, b)
  BY <1>4, <1>5, WeakerFacts
<1>7. PICK tag, u : tag = s.tag /\ u = WalkExpr[tag][w]
  OBVIOUS
<1>8. r = WalkSwitch(WalkStmt, u, s) /\ tag \in Inner(s) /\ tag \in Nodes /\ tag \in Inside[a.fn.body]
  BY <1>7, WalkStmtAt, ArmsAre
<1>9. u \in Walks
  BY <1>7, <1>8, PartMoves
<1>10. \A q \in Inner(s) : StmtMoves(q)
  BY WalkStmtMoves
<1>11. PICK starts, all : SwitchFits(s, u, starts, all, r)
  BY <1>8, <1>9, <1>10, SwitchFacts
<1>12. ~u.reported
  BY <1>11 DEF SwitchFits, Moves
<1>13. Clear(u.flow, ArmsDeclare(s))
  <2>1. Moves(Named(tag), {}, {}, w, u)
    BY <1>7, <1>8, WalkExprMoves
  <2>2. Reaches(Named(tag), {}, w, u.flow)
    BY <2>1 DEF Moves
  <2>3. Named(tag) \cap ArmsDeclare(s) = {}
    BY <1>7, OrderFacts DEF ArmsDeclare
  <2>4. ArmsDeclare(s) \subseteq Declared(s)
    BY ArmsAre, NamesInside DEF ArmsDeclare
  <2>5. Clear(w.flow, ArmsDeclare(s))
    BY <2>4, ClearsLess
  <2> QED
    BY <2>2, <2>3, <2>5, ClearsOn
<1>14. Landed(r, JumpsOut[s], to)
  <2>1. "break" \notin JumpsOut[s] /\ JumpsOut[s] \subseteq {"break", "continue"}
    BY JumpsOutAre
  <2>2. \A j \in JumpsOut[s] : to[j] = a.to[j]
    BY <1>1, <1>4, <2>1
  <2> QED
    BY <2>2, LandedSame
<1>15. PICK no \in BOOLEAN : no = FALSE
  OBVIOUS
<1>16. PICK c1, c2 : Walked(p, a, tag, w, to, u, no, c1, c2)
  BY <1>4, <1>7, <1>8, <1>12, <1>15, ExprWalked
<1>17. /\ Right(p, c1) /\ c1.fn = a.fn /\ c1.kept = a.kept /\ ~c1.sure /\ c1.flow = a.flow
       /\ Right(p, c2) /\ c2.fn = a.fn /\ c2.kept = a.kept /\ c2.to = to /\ ~c2.sure
       /\ c2.flow = u.flow /\ Fits(p, E(tag), c1, c2) /\ Carries(a.fn, u)
  BY <1>15, <1>16 DEF Walked
<1>18. PICK s1, s2, s3 : s1 = E(tag) /\ s2 = [do |-> "select", s |-> s] /\ s3 = Mark(name)
  OBVIOUS
<1>19. StmtSteps(s) = <<s1, s2, s3>>
  BY <1>1, <1>7, <1>18 DEF StmtSteps
<1>20. Fits(p, s2, c2, last)
  <2>1. Weaker(last.flow, r.flow) /\ Along(c2, last)
    BY <1>5, <1>17 DEF Along
  <2>2. FitsSelect(s, c2, last)
    BY <1>1, <1>4, <1>5, <1>8, <1>13, <1>14, <1>17, <2>1 DEF FitsSelect
  <2> QED
    BY <1>18, <2>2, FitsRecords
<1>21. Opens(c1, a)
  BY <1>17, WeakerFacts DEF Opens
<1>22. Expands(p, <<s1, s2, s3>>, a, b)
  BY <1>5, <1>6, <1>17, <1>18, <1>20, <1>21, Expand3
<1> QED
  BY <1>19, <1>22

LEMMA StmtExpands ==
  ASSUME NEW p, Good(p), NEW a, Right(p, a), NEW b, Right(p, b), NEW s, FitsStmt(s, a, b), a.flow.live
  PROVE  Expands(p, StmtSteps(s), a, b)
<1>1. a.fn \in FunctionsOf(p) /\ s \in Inside[a.fn.body] /\ Along(a, b) /\ ~b.sure
  BY ContextFields DEF Right, FitsStmt
<1>2. s \in Nodes /\ Inner(s) \subseteq Inside[a.fn.body] /\ Inner(s) \subseteq Nodes
  BY <1>1, NodeOf
<1>3. PICK w : /\ Carries(a.fn, w) /\ w.flow = a.flow
               /\ ~WalkStmt[s][w].reported /\ Weaker(b.flow, WalkStmt[s][w].flow)
               /\ Landed(WalkStmt[s][w], JumpsOut[s], a.to)
  BY DEF FitsStmt
<1>4. PICK r : r = WalkStmt[s][w]
  OBVIOUS
<1>5. Running(p, s, a, b, w, r)
  BY <1>1, <1>2, <1>3, <1>4 DEF Running, FitsStmt, Carries
<1>6. CASE s.k = "block"
  BY <1>5, <1>6, BlockExpands DEF StmtSteps
<1>7. CASE s.k = "decl"
  BY <1>5, <1>7, DeclExpands
<1>8. CASE s.k \in {"expr", "if", "return"}
  BY <1>5, <1>8, PlainExpands
<1>9. CASE s.k \in {"break", "continue"}
  BY <1>5, <1>9, JumpExpands
<1>10. CASE s.k \in {"while", "do", "for"}
  BY <1>5, <1>10, LoopExpands DEF IsLoop
<1>11. CASE s.k = "switch"
  BY <1>5, <1>11, SwitchExpands
<1>12. CASE s.k \notin {"block", "decl", "expr", "if", "return", "break", "continue", "while", "do",
                        "for", "switch"}
  <2>1. StmtSteps(s) = <<>>
    BY <1>12 DEF StmtSteps
  <2>2. r = w
    BY <1>2, <1>4, <1>5, <1>12, WalkStmtAt DEF Running
  <2>3. Opens(b, a)
    BY <1>1, <1>3, <1>4, <2>2 DEF Opens, Along
  <2> QED
    BY <2>1, <2>3, Expand0
<1> QED
  BY <1>6, <1>7, <1>8, <1>9, <1>10, <1>11, <1>12

-----------------------------------------------------------------------------
(* Loops and conditions *)

(* A loop s that the walk w heads, on top: what its rounds come to. *)
Looping(p, s, a, b, w) ==
  /\ Good(p) /\ Right(p, a) /\ Right(p, b) /\ Along(a, b) /\ ~b.sure
  /\ a.fn \in FunctionsOf(p) /\ s \in Inside[a.fn.body] /\ s \in Nodes /\ IsLoop(s)
  /\ Inner(s) \subseteq Inside[a.fn.body] /\ Inner(s) \subseteq Nodes
  /\ s.body \in Inner(s) /\ s.c \in Inner(s) /\ StmtMoves(s.body)
  /\ FitsLoop(s, w, a, b) /\ w \in Walks

LEMMA LoopingIs ==
  ASSUME NEW p, Good(p), NEW a, Right(p, a), NEW b, Right(p, b), NEW s, NEW w, FitsLoop(s, w, a, b)
  PROVE  Looping(p, s, a, b, w)
<1>1. a.fn \in FunctionsOf(p) /\ s \in Inside[a.fn.body] /\ IsLoop(s) /\ Along(a, b) /\ ~b.sure
  BY ContextFields DEF Right, FitsLoop
<1>2. s \in Nodes /\ Inner(s) \subseteq Inside[a.fn.body] /\ Inner(s) \subseteq Nodes
  BY <1>1, NodeOf
<1>3. s.body \in Inner(s) /\ s.c \in Inner(s)
  BY <1>1, <1>2, PartsAre DEF IsLoop
<1>4. StmtMoves(s.body)
  BY <1>2, <1>3, WalkStmtMoves
<1> QED
  BY <1>1, <1>2, <1>3, <1>4 DEF Looping, FitsLoop, Carries

(* Only the function and where it leads matter of the context ahead. *)
LEMMA LoopAlong ==
  ASSUME NEW s, NEW w, NEW a, NEW b, FitsLoop(s, w, a, b), NEW c, c.fn = a.fn, c.kept = a.kept, c.to = a.to
  PROVE  FitsLoop(s, w, c, b) /\ Along(c, b)
  BY DEF FitsLoop, Along

(* Back to a state reached from w in which nothing that D declares was assigned. *)
LEMMA ReachedBack ==
  ASSUME NEW N, NEW D, NEW w, NEW f, Reaches(N, D, w, f), Clear(w.flow, D)
  PROVE  Weaker(w.flow, f)
  BY DEF Reaches, Clear, Weaker

(* The condition, from the walk v before it. *)
CondContexts(p, s, a, v, c1, c2) ==
  /\ Right(p, c1) /\ c1.fn = a.fn /\ c1.kept = a.kept /\ c1.to = a.to /\ ~c1.sure /\ c1.flow = v.flow
  /\ Right(p, c2) /\ c2.fn = a.fn /\ c2.kept = a.kept /\ c2.to = a.to
  /\ c2.flow = WalkExpr[s.c][v].flow /\ (AlwaysTrue(s.c) => c2.sure)
  /\ Fits(p, CondSteps(s)[1], c1, c2)

LEMMA CondWalked ==
  ASSUME NEW p, NEW s, NEW a, NEW b, NEW w, Looping(p, s, a, b, w),
         NEW v, Carries(a.fn, v), ~WalkExpr[s.c][v].reported
  PROVE  \E c1, c2 : CondContexts(p, s, a, v, c1, c2)
<1> USE DEF Looping
<1>1. PICK to, x, u : to = a.to /\ x = s.c /\ u = WalkExpr[x][v]
  OBVIOUS
<1>2. to \in [{"break", "continue"} -> Flows] /\ v \in Walks /\ x \in Nodes /\ x \in Inside[a.fn.body]
  BY <1>1, RightWalks DEF Carries
<1>3. CASE x.k = "absent"
  <2>1. u = v
    BY <1>1, <1>2, <1>3, WalkExprAt
  <2>2. PICK c1 : /\ Right(p, c1) /\ c1.fn = a.fn /\ c1.flow = v.flow /\ c1.to = to
                  /\ c1.kept = a.kept /\ ~c1.sure
    BY <1>2, CtxAt
  <2>3. PICK f \in Flows, yes \in BOOLEAN : f = v.flow /\ yes = TRUE
    BY <1>2, WalkFields
  <2>35. Right(p, a) /\ (f.live => f.assigned \subseteq Tracked(a.fn.body))
    BY <2>3 DEF Carries
  <2>4. PICK c2 : c2 = Ctx(a, to, f, yes)
    OBVIOUS
  <2>5. Right(p, c2) /\ c2.fn = a.fn /\ c2.flow = f /\ c2.to = to /\ c2.kept = a.kept /\ c2.sure = yes
    BY <1>2, <2>35, <2>4, CtxRight
  <2>6. CondSteps(s)[1] = Number(1)
    BY <1>1, <1>3 DEF CondSteps
  <2>7. Eases(c1, c2) /\ (c2.sure => 1 # 0)
    BY <2>2, <2>3, <2>5, WeakerFacts DEF Eases, Along
  <2>8. Fits(p, Number(1), c1, c2)
    BY <2>7, FitsAre
  <2> QED
    BY <1>1, <2>1, <2>2, <2>3, <2>5, <2>6, <2>8 DEF CondContexts
<1>4. CASE x.k # "absent"
  <2>1. PICK y \in BOOLEAN : y = AlwaysTrue(x)
    BY DEF AlwaysTrue
  <2>2. y => Literal(x)
    BY <1>4, <2>1 DEF AlwaysTrue, Literal
  <2>3. PICK c1, c2 : Walked(p, a, x, v, to, u, y, c1, c2)
    BY <1>1, <1>2, <2>2, ExprWalked
  <2>4. CondSteps(s)[1] = E(x)
    BY <1>1, <1>4 DEF CondSteps
  <2> QED
    BY <1>1, <2>1, <2>3, <2>4 DEF Walked, CondContexts
<1> QED
  BY <1>3, <1>4

LEMMA CondStepsAre ==
  ASSUME NEW s
  PROVE  CondSteps(s) = <<CondSteps(s)[1], Test(s)>>
<1>1. CASE s.c.k = "absent"
  BY <1>1 DEF CondSteps
<1>2. CASE s.c.k # "absent"
  BY <1>2 DEF CondSteps
<1> QED
  BY <1>1, <1>2

LEMMA TwoAndTwo ==
  \A a, b, c, d : <<a, b>> \o <<c, d>> = <<a, b, c, d>>
<1> SUFFICES ASSUME NEW a, NEW b, NEW c, NEW d
             PROVE  <<a, b>> \o <<c, d>> = <<a, b, c, d>>
  OBVIOUS
<1>1. PICK s, t, j, A : s = <<a, b>> /\ t = <<c, d>> /\ j = <<a, b, c, d>> /\ A = {a, b, c, d}
  OBVIOUS
<1>15. a \in A /\ b \in A /\ c \in A /\ d \in A
  BY <1>1
<1>2. s \in Seq(A) /\ t \in Seq(A) /\ j \in Seq(A)
      /\ Len(s) = 2 /\ Len(t) = 2 /\ Len(j) = 4
      /\ s[1] = a /\ s[2] = b /\ t[1] = c /\ t[2] = d
      /\ j[1] = a /\ j[2] = b /\ j[3] = c /\ j[4] = d
  BY <1>1, <1>15
<1>3. s \o t \in Seq(A) /\ Len(s \o t) = 4
      /\ \A i \in 1..4 : (s \o t)[i] = IF i <= 2 THEN s[i] ELSE t[i - 2]
  <2>1. PICK n, m : n = Len(s) /\ m = Len(t)
    OBVIOUS
  <2>2. n = 2 /\ m = 2 /\ n + m = 4
    BY <1>2, <2>1
  <2>3. s \o t \in Seq(A) /\ Len(s \o t) = Len(s) + Len(t)
        /\ \A i \in 1..(Len(s) + Len(t)) : (s \o t)[i] = IF i <= Len(s) THEN s[i] ELSE t[i - Len(s)]
    BY <1>2, ConcatProperties
  <2> QED
    BY <2>1, <2>2, <2>3
<1>4. \A i \in 1..4 : i = 1 \/ i = 2 \/ i = 3 \/ i = 4
  OBVIOUS
<1>5. \A i \in 1..4 : (s \o t)[i] = j[i]
  BY <1>2, <1>3, <1>4
<1>6. s \o t = j
  BY <1>2, <1>3, <1>5, SeqEqual
<1> QED
  BY <1>1, <1>6

(* The body of s, walked from c under a frame of its own, between two       *)
(* contexts whose second is where a continue leads.                        *)
LEMMA BodyRuns ==
  ASSUME NEW p, NEW s, NEW a, NEW b, NEW w, Looping(p, s, a, b, w),
         NEW c, Carries(a.fn, c), Clear(c.flow, Declared(s.body)),
         NEW d, d = RoundBody(c, s), ~d.reported,
         NEW e, Right(p, e), e.fn = a.fn, e.kept = a.kept, e.to = a.to, ~e.sure,
         \A f \in Top(d).continues \cup {d.flow} : Weaker(e.flow, f),
         \A f \in Top(d).breaks : Weaker(b.flow, f)
  PROVE  \E c1, c2 : /\ Right(p, c1) /\ c1.fn = a.fn /\ c1.kept = a.kept /\ ~c1.sure /\ c1.flow = c.flow
                     /\ Right(p, c2)
                     /\ Fits(p, S(s.body), c1, c2) /\ Fits(p, Mark("continue"), c2, e)
<1> USE DEF Looping
<1>1. PICK name \in {"break", "continue"} : name = "continue"
  OBVIOUS
<1>2. PICK to : to = [a.to EXCEPT ![name] = e.flow]
  OBVIOUS
<1>3. Marked(p, a, e, name, to)
  BY <1>2, MarkFits
<1>4. to \in [{"break", "continue"} -> Flows] /\ to["continue"] = e.flow /\ to["break"] = b.flow
  BY <1>1, <1>3 DEF Marked, FitsLoop
<1>5. PICK c1 : /\ Right(p, c1) /\ c1.fn = a.fn /\ c1.flow = c.flow /\ c1.to = to
                /\ c1.kept = a.kept /\ ~c1.sure
  BY <1>4, CtxAt
<1>6. PICK c2 : /\ Right(p, c2) /\ c2.fn = a.fn /\ c2.flow = e.flow /\ c2.to = to
                /\ c2.kept = a.kept /\ ~c2.sure
  BY <1>4, CtxOf
<1>7. c \in Walks
  BY DEF Carries
<1>8. PICK v : v = Push(c, TRUE)
  OBVIOUS
<1>9. /\ v \in Walks /\ v.flow = c.flow /\ v.tracked = c.tracked /\ d = WalkStmt[s.body][v]
      /\ Len(d.jumps) # 0 /\ LoopOf(d.jumps) = {Len(d.jumps)}
  <2>1. /\ Push(c, TRUE) \in Walks /\ Push(c, TRUE).flow = c.flow /\ Push(c, TRUE).tracked = c.tracked
        /\ Len(d.jumps) # 0 /\ LoopOf(d.jumps) = {Len(d.jumps)}
    BY <1>7, BodyFacts
  <2> QED
    BY <1>8, <2>1 DEF RoundBody
<1>10. Carries(c1.fn, v)
  BY <1>5, <1>9 DEF Carries
<1>11. Landed(d, JumpsOut[s.body], to)
  <2>1. d.jumps # <<>>
    BY <1>9
  <2> QED
    BY <1>4, <1>9, <2>1 DEF Landed, Top
<1>12. Fits(p, S(s.body), c1, c2)
  <2>1. Along(c1, c2) /\ s.body \in Inside[c1.fn.body] /\ Clear(c1.flow, Declared(s.body))
        /\ Weaker(c2.flow, d.flow) /\ v.flow = c1.flow /\ Landed(d, JumpsOut[s.body], c1.to)
    BY <1>5, <1>6, <1>9, <1>11 DEF Along
  <2> QED
    BY <1>6, <1>9, <1>10, <2>1, StmtFits
<1>13. Fits(p, Mark("continue"), c2, e)
  BY <1>1, <1>3, <1>6, WeakerFacts DEF Marked
<1> QED
  BY <1>5, <1>6, <1>12, <1>13

LEMMA AgainExpands ==
  ASSUME NEW p, Good(p), NEW a, Right(p, a), NEW b, Right(p, b), NEW s, FitsAgain(s, a, b)
  PROVE  Expands(p, Round(s), a, b)
<1>1. PICK w : FitsLoop(s, w, a, b) /\ Weaker(w.flow, a.flow)
  BY DEF FitsAgain
<1>2. Looping(p, s, a, b, w)
  BY <1>1, LoopingIs
<1> USE DEF Looping
<1>3. ~Rounds(s, w).reported /\ Carries(a.fn, w) /\ Clear(w.flow, Declared(s.body))
      /\ b.flow = a.to["break"] /\ Weaker(b.flow, Rounds(s, w).flow)
  BY <1>1 DEF FitsLoop
(* The test, once the condition has been walked from v. *)
<1>4. ASSUME NEW v, NEW c1, NEW c2, CondContexts(p, s, a, v, c1, c2),
             WalkExpr[s.c][v].flow = Tested(s, w).flow
      PROVE  Fits(p, Test(s), c2, b)
  <2>1. FitsLoop(s, w, c2, b) /\ Along(c2, b)
    BY <1>1, <1>4, LoopAlong DEF CondContexts
  <2>2. Weaker(Tested(s, w).flow, c2.flow) /\ (AlwaysTrue(s.c) => c2.sure) /\ s \in Inside[c2.fn.body]
    BY <1>2, <1>4, WeakerFacts DEF CondContexts
  <2>3. FitsTest(s, c2, b)
    BY <1>2, <2>1, <2>2 DEF FitsTest
  <2> QED
    BY <2>3, FitsAre
<1>5. CASE s.k \in {"while", "for"}
  <2>1. Round(s) = CondSteps(s) /\ Rounds(s, w) = WalkRounds(WalkStmt, WalkExpr[s.c][w], s)
        /\ Tested(s, w) = WalkExpr[s.c][w]
    BY <1>5 DEF Round, Rounds, Tested
  <2>2. PICK u, r, d : u = WalkExpr[s.c][w] /\ r = WalkRounds(WalkStmt, u, s) /\ d = RoundBody(u, s)
    OBVIOUS
  <2>3. u \in Walks
    BY <1>2, <2>2, PartMoves
  <2>4. RoundBody(u, s).reported => r.reported
    BY <1>2, <1>5, <2>2, <2>3, RoundsFacts
  <2>45. d = RoundBody(u, s)
    BY <2>2
  <2>5. u.reported => d.reported
    BY <1>2, <2>3, <2>45, BodyFacts
  <2>6. ~WalkExpr[s.c][w].reported
    BY <1>3, <2>1, <2>2, <2>4, <2>5
  <2>7. PICK c1, c2 : CondContexts(p, s, a, w, c1, c2)
    BY <1>2, <1>3, <2>6, CondWalked
  <2>8. Fits(p, Test(s), c2, b)
    BY <1>4, <2>1, <2>7
  <2>9. PICK s1, s2 : s1 = CondSteps(s)[1] /\ s2 = Test(s)
    OBVIOUS
  <2>10. /\ Right(p, c1) /\ Right(p, c2) /\ Opens(c1, a) /\ Fits(p, s1, c1, c2)
    BY <1>1, <2>7, <2>9 DEF CondContexts, Opens
  <2>11. Expands(p, <<s1, s2>>, a, b)
    BY <2>8, <2>9, <2>10, Expand2
  <2> QED
    BY <2>1, <2>9, <2>11, CondStepsAre
<1>6. CASE s.k = "do"
  <2>1. PICK d, f, at, r : /\ d = RoundBody(w, s) /\ f = BodyEnd(d) /\ at = At(Pop(d), f)
                           /\ r = WalkDo(WalkStmt, w, s)
    OBVIOUS
  <2>2. Rounds(s, w) = r /\ Tested(s, w) = WalkExpr[s.c][at] /\ DoTested(w, s) = WalkExpr[s.c][at]
    BY <1>6, <2>1 DEF Rounds, Tested, DoTested
  <2>3. ~d.reported /\ ~WalkExpr[s.c][at].reported
    BY <1>2, <1>3, <1>6, <2>1, <2>2, DoFacts
  <2>4. at \in Walks /\ at.flow = f /\ at.tracked = w.tracked
    BY <1>2, <1>6, <2>1, DoFacts
  <2>5. /\ Reaches(Named(s), Declared(s.body), w, f)
        /\ \A g \in Top(d).continues \cup {d.flow} : Weaker(f, g)
    <3>1. d = RoundBody(w, s)
      BY <2>1
    <3>2. /\ \A g \in Top(d).breaks \cup Top(d).continues \cup {d.flow, BodyEnd(d)} :
              Reaches(Named(s), Declared(s.body), w, g)
          /\ \A g \in Top(d).continues \cup {d.flow} : Weaker(BodyEnd(d), g)
      BY <1>2, <3>1, BodyFacts
    <3> QED
      BY <2>1, <3>2
  <2>6. Carries(a.fn, at)
    BY <1>3, <2>4, <2>5, CarriesOn
  <2>7. PICK c3, c4 : CondContexts(p, s, a, at, c3, c4)
    BY <1>2, <2>3, <2>6, CondWalked
  <2>8. /\ Right(p, c3) /\ c3.fn = a.fn /\ c3.kept = a.kept /\ c3.to = a.to /\ ~c3.sure /\ c3.flow = f
        /\ Right(p, c4) /\ Fits(p, CondSteps(s)[1], c3, c4)
    BY <2>4, <2>7 DEF CondContexts
  <2>9. \A g \in Top(d).breaks : Weaker(b.flow, g)
    <3>1. \A g \in Top(RoundBody(w, s)).breaks : Weaker(r.flow, g)
      BY <1>2, <1>6, <2>1, DoFacts
    <3> QED
      BY <1>3, <2>1, <2>2, <3>1, WeakerFacts
  <2>10. PICK c1, c2 : /\ Right(p, c1) /\ c1.fn = a.fn /\ c1.kept = a.kept /\ ~c1.sure /\ c1.flow = w.flow
                       /\ Right(p, c2)
                       /\ Fits(p, S(s.body), c1, c2) /\ Fits(p, Mark("continue"), c2, c3)
    <3>1. \A g \in Top(d).continues \cup {d.flow} : Weaker(c3.flow, g)
      BY <2>5, <2>8
    <3> QED
      BY <1>2, <1>3, <2>1, <2>3, <2>8, <2>9, <3>1, BodyRuns
  <2>11. Fits(p, Test(s), c4, b)
    BY <1>4, <2>2, <2>7
  <2>12. PICK s1, s2, s3, s4 : /\ s1 = S(s.body) /\ s2 = Mark("continue")
                               /\ s3 = CondSteps(s)[1] /\ s4 = Test(s)
    OBVIOUS
  <2>13. Opens(c1, a)
    BY <1>1, <2>10 DEF Opens
  <2>14. Expands(p, <<s1, s2, s3, s4>>, a, b)
    BY <2>8, <2>10, <2>11, <2>12, <2>13, Expand4
  <2>15. Round(s) = <<s1, s2, s3, s4>>
    <3>1. Round(s) = <<s1, s2>> \o CondSteps(s)
      BY <1>6, <2>12 DEF Round
    <3>2. CondSteps(s) = <<s3, s4>>
      BY <2>12, CondStepsAre
    <3> QED
      BY <3>1, <3>2, TwoAndTwo
  <2> QED
    BY <2>14, <2>15
<1> QED
  BY <1>2, <1>5, <1>6 DEF IsLoop

(* What a condition of an expression leads to. *)
LEMMA ChosenOfExpr ==
  ASSUME NEW p, Good(p), NEW a, Right(p, a), NEW b, NEW x, NEW held \in BOOLEAN, FitsTest(x, a, b),
         x.k \in {"not", "and", "or", "cond"}
  PROVE  Expands(p, Chosen(x, held), a, b)
<1>1. Along(a, b) /\ x \in Inside[a.fn.body] /\ ~b.sure /\ a.fn \in FunctionsOf(p)
  BY ContextFields DEF FitsTest, Right
<1>2. x \in Nodes /\ Inner(x) \subseteq Inside[a.fn.body] /\ Inner(x) \subseteq Nodes
  BY <1>1, NodeOf
(* A number, where the flow state is not let go of. *)
<1>3. ASSUME NEW n, Weaker(b.flow, a.flow)
      PROVE  Expands(p, <<Number(n)>>, a, b)
  <2>1. PICK step : step = Number(n)
    OBVIOUS
  <2>2. ASSUME NEW c \in Contexts(p), c.fn = a.fn, c.kept = a.kept, c.to = a.to, c.flow = a.flow
        PROVE  Fits(p, step, c, b)
    <3>1. Eases(c, b)
      BY <1>1, <1>3, <2>2 DEF Eases, Along
    <3> QED
      BY <1>1, <2>1, <3>1, FitsAre
  <2>3. Expands(p, <<step>>, a, b)
    BY <2>2, AloneFits
  <2> QED
    BY <2>1, <2>3
<1>4. CASE x.k = "not"
  <2>1. Weaker(b.flow, a.flow)
    BY <1>4 DEF FitsTest, IsLoop
  <2>2. Chosen(x, held) = <<Number(Truth01(~held))>>
    BY <1>4 DEF Chosen
  <2> QED
    BY <1>3, <2>1, <2>2
<1>5. CASE x.k \in {"and", "or"}
  <2>1. FitsShort(x, a, b)
    BY <1>5 DEF FitsTest, IsLoop
  <2>2. PICK w : Carries(a.fn, w) /\ w.flow = a.flow /\ ~WalkExpr[x.y][w].reported
    BY <2>1 DEF FitsShort
  <2>3. Weaker(b.flow, a.flow)
    BY <2>1 DEF FitsShort
  <2>4. PICK y, u, step : y = x.y /\ u = WalkExpr[y][w] /\ step = Step("truth")
    OBVIOUS
  <2>5. y \in Inner(x) /\ y \in Nodes /\ y \in Inside[a.fn.body] /\ w \in Walks
    BY <1>2, <1>5, <2>2, <2>4, PartsAre DEF Carries
  <2>6. Moves(Named(y), {}, {}, w, u)
    BY <2>4, <2>5, WalkExprMoves
  <2>7. Reaches(Named(y), {}, w, u.flow) /\ Clear(w.flow, {})
    BY <2>6 DEF Moves, Clear
  <2>8. Weaker(b.flow, u.flow)
    BY <2>2, <2>3, <2>7, ReachedBack, WeakerFacts
  <2>9. ASSUME NEW c \in Contexts(p), Along(c, b), c.flow = u.flow
        PROVE  Fits(p, step, c, b)
    <3>1. Eases(c, b)
      BY <2>8, <2>9 DEF Eases
    <3> QED
      BY <1>1, <2>4, <3>1, FitsAre
  <2>10. Expands(p, <<E(y), step>>, a, b)
    BY <1>1, <2>2, <2>4, <2>5, <2>9, OperandThen
  <2>11. \/ Chosen(x, held) = <<E(y), step>>
         \/ Chosen(x, held) = <<Number(0)>>
         \/ Chosen(x, held) = <<Number(1)>>
    BY <1>5, <2>4 DEF Chosen
  <2> QED
    BY <1>3, <2>3, <2>10, <2>11
<1>6. CASE x.k = "cond"
  <2>1. FitsCond(x, a, b)
    BY <1>6 DEF FitsTest, IsLoop
  <2>2. PICK w, r : /\ Carries(a.fn, w) /\ w.flow = a.flow
                    /\ r = WalkArms(WalkExpr, w, x.x, x.y)
                    /\ ~r.reported /\ Weaker(b.flow, r.flow)
    BY <2>1 DEF FitsCond
  <2>3. x.x \in Inner(x) /\ x.y \in Inner(x) /\ w \in Walks
    BY <1>2, <1>6, <2>2, PartsAre DEF Carries
  <2>4. PICK N : N = Named(x)
    OBVIOUS
  <2>5. \A v \in Walks : Moves(N, {}, {}, v, WalkExpr[x.x][v]) /\ Moves(N, {}, {}, v, WalkExpr[x.y][v])
    BY <1>2, <2>3, <2>4, PartMoves
  <2>6. PICK then, els : ArmsFit(WalkExpr, N, {}, {}, w, x.x, x.y, r, then, els)
    BY <2>2, <2>3, <2>5, ArmsMove
  <2>7. PICK v : v = At(then, w.flow)
    OBVIOUS
  <2>8. /\ then = WalkExpr[x.x][w] /\ els = WalkExpr[x.y][v]
        /\ ~then.reported /\ ~els.reported
        /\ Weaker(b.flow, then.flow) /\ Weaker(b.flow, els.flow)
        /\ v \in Walks /\ v.flow = w.flow /\ v.tracked = w.tracked
    BY <2>2, <2>6, <2>7, WeakerFacts DEF ArmsFit
  <2>9. Carries(a.fn, v)
    BY <2>2, <2>8 DEF Carries
  <2>10. PICK y : y = IF held THEN x.x ELSE x.y
    OBVIOUS
  <2>11. PICK u : u = IF held THEN w ELSE v
    OBVIOUS
  <2>12. /\ y \in Inside[a.fn.body] /\ Carries(a.fn, u) /\ u.flow = a.flow
         /\ ~WalkExpr[y][u].reported /\ Weaker(b.flow, WalkExpr[y][u].flow)
    <3>1. CASE held
      BY <1>2, <2>2, <2>3, <2>8, <2>10, <2>11, <3>1
    <3>2. CASE ~held
      BY <1>2, <2>2, <2>3, <2>8, <2>9, <2>10, <2>11, <3>2
    <3> QED
      BY <3>1, <3>2
  <2>13. ASSUME NEW c \in Contexts(p), c.fn = a.fn, c.kept = a.kept, c.to = a.to, c.flow = a.flow
         PROVE  Fits(p, E(y), c, b)
    <3>1. Along(c, b)
      BY <1>1, <2>13 DEF Along
    <3> QED
      BY <1>1, <2>12, <2>13, <3>1, ExprFits
  <2>14. PICK step : step = E(y)
    OBVIOUS
  <2>15. Expands(p, <<step>>, a, b)
    BY <2>13, <2>14, AloneFits
  <2>16. Chosen(x, held) = <<step>>
    BY <1>6, <2>10, <2>14 DEF Chosen
  <2> QED
    BY <2>15, <2>16
<1> QED
  BY <1>4, <1>5, <1>6

LEMMA ChosenOfIf ==
  ASSUME NEW p, Good(p), NEW a, Right(p, a), NEW b, NEW s, NEW held \in BOOLEAN, FitsTest(s, a, b),
         s.k = "if"
  PROVE  Expands(p, Chosen(s, held), a, b)
<1>1. Along(a, b) /\ s \in Inside[a.fn.body] /\ ~b.sure /\ a.fn \in FunctionsOf(p)
  BY ContextFields DEF FitsTest, Right
<1>2. s \in Nodes /\ Inner(s) \subseteq Inside[a.fn.body] /\ Inner(s) \subseteq Nodes
  BY <1>1, NodeOf
<1>3. FitsIf(s, a, b)
  BY DEF FitsTest, IsLoop
<1>4. Clear(a.flow, Declared(s.then)) /\ Clear(a.flow, Declared(s.els))
  BY <1>3 DEF FitsIf
<1>5. PICK w, r : /\ Carries(a.fn, w) /\ w.flow = a.flow
                  /\ r = WalkArms(WalkStmt, w, s.then, s.els)
                  /\ ~r.reported /\ Weaker(b.flow, r.flow)
                  /\ Landed(r, JumpsOut[s], a.to)
  BY <1>3 DEF FitsIf
<1>6. s.then \in Inner(s) /\ s.els \in Inner(s) /\ w \in Walks
  BY <1>2, <1>5, PartsAre DEF Carries
<1>7. PICK N, D, J : N = Named(s) /\ D = Declared(s) /\ J = JumpsOut[s]
  OBVIOUS
<1>8. \A v \in Walks : Moves(N, D, J, v, WalkStmt[s.then][v]) /\ Moves(N, D, J, v, WalkStmt[s.els][v])
  <2> SUFFICES ASSUME NEW v \in Walks, NEW q \in Inner(s)
               PROVE  Moves(N, D, J, v, WalkStmt[q][v])
    BY <1>6
  <2>1. Moves(Named(q), Declared(q), JumpsOut[q], v, WalkStmt[q][v])
    BY <1>2, WalkStmtFacts
  <2>2. Named(q) \in SUBSET N /\ Declared(q) \in SUBSET D /\ JumpsOut[q] \in SUBSET J
    BY <1>2, <1>7, NamesInside, JumpsOutAre
  <2> QED
    BY <2>1, <2>2, MovesMore
<1>9. PICK then, els : ArmsFit(WalkStmt, N, D, J, w, s.then, s.els, r, then, els)
  BY <1>5, <1>6, <1>8, ArmsMove
<1>10. PICK v : v = At(then, w.flow)
  OBVIOUS
<1>11. /\ then = WalkStmt[s.then][w] /\ els = WalkStmt[s.els][v]
       /\ ~then.reported /\ ~els.reported
       /\ Weaker(b.flow, then.flow) /\ Weaker(b.flow, els.flow)
       /\ v \in Walks /\ v.flow = w.flow /\ v.tracked = w.tracked /\ v.jumps = then.jumps
       /\ Moves(N, D, J, v, els) /\ r.jumps = els.jumps
  BY <1>5, <1>9, <1>10, WeakerFacts DEF ArmsFit
<1>12. Carries(a.fn, v)
  BY <1>5, <1>11 DEF Carries
<1>13. JumpsOut[s.then] \in SUBSET J /\ JumpsOut[s.els] \in SUBSET J
  BY <1>2, <1>6, <1>7, JumpsOutAre
<1>14. Landed(els, J, a.to)
  BY <1>5, <1>7, <1>11, LandedSame
<1>15. Landed(els, JumpsOut[s.els], a.to)
  BY <1>13, <1>14, LandedSame
<1>16. Landed(then, JumpsOut[s.then], a.to)
  <2>1. Landed(v, J, a.to)
    BY <1>11, <1>14, LandedBefore
  <2> QED
    BY <1>11, <1>13, <2>1, LandedSame
<1>17. PICK y, u : y = (IF held THEN s.then ELSE s.els) /\ u = IF held THEN w ELSE v
  OBVIOUS
<1>18. /\ y \in Inside[a.fn.body] /\ Carries(a.fn, u) /\ u.flow = a.flow
       /\ ~WalkStmt[y][u].reported /\ Weaker(b.flow, WalkStmt[y][u].flow)
       /\ Clear(a.flow, Declared(y)) /\ Landed(WalkStmt[y][u], JumpsOut[y], a.to)
  <2>1. CASE held
    BY <1>2, <1>4, <1>5, <1>6, <1>11, <1>16, <1>17, <2>1
  <2>2. CASE ~held
    BY <1>2, <1>4, <1>5, <1>6, <1>11, <1>12, <1>15, <1>17, <2>2
  <2> QED
    BY <2>1, <2>2
<1>19. ASSUME NEW c \in Contexts(p), c.fn = a.fn, c.kept = a.kept, c.to = a.to, c.flow = a.flow
       PROVE  Fits(p, S(y), c, b)
  <2>1. Along(c, b)
    BY <1>1, <1>19 DEF Along
  <2> QED
    BY <1>1, <1>18, <1>19, <2>1, StmtFits
<1>20. PICK step : step = S(y)
  OBVIOUS
<1>21. Expands(p, <<step>>, a, b)
  BY <1>19, <1>20, AloneFits
<1>22. Chosen(s, held) = <<step>>
  BY <1>17, <1>20 DEF Chosen
<1> QED
  BY <1>21, <1>22

(* What a loop's condition leads to. *)
LEMMA ChosenOfLoop ==
  ASSUME NEW p, Good(p), NEW a, Right(p, a), NEW b, Right(p, b), NEW s, NEW held \in BOOLEAN,
         FitsTest(s, a, b), IsLoop(s), a.sure => held
  PROVE  Expands(p, Chosen(s, held), a, b)
<1>1. AlwaysTrue(s.c) => a.sure
  BY DEF FitsTest, IsLoop
<1>2. PICK w : FitsLoop(s, w, a, b) /\ Weaker(Tested(s, w).flow, a.flow)
  BY DEF FitsTest, IsLoop
<1>3. Looping(p, s, a, b, w)
  BY <1>2, LoopingIs
<1> USE DEF Looping
<1>4. ~Rounds(s, w).reported /\ Carries(a.fn, w) /\ Clear(w.flow, Declared(s.body))
      /\ b.flow = a.to["break"] /\ Weaker(b.flow, Rounds(s, w).flow)
  BY <1>2 DEF FitsLoop
(* Round again, in a state that eases that at the head. *)
<1>5. ASSUME NEW c, c.fn = a.fn, c.kept = a.kept, c.to = a.to, Weaker(w.flow, c.flow)
      PROVE  Fits(p, Again(s), c, b)
  <2>1. FitsLoop(s, w, c, b)
    BY <1>2, <1>5, LoopAlong
  <2>2. FitsAgain(s, c, b)
    BY <1>5, <2>1 DEF FitsAgain
  <2> QED
    BY <2>2, FitsAre
<1>6. CASE s.k = "do"
  <2>1. PICK r, t : r = WalkDo(WalkStmt, w, s) /\ t = DoTested(w, s)
    OBVIOUS
  <2>2. Rounds(s, w) = r /\ Tested(s, w) = t
    BY <1>6, <2>1 DEF Rounds, Tested
  <2>3. Reaches(Named(s), Declared(s.body), w, t.flow)
    BY <1>3, <1>6, <2>1, DoFacts
  <2>4. ~AlwaysTrue(s.c) => Weaker(r.flow, t.flow)
    BY <1>3, <1>6, <2>1, DoFacts
  <2>5. Weaker(w.flow, a.flow)
    BY <1>2, <1>4, <2>2, <2>3, ReachedBack, WeakerFacts
  <2>6. CASE held
    <3>1. PICK step : step = Again(s)
      OBVIOUS
    <3>2. ASSUME NEW c \in Contexts(p), c.fn = a.fn, c.kept = a.kept, c.to = a.to, c.flow = a.flow
          PROVE  Fits(p, step, c, b)
      BY <1>5, <2>5, <3>1, <3>2
    <3>3. Expands(p, <<step>>, a, b)
      BY <1>3, <3>2, AloneFits
    <3>4. Chosen(s, held) = <<step>>
      BY <1>6, <2>6, <3>1 DEF Chosen
    <3> QED
      BY <3>3, <3>4
  <2>7. CASE ~held
    <3>1. Weaker(b.flow, a.flow)
      BY <1>1, <1>2, <1>4, <2>2, <2>4, <2>7, WeakerFacts
    <3>2. Opens(b, a)
      BY <1>3, <3>1 DEF Opens, Along
    <3>3. Chosen(s, held) = <<>>
      BY <1>6, <2>7 DEF Chosen
    <3> QED
      BY <3>2, <3>3, Expand0
  <2> QED
    BY <2>6, <2>7
<1>7. CASE s.k \in {"while", "for"}
  <2>1. PICK u, r, d : u = WalkExpr[s.c][w] /\ r = WalkRounds(WalkStmt, u, s) /\ d = RoundBody(u, s)
    OBVIOUS
  <2>2. Rounds(s, w) = r /\ Tested(s, w) = u
    BY <1>7, <2>1 DEF Rounds, Tested
  <2>3. u \in Walks
    BY <1>3, <2>1, PartMoves
  <2>4. /\ Reaches(Named(s), Declared(s.body), u, RoundPost(u, s).flow)
        /\ RoundBody(u, s).reported => r.reported
        /\ RoundPost(u, s).reported => r.reported
        /\ \A f \in Top(RoundBody(u, s)).breaks : AlwaysTrue(s.c) => Weaker(r.flow, f)
        /\ ~AlwaysTrue(s.c) => r.flow = u.flow
    BY <1>3, <1>7, <2>1, <2>3, RoundsFacts
  <2>5. CASE ~held
    <3>1. Weaker(b.flow, a.flow)
      BY <1>1, <1>2, <1>4, <2>2, <2>4, <2>5, WeakerFacts
    <3>2. Opens(b, a)
      BY <1>3, <3>1 DEF Opens, Along
    <3>3. Chosen(s, held) = <<>>
      BY <1>7, <2>5 DEF Chosen
    <3> QED
      BY <3>2, <3>3, Expand0
  <2>6. CASE held
    <3>1. s.c \in Nodes
      BY <1>3
    <3>2. Moves(Named(s.c), {}, {}, w, u)
      BY <1>3, <2>1, <3>1, WalkExprMoves
    <3>3. Reaches(Named(s.c), {}, w, u.flow) /\ u.tracked = w.tracked
      BY <3>2 DEF Moves
    <3>4. Carries(a.fn, u)
      BY <1>4, <2>3, <3>3, CarriesOn
    <3>5. Named(s.c) \cap Declared(s.body) = {}
      <4>1. s \in Inside[a.fn.body] /\ a.fn \in FunctionsOf(p) /\ Good(p)
        BY <1>3
      <4> QED
        BY <1>7, <4>1, OrderFacts
    <3>6. Clear(u.flow, Declared(s.body))
      BY <1>4, <3>3, <3>5, ClearsOn
    <3>7. Weaker(w.flow, u.flow)
      <4>1. Clear(w.flow, {})
        BY DEF Clear
      <4> QED
        BY <3>3, <4>1, ReachedBack
    <3>8. d = RoundBody(u, s)
      BY <2>1
    <3>9. /\ \A f \in Top(d).breaks \cup Top(d).continues \cup {d.flow, BodyEnd(d)} :
               Reaches(Named(s), Declared(s.body), u, f)
          /\ \A f \in Top(d).continues \cup {d.flow} : Weaker(BodyEnd(d), f)
      BY <1>3, <2>3, <3>8, BodyFacts
    <3>10. ~d.reported
      BY <1>4, <2>2, <2>4, <3>8
    <3>11. \A f \in Top(d).breaks : Weaker(b.flow, f)
      <4> SUFFICES ASSUME NEW f \in Top(d).breaks PROVE Weaker(b.flow, f)
        OBVIOUS
      <4>1. CASE AlwaysTrue(s.c)
        BY <1>4, <2>2, <2>4, <3>8, <4>1, WeakerFacts
      <4>2. CASE ~AlwaysTrue(s.c)
        <5>1. Weaker(u.flow, f)
          BY <3>6, <3>9, ReachedBack
        <5> QED
          BY <1>4, <2>2, <2>4, <4>2, <5>1, WeakerFacts
      <4> QED
        BY <4>1, <4>2
    <3>12. PICK to : to = a.to
      OBVIOUS
    <3>13. to \in [{"break", "continue"} -> Flows]
      BY <1>3, <3>12, RightWalks
    <3>14. PICK head : /\ Right(p, head) /\ head.fn = a.fn /\ head.flow = w.flow /\ head.to = to
                       /\ head.kept = a.kept /\ ~head.sure
      BY <1>3, <1>4, <3>13, CtxAt
    <3>15. Fits(p, Again(s), head, b)
      BY <1>5, <3>12, <3>14, WeakerFacts
    <3>16. CASE s.k = "while"
      <4>1. \A f \in Top(d).continues \cup {d.flow} : Weaker(head.flow, f)
        <5>1. \A f \in Top(d).continues \cup {d.flow} : Weaker(u.flow, f)
          BY <3>6, <3>9, ReachedBack
        <5> QED
          BY <3>7, <3>14, <5>1, WeakerFacts
      <4>2. PICK c1, c2 : /\ Right(p, c1) /\ c1.fn = a.fn /\ c1.kept = a.kept /\ ~c1.sure /\ c1.flow = u.flow
                          /\ Right(p, c2)
                          /\ Fits(p, S(s.body), c1, c2) /\ Fits(p, Mark("continue"), c2, head)
        <5>1. head.to = a.to
          BY <3>12, <3>14
        <5> QED
          BY <1>3, <3>4, <3>6, <3>8, <3>10, <3>11, <3>14, <4>1, <5>1, BodyRuns
      <4>3. Opens(c1, a)
        BY <1>2, <2>2, <4>2 DEF Opens
      <4>4. PICK s1, s2, s3 : s1 = S(s.body) /\ s2 = Mark("continue") /\ s3 = Again(s)
        OBVIOUS
      <4>5. Expands(p, <<s1, s2, s3>>, a, b)
        BY <3>14, <3>15, <4>2, <4>3, <4>4, Expand3
      <4>6. Chosen(s, held) = <<s1, s2, s3>>
        BY <2>6, <3>16, <4>4 DEF Chosen
      <4> QED
        BY <4>5, <4>6
    <3>17. CASE s.k = "for"
      <4>1. PICK f, at, post, x : /\ f = BodyEnd(d) /\ at = At(d, f) /\ x = s.post
                                  /\ post = WalkExpr[x][at]
        OBVIOUS
      <4>2. at \in Walks /\ at.flow = f /\ at.tracked = u.tracked
        BY <1>3, <1>7, <2>1, <2>3, <3>17, <4>1, RoundsFacts
      <4>3. RoundPost(u, s) = post
        BY <3>8, <3>17, <4>1 DEF RoundPost
      <4>4. ~post.reported /\ Reaches(Named(s), Declared(s.body), u, post.flow)
        BY <1>4, <2>2, <2>4, <4>3
      <4>5. Carries(a.fn, at)
        BY <3>4, <3>9, <4>1, <4>2, CarriesOn
      <4>6. x \in Inside[a.fn.body]
        BY <1>3, <3>17, <4>1, PartsAre
      <4>7. PICK no \in BOOLEAN : no = FALSE
        OBVIOUS
      <4>8. PICK c3, c4 : Walked(p, a, x, at, to, post, no, c3, c4)
        BY <1>3, <3>13, <4>1, <4>4, <4>5, <4>6, <4>7, ExprWalked
      <4>9. /\ Right(p, c3) /\ c3.fn = a.fn /\ c3.kept = a.kept /\ c3.to = a.to /\ ~c3.sure /\ c3.flow = f
            /\ Right(p, c4) /\ c4.fn = a.fn /\ c4.kept = a.kept /\ c4.to = a.to /\ ~c4.sure
            /\ c4.flow = post.flow /\ Fits(p, E(x), c3, c4)
        BY <3>12, <4>2, <4>7, <4>8 DEF Walked
      <4>10. \A g \in Top(d).continues \cup {d.flow} : Weaker(c3.flow, g)
        BY <3>9, <4>1, <4>9
      <4>11. PICK c1, c2 : /\ Right(p, c1) /\ c1.fn = a.fn /\ c1.kept = a.kept /\ ~c1.sure /\ c1.flow = u.flow
                           /\ Right(p, c2)
                           /\ Fits(p, S(s.body), c1, c2) /\ Fits(p, Mark("continue"), c2, c3)
        BY <1>3, <3>4, <3>6, <3>8, <3>10, <3>11, <4>9, <4>10, BodyRuns
      <4>12. Fits(p, Step("drop"), c4, head)
        <5>1. Weaker(u.flow, post.flow)
          BY <3>6, <4>4, ReachedBack
        <5>2. Eases(c4, head)
          BY <3>7, <3>12, <3>14, <4>9, <5>1, WeakerFacts DEF Eases, Along
        <5> QED
          BY <3>14, <5>2, FitsAre
      <4>13. Opens(c1, a)
        BY <1>2, <2>2, <4>11 DEF Opens
      <4>14. PICK s1, s2, s3, s4, s5 : /\ s1 = S(s.body) /\ s2 = Mark("continue") /\ s3 = E(x)
                                       /\ s4 = Step("drop") /\ s5 = Again(s)
        OBVIOUS
      <4>15. Expands(p, <<s1, s2, s3, s4, s5>>, a, b)
        BY <3>14, <3>15, <4>9, <4>11, <4>12, <4>13, <4>14, Expand5
      <4>16. Chosen(s, held) = <<s1, s2, s3, s4, s5>>
        BY <2>6, <3>17, <4>1, <4>14 DEF Chosen
      <4> QED
        BY <4>15, <4>16
    <3> QED
      BY <1>7, <3>16, <3>17
  <2> QED
    BY <2>5, <2>6
<1> QED
  BY <1>6, <1>7 DEF IsLoop

LEMMA TestExpands ==
  ASSUME NEW p, Good(p), NEW a, Right(p, a), NEW b, Right(p, b), NEW x, NEW held \in BOOLEAN,
         FitsTest(x, a, b), a.sure => held
  PROVE  Expands(p, Chosen(x, held), a, b)
<1>1. x.k \in {"not", "and", "or", "cond"} \/ x.k = "if" \/ IsLoop(x)
  BY DEF FitsTest
<1>2. CASE x.k \in {"not", "and", "or", "cond"}
  BY <1>2, ChosenOfExpr
<1>3. CASE x.k = "if"
  BY <1>3, ChosenOfIf
<1>4. CASE IsLoop(x)
  BY <1>4, ChosenOfLoop
<1> QED
  BY <1>1, <1>2, <1>3, <1>4

-----------------------------------------------------------------------------
(* Switches *)

(* Every arm of s starts from a, and ends where the next one starts.       *)
LEMMA ArmsRun ==
  ASSUME NEW p, Good(p), NEW a, Right(p, a), NEW b, NEW s, FitsSelect(s, a, b),
         NEW i \in DOMAIN s.arms,
         NEW c, c.fn = a.fn, c.kept = a.kept, c.to = a.to, c.flow = a.flow,
         NEW d, d = IF i = Len(s.arms) THEN b ELSE c, ~c.sure
  PROVE  Fits(p, S(s.arms[i].body), c, d)
<1>1. /\ Along(a, b) /\ s \in Inside[a.fn.body] /\ ~b.sure /\ a.fn \in FunctionsOf(p) /\ s.k = "switch"
      /\ b.flow = a.to["break"] /\ Clear(a.flow, ArmsDeclare(s))
  BY ContextFields DEF FitsSelect, Right
<1>2. s \in Nodes /\ Inner(s) \subseteq Inside[a.fn.body] /\ Inner(s) \subseteq Nodes
  BY <1>1, NodeOf
<1>3. PICK w, r : /\ Carries(a.fn, w) /\ w.flow = a.flow
                  /\ r = WalkSwitch(WalkStmt, w, s)
                  /\ ~r.reported /\ Weaker(b.flow, r.flow)
                  /\ Landed(r, JumpsOut[s], a.to)
  BY DEF FitsSelect
<1>4. w \in Walks
  BY <1>3 DEF Carries
<1>5. \A q \in Inner(s) : StmtMoves(q)
  BY <1>2, WalkStmtMoves
<1>6. PICK starts, all : SwitchFits(s, w, starts, all, r)
  BY <1>1, <1>2, <1>3, <1>4, <1>5, SwitchFacts
<1>7. PICK N, D, J : N = Named(s) /\ D = ArmsDeclare(s) /\ J = ArmsJump(s)
  OBVIOUS
<1>8. /\ all \in Walks /\ Popped(N, D, J, w, FALSE, all)
      /\ Moves(N, D, J \ {"break"}, w, r) /\ r.jumps = Pop(all).jumps
      /\ ArmFits(s, w, starts, all, r, i)
      /\ HasDefault(s) => \A f \in Top(all).breaks : Weaker(r.flow, f)
      /\ ~HasDefault(s) => r.flow = w.flow
  BY <1>6, <1>7 DEF SwitchFits
<1>9. PICK x, u, e : x = s.arms[i].body /\ u = starts[i - 1] /\ e = WalkStmt[x][u]
  OBVIOUS
<1>10. /\ u \in Walks /\ u.flow = w.flow /\ u.tracked = w.tracked /\ e \in Walks /\ ~e.reported
       /\ Reaches(N, D, w, e.flow)
       /\ Empty(s.arms[i]) => e = u
       /\ HasDefault(s) /\ ~Empty(s.arms[i]) => Weaker(r.flow, e.flow)
       /\ \E back \in Walks : back.jumps = e.jumps /\ Moves(N, D, J, back, all)
  BY <1>3, <1>7, <1>8, <1>9 DEF ArmFits
<1>11. x \in Inner(s) /\ x \in Nodes /\ x \in Inside[a.fn.body] /\ Len(s.arms) \in Nat
       /\ DOMAIN s.arms = 1..Len(s.arms)
  BY <1>1, <1>2, <1>9, ArmsAre
<1>12. Carries(a.fn, u)
  BY <1>3, <1>10 DEF Carries
<1>13. Clear(a.flow, Declared(x))
  BY <1>1, <1>9, ClearsLess DEF ArmsDeclare
<1>14. Landed(e, JumpsOut[x], a.to)
  <2>1. PICK K : K = JumpsOut[x]
    OBVIOUS
  <2>2. K \in SUBSET J /\ (K \ {"break"}) \subseteq JumpsOut[s]
    BY <1>1, <1>2, <1>7, <1>9, <1>11, <2>1, JumpsOutAre DEF ArmsJump
  <2>3. PICK back \in Walks : back.jumps = e.jumps /\ Moves(N, D, J, back, all)
    BY <1>10
  <2>4. Landed(all, K, a.to)
    <3>1. /\ Len(all.jumps) = Len(w.jumps) + 1 /\ Len(w.jumps) \in Nat
          /\ LoopOf(all.jumps) = LoopOf(w.jumps)
          /\ \A j \in DOMAIN w.jumps : Pop(all).jumps[j] = all.jumps[j]
          /\ \A f \in Top(all).breaks : Reaches(N, D, w, f)
      BY <1>8 DEF Popped
    <3>2. all.jumps # <<>>
      BY <1>8, <3>1, WalkFields
    <3>3. \A f \in Top(all).breaks : Weaker(a.to["break"], f)
      <4> SUFFICES ASSUME NEW f \in Top(all).breaks PROVE Weaker(a.to["break"], f)
        OBVIOUS
      <4>1. CASE HasDefault(s)
        BY <1>1, <1>3, <1>8, <4>1, WeakerFacts
      <4>2. CASE ~HasDefault(s)
        <5>1. Weaker(w.flow, f)
          BY <1>1, <1>3, <1>7, <3>1, ReachedBack
        <5> QED
          BY <1>1, <1>3, <1>8, <4>2, <5>1, WeakerFacts
      <4> QED
        BY <4>1, <4>2
    <3>4. ASSUME "continue" \in K
          PROVE  /\ LoopOf(all.jumps) # {}
                 /\ \A j \in LoopOf(all.jumps) : \A f \in all.jumps[j].continues : Weaker(a.to["continue"], f)
      <4>1. "continue" \in JumpsOut[s]
        BY <2>2, <3>4
      <4>2. /\ LoopOf(r.jumps) # {}
            /\ \A j \in LoopOf(r.jumps) : \A f \in r.jumps[j].continues : Weaker(a.to["continue"], f)
        BY <1>3, <4>1 DEF Landed
      <4>3. LoopOf(r.jumps) = LoopOf(w.jumps)
        BY <1>4, <1>8, LoopOfSame
      <4>4. LoopOf(w.jumps) \subseteq DOMAIN w.jumps
        BY DEF LoopOf
      <4>5. \A j \in LoopOf(w.jumps) : r.jumps[j] = all.jumps[j]
        BY <1>8, <3>1, <4>4
      <4> QED
        BY <3>1, <4>2, <4>3, <4>5
    <3> QED
      BY <3>2, <3>3, <3>4 DEF Landed
  <2>5. Landed(back, K, a.to)
    BY <2>3, <2>4, LandedBefore
  <2>6. Landed(e, K, a.to)
    BY <2>3, <2>5, LandedSame
  <2> QED
    BY <2>1, <2>6
<1>15. Weaker(d.flow, e.flow)
  <2>1. CASE i # Len(s.arms)
    <3>1. d = c /\ i \in 1..(Len(s.arms) - 1)
      BY <1>11, <2>1
    <3>2. Empty(s.arms[i]) \/ Terminates[x]
      BY <1>1, <1>9, <3>1 DEF Good, Accepts, ArmsApart
    <3>3. CASE Empty(s.arms[i])
      BY <1>3, <1>10, <3>1, <3>3, WeakerFacts
    <3>4. CASE Terminates[x]
      <4>1. ~e.flow.live
        BY <1>9, <1>10, <1>11, <3>4, TerminatesDead
      <4> QED
        BY <4>1 DEF Weaker
    <3> QED
      BY <3>2, <3>3, <3>4
  <2>2. CASE i = Len(s.arms)
    <3>1. d = b
      BY <2>2
    <3>2. CASE HasDefault(s)
      <4>1. ~Empty(s.arms[i])
        BY <1>1, <2>2, <3>2 DEF Good, LastArmsHeld
      <4> QED
        BY <1>3, <1>10, <3>1, <3>2, <4>1, WeakerFacts
    <3>3. CASE ~HasDefault(s)
      <4>1. Weaker(w.flow, e.flow)
        BY <1>1, <1>3, <1>7, <1>10, ReachedBack
      <4> QED
        BY <1>3, <1>8, <3>1, <3>3, <4>1, WeakerFacts
    <3> QED
      BY <3>2, <3>3
  <2> QED
    BY <2>1, <2>2
<1>16. Along(c, d) /\ ~d.sure
  BY <1>1 DEF Along
<1>17. Fits(p, S(x), c, d)
  <2>1. Carries(c.fn, u) /\ u.flow = c.flow /\ ~WalkStmt[x][u].reported /\ x \in Inside[c.fn.body]
        /\ Clear(c.flow, Declared(x)) /\ Weaker(d.flow, WalkStmt[x][u].flow)
        /\ Landed(WalkStmt[x][u], JumpsOut[x], c.to)
    BY <1>3, <1>9, <1>10, <1>11, <1>12, <1>13, <1>14, <1>15
  <2> QED
    BY <1>16, <2>1, StmtFits
<1> QED
  BY <1>9, <1>17

LEMMA SelectExpands ==
  ASSUME NEW p, Good(p), NEW a, Right(p, a), NEW b, NEW s, FitsSelect(s, a, b), NEW tag
  PROVE  Expands(p, ArmsFrom(s.arms, tag), a, b)
<1>1. /\ Along(a, b) /\ s \in Inside[a.fn.body] /\ ~b.sure /\ a.fn \in FunctionsOf(p) /\ s.k = "switch"
  BY ContextFields DEF FitsSelect, Right
<1>2. s \in Nodes
  BY <1>1, NodeOf
<1>3. Len(s.arms) \in Nat /\ DOMAIN s.arms = 1..Len(s.arms)
  BY <1>1, <1>2, ArmsAre
<1> DEFINE hit == {i \in DOMAIN s.arms : s.arms[i].label = {tag}}
           first == IF hit # {} THEN hit ELSE {i \in DOMAIN s.arms : s.arms[i].label = {}}
           skip == CHOOSE i \in first : TRUE
           n == Len(s.arms)
           m == n - skip + 1
           steps == [i \in 1..m |-> S(s.arms[skip + i - 1].body)]
<1>4. CASE first = {}
  <2>1. ArmsFrom(s.arms, tag) = <<>>
    BY <1>4 DEF ArmsFrom
  <2>2. ~HasDefault(s)
    BY <1>4 DEF HasDefault
  <2>3. PICK w, r : /\ Carries(a.fn, w) /\ w.flow = a.flow
                    /\ r = WalkSwitch(WalkStmt, w, s) /\ Weaker(b.flow, r.flow)
    BY DEF FitsSelect
  <2>4. w \in Walks /\ \A q \in Inner(s) : StmtMoves(q)
    BY <1>1, <1>2, <2>3, NodeFacts, WalkStmtMoves DEF Carries
  <2>5. PICK starts, all : SwitchFits(s, w, starts, all, r)
    BY <1>1, <1>2, <2>3, <2>4, SwitchFacts
  <2>6. r.flow = w.flow
    BY <2>2, <2>5 DEF SwitchFits
  <2>7. Opens(b, a)
    BY <1>1, <2>3, <2>6 DEF Opens, Along
  <2> QED
    BY <2>1, <2>7, Expand0
<1>5. CASE first # {}
  <2>1. skip \in first
    BY <1>5
  <2>2. skip \in 1..n
    BY <1>3, <2>1
  <2>3. ArmsFrom(s.arms, tag) = steps
    BY <1>5 DEF ArmsFrom
  <2>4. PICK k : k = skip
    OBVIOUS
  <2>5. PICK l : l = n - k + 1
    OBVIOUS
  <2>55. m = l /\ steps = [i \in 1..l |-> S(s.arms[k + i - 1].body)]
    BY <2>4, <2>5
  <2>56. k \in 1..n
    BY <2>2, <2>4
  <2> HIDE DEF steps, skip, m, n
  <2>6. k \in 1..n /\ l \in Nat /\ l >= 1 /\ n \in Nat
        /\ \A i \in 1..l : k + i - 1 \in 1..n /\ (k + i - 1 = n <=> i = l)
    BY <1>3, <2>5, <2>56 DEF n
  <2>7. n = Len(s.arms) /\ DOMAIN s.arms = 1..n
    BY <1>3 DEF n
  <2>8. PICK to : to = a.to
    OBVIOUS
  <2>9. to \in [{"break", "continue"} -> Flows]
    BY <2>8, RightWalks
  <2>10. PICK c : /\ Right(p, c) /\ c.fn = a.fn /\ c.flow = a.flow /\ c.to = to
                  /\ c.kept = a.kept /\ ~c.sure
    BY <2>9, CtxOf
  <2> DEFINE cs == [i \in 1..l |-> c]
  <2>11. cs \in Seq(Contexts(p)) /\ Len(cs) = l /\ \A i \in 1..l : cs[i] = c
    BY <2>6, <2>10 DEF Right
  <2>115. PICK A : A = {S(s.arms[i].body) : i \in 1..n}
    OBVIOUS
  <2>116. \A i \in 1..l : S(s.arms[k + i - 1].body) \in A
    BY <2>6, <2>115
  <2>12. /\ steps \in Seq(A) /\ Len(steps) = l
         /\ \A i \in 1..l : steps[i] = S(s.arms[k + i - 1].body)
    BY <2>6, <2>55, <2>116
  <2>13. IsSequence(steps)
    BY <2>12 DEF IsSequence
  <2> HIDE DEF cs
  <2>14. ASSUME NEW i \in 1..l
         PROVE  Fits(p, steps[i], cs[i], IF i = l THEN b ELSE cs[i + 1])
    <3>1. PICK j \in DOMAIN s.arms : j = k + i - 1
      BY <2>6, <2>7
    <3>2. PICK d : d = IF j = Len(s.arms) THEN b ELSE c
      OBVIOUS
    <3>3. Fits(p, S(s.arms[j].body), c, d)
      BY <2>8, <2>10, <3>2, ArmsRun
    <3>4. d = IF i = l THEN b ELSE cs[i + 1]
      <4>1. CASE i = l
        BY <2>6, <2>7, <3>1, <3>2, <4>1
      <4>2. CASE i # l
        <5>1. i + 1 \in 1..l /\ j # n
          BY <2>6, <3>1, <4>2
        <5> QED
          BY <2>7, <2>11, <3>2, <4>2, <5>1
      <4> QED
        BY <4>1, <4>2
    <3> QED
      BY <2>11, <2>12, <3>1, <3>3, <3>4
  <2>15. Chained(p, steps, cs, b)
    BY <2>10, <2>11, <2>12, <2>13, <2>14 DEF Chained
  <2>16. 1 \in 1..l /\ steps # <<>>
    BY <2>6, <2>12
  <2>17. Opens(IF steps = <<>> THEN b ELSE cs[1], a)
    BY <2>10, <2>11, <2>16, WeakerFacts DEF Opens
  <2> QED
    BY <2>3, <2>15, <2>17 DEF Expands
<1> QED
  BY <1>4, <1>5

-----------------------------------------------------------------------------
(* The machine                                                             *)
(*                                                                         *)
(* What a context claims of the memory and of the value on top.            *)

Kept(p) == UNION {Memory(fn.body) : fn \in FunctionsOf(p)}

Holds(p, c, values, written) ==
  /\ IsSequence(values)
  /\ c.flow.live
  /\ c.flow.assigned \cup c.fn.param \cup c.kept \subseteq written
  /\ Kept(p) \subseteq written
  /\ c.sure => values[1] # 0

(* What is left to do fits, and the context on top holds. *)
Ready(p, items, values, written) ==
  \E ctx : Fitting(p, items, ctx) /\ Holds(p, ctx[1], values, written)

LEMMA HoldsOn ==
  ASSUME NEW p, NEW c, NEW d, Opens(d, c), NEW values, NEW written, Holds(p, c, values, written),
         NEW later, IsSequence(later)
  PROVE  Holds(p, d, later, written)
  BY DEF Holds, Opens, Weaker

(* The stack after a step. *)
LEMMA Stacked ==
  ASSUME NEW values, IsSequence(values), NEW pushed, IsSequence(pushed), NEW used \in Nat
  PROVE  IsSequence(pushed \o SubSeq(values, used + 1, Len(values)))
<1>1. PICK A : values \in Seq(A)
  BY DEF IsSequence
<1>2. Len(values) \in Nat
  BY <1>1
<1>3. IsSequence(SubSeq(values, used + 1, Len(values)))
  <2>1. CASE used <= Len(values)
    BY <2>1, Rest
  <2>2. CASE used > Len(values)
    <3>1. SubSeq(values, used + 1, Len(values)) = <<>>
      BY <1>1, <1>2, <2>2
    <3> QED
      BY <3>1, Tuples
  <2> QED
    BY <1>2, <2>1, <2>2
<1> QED
  BY <1>3, Joined

LEMMA TopFits ==
  ASSUME NEW p, NEW items, NEW ctx, Fitting(p, items, ctx), items # <<>>
  PROVE  /\ Right(p, ctx[1]) /\ Right(p, ctx[2]) /\ Fits(p, items[1], ctx[1], ctx[2])
         /\ 1 \in 1..Len(items) /\ Len(items) \in Nat
<1>1. Len(items) \in Nat /\ Len(items) >= 1
  BY TailIs, SequenceIs DEF Fitting
<1>2. 1 \in 1..Len(items) /\ 1 \in 1..(Len(items) + 1) /\ 2 \in 1..(Len(items) + 1) /\ 1 + 1 = 2
  BY <1>1
<1> QED
  BY <1>1, <1>2 DEF Fitting

(* The item on top replaced by its steps. *)
LEMMA ReadyOn ==
  ASSUME NEW p, NEW items, NEW ctx, Fitting(p, items, ctx), items # <<>>,
         NEW values, NEW written, Holds(p, ctx[1], values, written),
         NEW steps, Expands(p, steps, ctx[1], ctx[2]), NEW later, IsSequence(later)
  PROVE  Ready(p, steps \o Tail(items), later, written)
<1>1. PICK c2 : Fitting(p, steps \o Tail(items), c2) /\ Opens(c2[1], ctx[1])
  BY Expanded
<1>2. Holds(p, c2[1], later, written)
  BY <1>1, HoldsOn
<1> QED
  BY <1>1, <1>2 DEF Ready

(* The item on top done with, and gone. *)
LEMMA ReadyBelow ==
  ASSUME NEW p, NEW items, NEW ctx, Fitting(p, items, ctx), items # <<>>,
         NEW later, NEW written, Holds(p, ctx[2], later, written)
  PROVE  Ready(p, <<>> \o Tail(items), later, written)
<1>1. Chained(p, <<>>, <<>>, ctx[2])
  BY Tuples DEF Chained
<1>2. PICK c2 : Pushed(p, <<>>, items, <<>>, ctx[2], c2)
  BY <1>1, Pushing
<1> QED
  BY <1>2 DEF Pushed, Ready

-----------------------------------------------------------------------------
(* A function entered                                                      *)

Owed(b) == b.kept \cup b.flow.assigned \cup b.fn.param

CtxIn(fn, flow, kept) ==
  [fn |-> fn, flow |-> flow, to |-> [name \in {"break", "continue"} |-> Dead],
   kept |-> kept, sure |-> FALSE]

LEMMA InnerRight ==
  ASSUME NEW p, NEW fn \in FunctionsOf(p), NEW flow \in Flows,
         flow.live => flow.assigned \subseteq Tracked(fn.body),
         NEW kept \in SUBSET Names,
         \A v \in kept : \E g \in FunctionsOf(p) : v \in Locals(g) /\ Rank(fn.body) < Rank(g.body),
         NEW c, c = CtxIn(fn, flow, kept)
  PROVE  /\ Right(p, c) /\ c.fn = fn /\ c.flow = flow /\ c.kept = kept /\ ~c.sure
         /\ c.to["break"] = Dead /\ c.to["continue"] = Dead
<1>1. c.fn = fn /\ c.flow = flow /\ c.kept = kept /\ c.sure = FALSE
      /\ c.to = [name \in {"break", "continue"} |-> Dead]
  BY DEF CtxIn
<1>2. Dead \in Flows
  BY DEF Dead, Flows
<1>3. c.to \in [{"break", "continue"} -> Flows] /\ c.to["break"] = Dead /\ c.to["continue"] = Dead
  BY <1>1, <1>2
<1>4. c \in Contexts(p)
  BY <1>3 DEF CtxIn, Contexts
<1> QED
  BY <1>1, <1>3, <1>4 DEF Right

(* The callers count on what is there at the call, and a caller is no      *)
(* function that the one called can reach.                                 *)
EntersBelow(p, fn, b) ==
  \A v \in Owed(b) : \E g \in FunctionsOf(p) : v \in Locals(g) /\ Rank(fn.body) < Rank(g.body)

LEMMA CallBelow ==
  ASSUME NEW p, Good(p), NEW b, Right(p, b), NEW fn \in FunctionsOf(p), Rank(fn.body) < Rank(b.fn.body),
         b.flow.live
  PROVE  EntersBelow(p, fn, b)
<1>1. b.fn \in FunctionsOf(p)
  BY ContextFields DEF Right
<1>2. b.flow.assigned \subseteq Locals(b.fn) /\ b.fn.param \subseteq Locals(b.fn)
  <2>1. b.fn.body \in Nodes
    BY <1>1, GoodFacts
  <2>2. b.flow.assigned \subseteq Tracked(b.fn.body)
    BY DEF Right
  <2> QED
    BY <2>1, <2>2, TrackedNames DEF Locals
<1>3. ASSUME NEW v \in Owed(b)
      PROVE  \E g \in FunctionsOf(p) : v \in Locals(g) /\ Rank(fn.body) < Rank(g.body)
  <2>1. CASE v \in b.kept
    <3>1. PICK g \in FunctionsOf(p) : v \in Locals(g) /\ Rank(b.fn.body) < Rank(g.body)
      BY <2>1 DEF Right
    <3>2. fn.body \in Nodes /\ b.fn.body \in Nodes /\ g.body \in Nodes
      BY <1>1, GoodFacts
    <3>3. Rank(fn.body) \in Nat /\ Rank(b.fn.body) \in Nat /\ Rank(g.body) \in Nat
      BY <3>2, RankIs
    <3> QED
      BY <3>1, <3>3
  <2>2. CASE v \notin b.kept
    BY <1>1, <1>2, <1>3, <2>2 DEF Owed
  <2> QED
    BY <2>1, <2>2
<1> QED
  BY <1>3 DEF EntersBelow

LEMMA StartCarries ==
  ASSUME NEW fn, fn.body \in Nodes
  PROVE  /\ Carries(fn, Start(fn.body)) /\ ~Start(fn.body).reported
         /\ Start(fn.body).flow = [live |-> TRUE, assigned |-> {}]
<1>1. Tracked(fn.body) \in SUBSET Names
  BY TrackedNames, NamesInside
<1>2. Start(fn.body) \in Walks
  BY <1>1 DEF Start, Walks, Flows
<1> QED
  BY <1>2 DEF Start, Carries

LEMMA EnteredFits ==
  ASSUME NEW p, Good(p), NEW b, Right(p, b), b.flow.live, ~b.sure,
         NEW fn \in FunctionsOf(p), EntersBelow(p, fn, b)
  PROVE  \E cs : /\ Chained(p, Entered(fn), cs, b) /\ ~cs[1].sure
                 /\ cs[1].fn = fn /\ cs[1].kept = Owed(b)
                 /\ cs[1].flow.live /\ cs[1].flow.assigned = {}
<1>1. fn.body \in Nodes /\ Accepts(fn)
  BY GoodFacts DEF Good
<1>2. PICK w, body, kept : w = Start(fn.body) /\ body = fn.body /\ kept = Owed(b)
  OBVIOUS
<1>3. Carries(fn, w) /\ w \in Walks /\ w.flow = [live |-> TRUE, assigned |-> {}]
  BY <1>1, <1>2, StartCarries DEF Carries
<1>4. PICK u : u = WalkStmt[body][w]
  OBVIOUS
<1>5. ~u.reported
  BY <1>1, <1>2, <1>4 DEF Accepts, AssignsFirst
<1>6. Moves(Named(body), Declared(body), JumpsOut[body], w, u) /\ u \in Walks
  BY <1>1, <1>2, <1>3, <1>4, WalkStmtFacts
<1>7. Carries(fn, u)
  BY <1>3, <1>6, CarriesOn DEF Moves
<1>8. JumpsOut[body] = {}
  BY <1>1, <1>2, BoundJumps DEF Accepts
<1>9. fn.result => ~u.flow.live
  BY <1>1, <1>2, <1>3, <1>4, TerminatesDead DEF Accepts, ReturnsResult
<1>10. kept \in SUBSET Names
  <2>1. b.kept \in SUBSET Names /\ b.flow.assigned \in SUBSET Names /\ b.fn \in FunctionsOf(p)
    BY ContextFields DEF Right
  <2>2. b.fn.param \in SUBSET Names
    BY <2>1, GoodFacts
  <2> QED
    BY <1>2, <2>1, <2>2 DEF Owed
<1>11. \A v \in kept : \E g \in FunctionsOf(p) : v \in Locals(g) /\ Rank(fn.body) < Rank(g.body)
  BY <1>2 DEF EntersBelow
<1>12. PICK f1 \in Flows, f2 \in Flows : f1 = w.flow /\ f2 = u.flow
  BY <1>3, <1>6, WalkFields
<1>13. PICK c1, c2 : c1 = CtxIn(fn, f1, kept) /\ c2 = CtxIn(fn, f2, kept)
  OBVIOUS
<1>14. /\ Right(p, c1) /\ c1.fn = fn /\ c1.flow = f1 /\ c1.kept = kept /\ ~c1.sure
       /\ c1.to["break"] = Dead /\ c1.to["continue"] = Dead
  <2>1. f1.live => f1.assigned \subseteq Tracked(fn.body)
    BY <1>3, <1>12 DEF Carries
  <2> QED
    BY <1>10, <1>11, <1>13, <2>1, InnerRight
<1>15. /\ Right(p, c2) /\ c2.fn = fn /\ c2.flow = f2 /\ c2.kept = kept /\ ~c2.sure
       /\ c2.to["break"] = Dead /\ c2.to["continue"] = Dead
  <2>1. f2.live => f2.assigned \subseteq Tracked(fn.body)
    BY <1>7, <1>12 DEF Carries
  <2> QED
    BY <1>10, <1>11, <1>13, <2>1, InnerRight
<1>16. Along(c1, c2)
  BY <1>13 DEF Along, CtxIn
<1>17. Fits(p, S(body), c1, c2)
  <2>1. body \in Inside[c1.fn.body]
    BY <1>1, <1>2, <1>14, InsideFacts
  <2>2. Clear(c1.flow, Declared(body))
    BY <1>3, <1>12, <1>14 DEF Clear
  <2>3. Landed(u, JumpsOut[body], c1.to)
    BY <1>8 DEF Landed
  <2>4. Weaker(c2.flow, u.flow)
    BY <1>12, <1>15, WeakerFacts
  <2>5. Carries(c1.fn, w) /\ w.flow = c1.flow
    BY <1>3, <1>12, <1>14
  <2> QED
    BY <1>4, <1>5, <1>15, <1>16, <2>1, <2>2, <2>3, <2>4, <2>5, StmtFits
<1>18. PICK owed : owed = fn.result
  OBVIOUS
<1>19. Fits(p, [do |-> "fallOff", owed |-> owed], c2, c2)
  <2>1. Eases(c2, c2)
    BY WeakerFacts DEF Eases, Along
  <2>2. owed => ~c2.flow.live
    BY <1>9, <1>12, <1>15, <1>18
  <2> QED
    BY <1>15, <2>1, <2>2, FitsRecords
<1>20. Fits(p, Mark("return"), c2, b)
  <2>1. FitsMark("return", c2, b)
    BY <1>2, <1>15 DEF FitsMark, Owed
  <2> QED
    BY <2>1, FitsAre
<1>21. PICK s1, s2, s3 : s1 = S(body) /\ s2 = [do |-> "fallOff", owed |-> owed] /\ s3 = Mark("return")
  OBVIOUS
<1>22. Entered(fn) = <<s1, s2, s3>>
  BY <1>2, <1>18, <1>21 DEF Entered
<1> DEFINE cs == <<c1, c2, c2>>
           ss == <<s1, s2, s3>>
<1>23. cs \in Seq(Contexts(p)) /\ IsSequence(ss) /\ Len(cs) = 3 /\ Len(ss) = 3 /\ cs[1] = c1
  BY <1>14, <1>15, Tuples DEF Right
<1>24. ASSUME NEW i \in 1..3
       PROVE  Right(p, cs[i]) /\ Fits(p, ss[i], cs[i], IF i = 3 THEN b ELSE cs[i + 1])
  <2>1. CASE i = 1
    BY <1>14, <1>17, <1>21, <2>1
  <2>2. CASE i = 2
    BY <1>15, <1>19, <1>21, <2>2
  <2>3. CASE i = 3
    BY <1>15, <1>20, <1>21, <2>3
  <2> QED
    BY <2>1, <2>2, <2>3
<1>25. Chained(p, ss, cs, b)
  BY <1>23, <1>24 DEF Chained
<1>26. cs[1].flow.live /\ cs[1].flow.assigned = {} /\ cs[1].fn = fn /\ cs[1].kept = Owed(b) /\ ~cs[1].sure
  BY <1>2, <1>3, <1>12, <1>14, <1>23
<1> HIDE DEF cs
<1> QED
  BY <1>22, <1>25, <1>26

-----------------------------------------------------------------------------
(* A step leaves what is left to do fitting                                *)

OnTop(p, items, ctx, values, written) ==
  /\ Good(p) /\ Fitting(p, items, ctx) /\ items # <<>> /\ Holds(p, ctx[1], values, written)

LEMMA OnTopFacts ==
  ASSUME NEW p, NEW items, NEW ctx, NEW values, NEW written, OnTop(p, items, ctx, values, written)
  PROVE  /\ Right(p, ctx[1]) /\ Right(p, ctx[2]) /\ Fits(p, items[1], ctx[1], ctx[2])
         /\ ctx[1].flow.live /\ ctx[1].fn \in FunctionsOf(p) /\ ctx[2].fn \in FunctionsOf(p)
         /\ IsSequence(values)
         /\ ctx[1].sure => values[1] # 0
<1>1. Right(p, ctx[1]) /\ Right(p, ctx[2]) /\ Fits(p, items[1], ctx[1], ctx[2])
  BY TopFits DEF OnTop
<1>2. ctx[1].fn \in FunctionsOf(p) /\ ctx[2].fn \in FunctionsOf(p)
  BY <1>1, ContextFields DEF Right
<1> QED
  BY <1>1, <1>2 DEF OnTop, Holds

(* Expressions, statements, rounds, conditions and switches. *)
LEMMA ExpandedReady ==
  ASSUME NEW p, NEW items, NEW ctx, NEW values, NEW written, OnTop(p, items, ctx, values, written),
         NEW item, item = items[1], NEW steps,
         \/ item.do = "expr" /\ steps = ExprSteps(item.x)
         \/ item.do = "stmt" /\ steps = StmtSteps(item.s)
         \/ item.do = "again" /\ steps = Round(item.s)
         \/ item.do = "test" /\ steps = Chosen(item.x, values[1] # 0)
         \/ item.do = "select" /\ steps = ArmsFrom(item.s.arms, values[1]),
         NEW later, IsSequence(later)
  PROVE  Ready(p, steps \o Tail(items), later, written)
<1>1. PICK a, b : a = ctx[1] /\ b = ctx[2]
  OBVIOUS
<1>2. Right(p, a) /\ Right(p, b) /\ Fits(p, item, a, b) /\ a.flow.live /\ (a.sure => values[1] # 0)
      /\ Good(p)
  BY <1>1, OnTopFacts DEF OnTop
<1>3. CASE item.do = "expr" /\ steps = ExprSteps(item.x)
  <2>1. PICK x : x = item.x
    OBVIOUS
  <2>2. FitsExpr(x, a, b)
    BY <1>2, <1>3, <2>1 DEF Fits
  <2>3. Expands(p, steps, a, b)
    BY <1>2, <1>3, <2>1, <2>2, ExprExpands
  <2> QED
    BY <1>1, <2>3, ReadyOn DEF OnTop
<1>4. CASE item.do = "stmt" /\ steps = StmtSteps(item.s)
  <2>1. PICK s : s = item.s
    OBVIOUS
  <2>2. FitsStmt(s, a, b)
    BY <1>2, <1>4, <2>1 DEF Fits
  <2>3. Expands(p, steps, a, b)
    BY <1>2, <1>4, <2>1, <2>2, StmtExpands
  <2> QED
    BY <1>1, <2>3, ReadyOn DEF OnTop
<1>5. CASE item.do = "again" /\ steps = Round(item.s)
  <2>1. PICK s : s = item.s
    OBVIOUS
  <2>2. FitsAgain(s, a, b)
    BY <1>2, <1>5, <2>1 DEF Fits
  <2>3. Expands(p, steps, a, b)
    BY <1>2, <1>5, <2>1, <2>2, AgainExpands
  <2> QED
    BY <1>1, <2>3, ReadyOn DEF OnTop
<1>6. CASE item.do = "test" /\ steps = Chosen(item.x, values[1] # 0)
  <2>1. PICK x : x = item.x
    OBVIOUS
  <2>2. FitsTest(x, a, b)
    BY <1>2, <1>6, <2>1 DEF Fits
  <2>3. PICK held \in BOOLEAN : held = (values[1] # 0)
    OBVIOUS
  <2>4. Expands(p, Chosen(x, held), a, b)
    BY <1>2, <2>2, <2>3, TestExpands
  <2>5. Expands(p, steps, a, b)
    BY <1>6, <2>1, <2>3, <2>4
  <2> QED
    BY <1>1, <2>5, ReadyOn DEF OnTop
<1>7. CASE item.do = "select" /\ steps = ArmsFrom(item.s.arms, values[1])
  <2>1. PICK s, tag : s = item.s /\ tag = values[1]
    OBVIOUS
  <2>2. FitsSelect(s, a, b)
    BY <1>2, <1>7, <2>1 DEF Fits
  <2>3. Expands(p, ArmsFrom(s.arms, tag), a, b)
    BY <1>2, <2>2, SelectExpands
  <2>4. Expands(p, steps, a, b)
    BY <1>7, <2>1, <2>3
  <2> QED
    BY <1>1, <2>4, ReadyOn DEF OnTop
<1> QED
  BY <1>3, <1>4, <1>5, <1>6, <1>7

(* Steps that only work on the stack. *)
LEMMA StackReady ==
  ASSUME NEW p, NEW items, NEW ctx, NEW values, NEW written, OnTop(p, items, ctx, values, written),
         NEW item, item = items[1],
         item.do \in {"drop", "differ", "truth", "ask", "tell", "load", "fallOff", "mark"},
         NEW later, IsSequence(later)
  PROVE  Ready(p, <<>> \o Tail(items), later, written)
<1>1. PICK a, b : a = ctx[1] /\ b = ctx[2]
  OBVIOUS
<1>2. Fits(p, item, a, b) /\ Holds(p, a, values, written)
  BY <1>1, OnTopFacts DEF OnTop
<1>3. CASE item.do \in {"drop", "differ", "truth", "ask", "tell", "load", "fallOff"}
  <2>1. Eases(a, b) /\ ~b.sure
    <3>1. CASE item.do \in {"drop", "differ", "truth", "ask", "tell"}
      BY <1>2, <3>1 DEF Fits
    <3>2. CASE item.do = "load"
      BY <1>2, <3>2 DEF Fits, FitsLoad
    <3>3. CASE item.do = "fallOff"
      BY <1>2, <3>3 DEF Fits
    <3> QED
      BY <1>3, <3>1, <3>2, <3>3
  <2>2. Opens(b, a)
    BY <2>1 DEF Eases, Along, Opens
  <2>3. Holds(p, b, later, written)
    BY <1>2, <2>2, HoldsOn
  <2> QED
    BY <1>1, <2>3, ReadyBelow DEF OnTop
<1>4. CASE item.do = "mark"
  <2>1. PICK name : name = item.at
    OBVIOUS
  <2>2. FitsMark(name, a, b)
    BY <1>2, <1>4, <2>1 DEF Fits
  <2>3. Holds(p, b, later, written)
    <3>1. CASE name = "return"
      BY <1>2, <2>2, <3>1 DEF FitsMark, Holds
    <3>2. CASE name # "return"
      <4>1. Opens(b, a)
        BY <2>2, <3>2 DEF FitsMark, Opens
      <4> QED
        BY <1>2, <4>1, HoldsOn
    <3> QED
      BY <3>1, <3>2
  <2> QED
    BY <1>1, <2>3, ReadyBelow DEF OnTop
<1> QED
  BY <1>3, <1>4

LEMMA NumberReady ==
  ASSUME NEW p, NEW items, NEW ctx, NEW values, NEW written, OnTop(p, items, ctx, values, written),
         NEW item, item = items[1], item.do = "number",
         NEW later, IsSequence(later), later[1] = item.n
  PROVE  Ready(p, <<>> \o Tail(items), later, written)
<1>1. PICK a, b : a = ctx[1] /\ b = ctx[2]
  OBVIOUS
<1>2. Fits(p, item, a, b) /\ Holds(p, a, values, written)
  BY <1>1, OnTopFacts DEF OnTop
<1>3. Eases(a, b) /\ (b.sure => item.n # 0)
  BY <1>2 DEF Fits
<1>4. Holds(p, b, later, written)
  BY <1>2, <1>3 DEF Holds, Eases, Along, Weaker
<1> QED
  BY <1>1, <1>4, ReadyBelow DEF OnTop

LEMMA StoreReady ==
  ASSUME NEW p, NEW items, NEW ctx, NEW values, NEW written, OnTop(p, items, ctx, values, written),
         NEW item, item = items[1], item.do = "store"
  PROVE  \A later : IsSequence(later) => Ready(p, <<>> \o Tail(items), later, written \cup {item.v})
<1>1. PICK a, b : a = ctx[1] /\ b = ctx[2]
  OBVIOUS
<1>2. Fits(p, item, a, b) /\ Holds(p, a, values, written)
  BY <1>1, OnTopFacts DEF OnTop
<1>3. PICK v, more : v = item.v /\ more = written \cup {v}
  OBVIOUS
<1>4. FitsStore(v, a, b)
  BY <1>2, <1>3 DEF Fits
<1>5. ASSUME NEW later, IsSequence(later)
      PROVE  Ready(p, <<>> \o Tail(items), later, more)
  <2>1. Holds(p, b, later, more)
    BY <1>2, <1>3, <1>4, <1>5 DEF Holds, FitsStore, Along
  <2> QED
    BY <1>1, <1>5, <2>1, ReadyBelow DEF OnTop
<1> QED
  BY <1>3, <1>5

(* A local declared again is none that a caller or another declaration needs. *)
LEMMA DeclareReady ==
  ASSUME NEW p, NEW items, NEW ctx, NEW values, NEW written, OnTop(p, items, ctx, values, written),
         NEW item, item = items[1], item.do = "declare",
         NEW later, IsSequence(later),
         NEW rest, rest = IF item.s.register THEN written \ {item.s.v} ELSE written
  PROVE  Ready(p, <<>> \o Tail(items), later, rest)
<1>1. PICK a, b : a = ctx[1] /\ b = ctx[2]
  OBVIOUS
<1>2. Fits(p, item, a, b) /\ Holds(p, a, values, written) /\ Right(p, a) /\ a.fn \in FunctionsOf(p)
      /\ Good(p)
  BY <1>1, OnTopFacts DEF OnTop
<1>3. PICK s, v : s = item.s /\ v = s.v
  OBVIOUS
<1>4. FitsDeclare(s, a, b)
  BY <1>2, <1>3 DEF Fits
<1>5. CASE ~s.register
  <2>1. Holds(p, b, later, rest)
    BY <1>2, <1>3, <1>4, <1>5 DEF Holds, FitsDeclare, Along
  <2> QED
    BY <1>1, <2>1, ReadyBelow DEF OnTop
<1>6. CASE s.register
  <2>1. s \in Inside[a.fn.body] /\ s.k = "decl"
    BY <1>4 DEF FitsDeclare
  <2>2. v \in Tracked(a.fn.body) /\ v \in Declared(a.fn.body) /\ v \in Locals(a.fn)
    BY <1>3, <1>6, <2>1 DEF Tracked, Declared, Locals
  <2>3. v \notin a.fn.param /\ v \notin Memory(a.fn.body)
    BY <1>2, <2>2, GoodFacts
  <2>4. ASSUME NEW g \in FunctionsOf(p), g # a.fn
        PROVE  v \notin Locals(g)
    BY <1>2, <2>2, <2>4, GoodFacts
  <2>5. v \notin Kept(p)
    <3> SUFFICES ASSUME NEW g \in FunctionsOf(p), v \in Memory(g.body) PROVE FALSE
      BY DEF Kept
    <3>1. g # a.fn
      BY <2>3
    <3>2. v \in Declared(g.body)
      BY DEF Memory, Declared
    <3> QED
      BY <2>4, <3>1, <3>2 DEF Locals
  <2>6. v \notin a.kept
    <3> SUFFICES ASSUME v \in a.kept PROVE FALSE
      OBVIOUS
    <3>1. PICK g \in FunctionsOf(p) : v \in Locals(g) /\ Rank(a.fn.body) < Rank(g.body)
      BY <1>2 DEF Right
    <3>2. Rank(a.fn.body) \in Nat
      <4>1. a.fn.body \in Nodes
        BY <1>2, GoodFacts
      <4> QED
        BY <4>1, RankIs
    <3>3. g # a.fn
      BY <3>1, <3>2
    <3> QED
      BY <2>4, <3>1, <3>3
  <2>7. Holds(p, b, later, rest)
    <3>1. a.flow.live /\ b.flow.live /\ b.flow.assigned \subseteq a.flow.assigned \ {v}
          /\ b.fn = a.fn /\ b.kept = a.kept /\ ~b.sure
      BY <1>2, <1>3, <1>4 DEF Holds, FitsDeclare, Along
    <3>2. rest = written \ {v}
      BY <1>3, <1>6
    <3> QED
      BY <1>2, <2>3, <2>5, <2>6, <3>1, <3>2 DEF Holds
  <2> QED
    BY <1>1, <2>7, ReadyBelow DEF OnTop
<1> QED
  BY <1>5, <1>6

LEMMA CallReady ==
  ASSUME NEW p, NEW items, NEW ctx, NEW values, NEW written, OnTop(p, items, ctx, values, written),
         NEW item, item = items[1], item.do = "call",
         NEW later, IsSequence(later), NEW more, written \cup item.fn.param \subseteq more
  PROVE  Ready(p, Entered(item.fn) \o Tail(items), later, more)
<1>1. PICK a, b : a = ctx[1] /\ b = ctx[2]
  OBVIOUS
<1>2. Fits(p, item, a, b) /\ Holds(p, a, values, written) /\ Right(p, a) /\ Right(p, b)
      /\ Good(p)
  BY <1>1, OnTopFacts DEF OnTop
<1>3. PICK fn : fn = item.fn
  OBVIOUS
<1>4. FitsCall(p, fn, a, b)
  BY <1>2, <1>3 DEF Fits
<1>5. Opens(b, a)
  BY <1>4 DEF FitsCall, Eases, Along, Opens
<1>6. Holds(p, b, later, written)
  BY <1>2, <1>5, HoldsOn
<1>7. b.flow.live /\ ~b.sure /\ Owed(b) \subseteq written
  BY <1>5, <1>6 DEF Holds, Opens, Owed
<1>8. fn \in FunctionsOf(p) /\ Rank(fn.body) < Rank(b.fn.body)
  BY <1>4, <1>5 DEF FitsCall, Opens
<1>9. EntersBelow(p, fn, b)
  BY <1>2, <1>7, <1>8, CallBelow
<1>10. PICK cs : /\ Chained(p, Entered(fn), cs, b) /\ ~cs[1].sure
                 /\ cs[1].fn = fn /\ cs[1].kept = Owed(b)
                 /\ cs[1].flow.live /\ cs[1].flow.assigned = {}
  BY <1>2, <1>7, <1>8, <1>9, EnteredFits
<1>11. PICK steps : steps = Entered(fn)
  OBVIOUS
<1>12. steps # <<>>
  BY <1>11 DEF Entered
<1>13. PICK c2 : Pushed(p, steps, items, cs, b, c2)
  BY <1>1, <1>10, <1>11, Pushing DEF OnTop
<1>14. c2[1] = cs[1] /\ Fitting(p, steps \o Tail(items), c2)
  BY <1>12, <1>13 DEF Pushed
<1>15. Holds(p, c2[1], later, more)
  BY <1>3, <1>6, <1>7, <1>10, <1>14 DEF Holds
<1> QED
  BY <1>3, <1>11, <1>14, <1>15 DEF Ready

-----------------------------------------------------------------------------
(* A jump                                                                  *)

(* From a, what is passed over on the way to the mark of name keeps b the   *)
(* state that was to be met there.                                         *)
OnTheWay(name, a, b) ==
  /\ b.kept = a.kept
  /\ name # "return" => b.fn = a.fn /\ b.to[name] = a.to[name]

LEMMA PassedOver ==
  ASSUME NEW p, NEW item, NEW a, NEW b, Right(p, a), Right(p, b), Fits(p, item, a, b),
         NEW name \in {"break", "continue", "return"}, item # Mark(name),
         name # "return" => a.to[name].live
  PROVE  OnTheWay(name, a, b)
<1>1. CASE item.do # "mark"
  <2>1. Along(a, b)
    <3>1. CASE item.do \in {"expr", "stmt", "test", "select", "leave", "store", "declare"}
      BY <3>1 DEF Fits, FitsExpr, FitsStmt, FitsTest, FitsSelect, FitsLeave, FitsStore, FitsDeclare
    <3>2. CASE item.do = "again"
      BY <3>2 DEF Fits, FitsAgain, FitsLoop
    <3>3. CASE item.do \in {"load", "call", "fallOff", "number", "drop", "differ", "truth", "ask", "tell"}
      BY <3>3 DEF Fits, FitsLoad, FitsCall, Eases
    <3> QED
      BY <1>1, <3>1, <3>2, <3>3 DEF Fits
  <2> QED
    BY <2>1 DEF Along, OnTheWay
<1>2. CASE item.do = "mark"
  <2>1. PICK at : at = item.at
    OBVIOUS
  <2>2. item = Mark(at) /\ FitsMark(at, a, b)
    BY <1>2, <2>1 DEF Fits
  <2>3. at # name
    BY <2>2
  <2>4. b.to \in [{"break", "continue"} -> Flows]
    BY RightWalks
  <2>5. CASE at = "return"
    <3>1. a.to["break"] = Dead /\ a.to["continue"] = Dead
      BY <2>2, <2>5 DEF FitsMark
    <3>2. ~a.to["break"].live /\ ~a.to["continue"].live
      BY <3>1 DEF Dead
    <3> QED
      BY <2>3, <2>5, <3>2
  <2>6. CASE at # "return"
    <3>1. a.fn = b.fn /\ a.kept = b.kept /\ a.to = [b.to EXCEPT ![at] = b.flow]
      BY <2>2, <2>6 DEF FitsMark
    <3>2. name # "return" => a.to[name] = b.to[name]
      BY <2>3, <2>4, <3>1
    <3> QED
      BY <3>1, <3>2 DEF OnTheWay
  <2> QED
    BY <2>5, <2>6
<1> QED
  BY <1>1, <1>2

LEMMA Landing ==
  ASSUME NEW p, NEW items, NEW ctx, NEW values, NEW written, OnTop(p, items, ctx, values, written),
         NEW item, item = items[1], item.do = "leave", NEW name, name = item.to,
         NEW q \in 1..Len(items), items[q] = Mark(name), \A i \in 1..(q - 1) : items[i] # Mark(name)
  PROVE  Holds(p, ctx[q + 1], values, written)
<1>1. PICK a : a = ctx[1]
  OBVIOUS
<1>2. Fits(p, item, a, ctx[2]) /\ Holds(p, a, values, written) /\ Right(p, a)
  BY <1>1, OnTopFacts DEF OnTop
<1>3. FitsLeave(name, a, ctx[2])
  BY <1>2 DEF Fits
<1>4. name \in {"break", "continue", "return"} /\ (name # "return" => Weaker(a.to[name], a.flow) /\ a.to[name].live)
  BY <1>2, <1>3 DEF FitsLeave, Holds, Weaker
<1>5. Len(items) \in Nat /\ q \in Nat /\ q >= 1
  BY TopFits DEF OnTop
<1> DEFINE T == {n \in Nat : n + 1 <= q => OnTheWay(name, a, ctx[n + 1])}
<1>6. 0 \in T
  BY <1>1 DEF OnTheWay
<1>7. ASSUME NEW n \in Nat, n \in T PROVE n + 1 \in T
  <2> SUFFICES ASSUME (n + 1) + 1 <= q PROVE OnTheWay(name, a, ctx[(n + 1) + 1])
    OBVIOUS
  <2>1. PICK k : k = n + 1
    OBVIOUS
  <2>2. k \in 1..(q - 1) /\ k \in 1..Len(items) /\ k \in 1..(Len(items) + 1) /\ k + 1 \in 1..(Len(items) + 1)
    BY <1>5, <2>1
  <2>3. PICK c, d : c = ctx[k] /\ d = ctx[k + 1]
    OBVIOUS
  <2>4. OnTheWay(name, a, c)
    BY <1>7, <2>1, <2>3
  <2>5. Right(p, c) /\ Right(p, d) /\ Fits(p, items[k], c, d)
    BY <2>2, <2>3 DEF OnTop, Fitting
  <2>6. items[k] # Mark(name)
    BY <2>2
  <2>7. name # "return" => c.to[name].live
    BY <1>4, <2>4 DEF OnTheWay
  <2>8. OnTheWay(name, c, d)
    BY <1>4, <2>5, <2>6, <2>7, PassedOver
  <2>9. OnTheWay(name, a, d)
    BY <2>4, <2>8 DEF OnTheWay
  <2> QED
    BY <2>1, <2>3, <2>9
<1> HIDE DEF T
<1>8. q - 1 \in T
  <2>1. q - 1 \in Nat
    BY <1>5
  <2> QED
    BY <1>6, <1>7, <2>1, Facts!Induction
<1>9. PICK c, d : c = ctx[q] /\ d = ctx[q + 1]
  OBVIOUS
<1>10. OnTheWay(name, a, c)
  <2>1. (q - 1) + 1 = q
    BY <1>5
  <2> QED
    BY <1>8, <1>9, <2>1 DEF T
<1>11. Right(p, c) /\ Right(p, d) /\ Fits(p, Mark(name), c, d)
  <2>1. q \in 1..(Len(items) + 1) /\ q + 1 \in 1..(Len(items) + 1)
    BY <1>5
  <2> QED
    BY <1>9, <2>1 DEF OnTop, Fitting
<1>12. FitsMark(name, c, d)
  BY <1>11, FitsAre
<1>13. CASE name = "return"
  <2>1. d.flow.live /\ c.kept = d.kept \cup d.flow.assigned \cup d.fn.param /\ ~d.sure
    BY <1>12, <1>13 DEF FitsMark
  <2>2. c.kept = a.kept
    BY <1>10 DEF OnTheWay
  <2> QED
    BY <1>2, <1>9, <2>1, <2>2 DEF Holds
<1>14. CASE name # "return"
  <2>1. c.fn = d.fn /\ c.kept = d.kept /\ c.to = [d.to EXCEPT ![name] = d.flow] /\ ~d.sure
    BY <1>12, <1>14 DEF FitsMark
  <2>2. d.to \in [{"break", "continue"} -> Flows]
    BY <1>11, RightWalks
  <2>3. c.to[name] = d.flow
    BY <1>4, <1>14, <2>1, <2>2
  <2>4. Opens(d, a)
    BY <1>4, <1>10, <1>14, <2>1, <2>3 DEF Opens, OnTheWay
  <2>5. IsSequence(values)
    BY <1>2 DEF Holds
  <2> QED
    BY <1>2, <1>9, <2>4, <2>5, HoldsOn
<1> QED
  BY <1>13, <1>14

LEMMA LeaveReady ==
  ASSUME NEW p, NEW items, NEW ctx, NEW values, NEW written, OnTop(p, items, ctx, values, written),
         NEW item, item = items[1], item.do = "leave", NEW name, name = item.to,
         NEW q \in 1..Len(items), items[q] = Mark(name), \A i \in 1..(q - 1) : items[i] # Mark(name)
  PROVE  Ready(p, SubSeq(items, q + 1, Len(items)), values, written)
<1>1. PICK n : n = Len(items)
  OBVIOUS
<1>2. n \in Nat /\ q \in Nat /\ q >= 1 /\ q <= n /\ IsSequence(items)
  BY <1>1, TopFits DEF OnTop, Fitting
<1>3. ctx \in Seq(Contexts(p)) /\ Len(ctx) = n + 1
  BY <1>1 DEF OnTop, Fitting
<1>4. PICK items2, c2 : items2 = SubSeq(items, q + 1, Len(items)) /\ c2 = SubSeq(ctx, q + 1, Len(ctx))
  OBVIOUS
<1>5. IsSequence(items2) /\ Len(items2) = n - q /\ \A i \in 1..(n - q) : items2[i] = items[i + q]
  BY <1>1, <1>2, <1>4, Rest
<1>6. /\ c2 \in Seq(Contexts(p)) /\ Len(c2) = (n + 1) - q
      /\ \A i \in 1..((n + 1) - q) : c2[i] = ctx[i + q]
  <2>1. IsSequence(ctx) /\ q <= Len(ctx)
    BY <1>2, <1>3 DEF IsSequence
  <2>2. Len(c2) = (n + 1) - q /\ \A i \in 1..((n + 1) - q) : c2[i] = ctx[i + q]
    BY <1>2, <1>3, <1>4, <2>1, Rest
  <2>3. c2 \in Seq(Contexts(p))
    BY <1>2, <1>3, <1>4
  <2> QED
    BY <2>2, <2>3
<1>7. ASSUME NEW i \in 1..(Len(items2) + 1) PROVE Right(p, c2[i])
  <2>1. i \in 1..((n + 1) - q) /\ i + q \in 1..(n + 1)
    BY <1>2, <1>5
  <2> QED
    BY <1>1, <1>6, <2>1 DEF OnTop, Fitting
<1>8. ASSUME NEW i \in 1..Len(items2) PROVE Fits(p, items2[i], c2[i], c2[i + 1])
  <2>1. PICK k : k = i + q
    OBVIOUS
  <2>2. /\ i \in 1..(n - q) /\ i \in 1..((n + 1) - q) /\ i + 1 \in 1..((n + 1) - q)
        /\ k \in 1..n /\ (i + 1) + q = k + 1
    BY <1>2, <1>5, <2>1
  <2>3. Fits(p, items[k], ctx[k], ctx[k + 1])
    BY <1>1, <2>2 DEF OnTop, Fitting
  <2>4. items2[i] = items[k] /\ c2[i] = ctx[k] /\ c2[i + 1] = ctx[k + 1]
    BY <1>5, <1>6, <2>1, <2>2
  <2> QED
    BY <2>3, <2>4
<1>9. Len(c2) = Len(items2) + 1
  BY <1>2, <1>5, <1>6
<1>10. Fitting(p, items2, c2)
  BY <1>5, <1>6, <1>7, <1>8, <1>9 DEF Fitting
<1>11. c2[1] = ctx[q + 1]
  <2>1. 1 \in 1..((n + 1) - q) /\ 1 + q = q + 1
    BY <1>2
  <2> QED
    BY <1>6, <2>1
<1>12. Holds(p, c2[1], values, written)
  BY <1>11, Landing
<1> QED
  BY <1>4, <1>10, <1>12 DEF Ready

-----------------------------------------------------------------------------
(* What the machine keeps                                                  *)

Fitted(p) == Ready(p, todo, vals, DOMAIN mem)

(* A step of the item on top, of a program without the last arms at fault. *)
LEMMA StepReady ==
  ASSUME NEW p, Good(p), Fitted(p), todo # <<>>, ~Undefined(todo[1]), Perform(todo[1])
  PROVE  Fitted(p)'
<1>1. PICK ctx, item, written : /\ OnTop(p, todo, ctx, vals, written) /\ item = todo[1]
                                /\ written = DOMAIN mem
  BY DEF Fitted, Ready, OnTop
<1>2. IsSequence(vals)
  BY <1>1, OnTopFacts
<1>3. ASSUME NEW steps, NEW pushed, IsSequence(pushed), NEW used \in Nat, Does(steps, pushed, used)
      PROVE  IsSequence(vals') /\ todo' = steps \o Tail(todo)
  BY <1>2, <1>3, Stacked DEF Does
<1>4. IsSequence(<<>>) /\ \A x : IsSequence(<<x>>)
  BY Tuples
<1>5. 0 \in Nat /\ 1 \in Nat /\ 2 \in Nat
  OBVIOUS
<1>6. SUFFICES Ready(p, todo', vals', DOMAIN mem')
  BY DEF Fitted
(* Steps put in place of the item. *)
<1>7. ASSUME NEW steps, NEW used \in Nat, Pure(steps, <<>>, used),
             \/ item.do = "expr" /\ steps = ExprSteps(item.x)
             \/ item.do = "stmt" /\ steps = StmtSteps(item.s)
             \/ item.do = "again" /\ steps = Round(item.s)
             \/ item.do = "test" /\ steps = Chosen(item.x, vals[1] # 0)
             \/ item.do = "select" /\ steps = ArmsFrom(item.s.arms, vals[1])
      PROVE  Ready(p, todo', vals', DOMAIN mem')
  <2>1. PICK later : later = vals'
    OBVIOUS
  <2>2. IsSequence(later) /\ todo' = steps \o Tail(todo) /\ DOMAIN mem' = written
    BY <1>1, <1>3, <1>4, <1>7, <2>1 DEF Pure
  <2>3. Ready(p, steps \o Tail(todo), later, written)
    BY <1>1, <1>7, <2>2, ExpandedReady
  <2> QED
    BY <2>1, <2>2, <2>3
(* Steps on the stack. *)
<1>8. ASSUME NEW pushed, IsSequence(pushed), NEW used \in Nat, Pure(<<>>, pushed, used),
             item.do \in {"drop", "differ", "truth", "load", "fallOff", "mark"}
      PROVE  Ready(p, todo', vals', DOMAIN mem')
  <2>1. PICK later : later = vals'
    OBVIOUS
  <2>2. IsSequence(later) /\ todo' = <<>> \o Tail(todo) /\ DOMAIN mem' = written
    BY <1>1, <1>3, <1>8, <2>1 DEF Pure
  <2>3. Ready(p, <<>> \o Tail(todo), later, written)
    BY <1>1, <1>8, <2>2, StackReady
  <2> QED
    BY <2>1, <2>2, <2>3
<1>9. CASE item.do = "expr" /\ Pure(ExprSteps(item.x), <<>>, 0)
  BY <1>5, <1>7, <1>9
<1>10. CASE item.do = "stmt" /\ Pure(StmtSteps(item.s), <<>>, 0)
  BY <1>5, <1>7, <1>10
<1>11. CASE item.do = "again" /\ Pure(Round(item.s), <<>>, 0)
  BY <1>5, <1>7, <1>11
<1>12. CASE item.do = "test" /\ Pure(Chosen(item.x, vals[1] # 0), <<>>, 1)
  BY <1>5, <1>7, <1>12
<1>13. CASE item.do = "select" /\ Pure(ArmsFrom(item.s.arms, vals[1]), <<>>, 1)
  BY <1>5, <1>7, <1>13
<1>14. CASE item.do = "mark" /\ Pure(<<>>, <<>>, 0)
  BY <1>4, <1>5, <1>8, <1>14
<1>15. CASE item.do = "drop" /\ Pure(<<>>, <<>>, 1)
  BY <1>4, <1>5, <1>8, <1>15
<1>16. CASE item.do = "load" /\ Pure(<<>>, <<mem[item.v]>>, 0)
  BY <1>4, <1>5, <1>8, <1>16
<1>17. CASE item.do = "differ" /\ Pure(<<>>, <<Truth01(vals[1] # vals[2])>>, 2)
  BY <1>4, <1>5, <1>8, <1>17
<1>18. CASE item.do = "truth" /\ Pure(<<>>, <<Truth01(vals[1] # 0)>>, 1)
  BY <1>4, <1>5, <1>8, <1>18
<1>19. CASE item.do = "fallOff" /\ Pure(<<>>, <<0>>, 0)
  BY <1>4, <1>5, <1>8, <1>19
<1>20. CASE item.do = "number" /\ Pure(<<>>, <<item.n>>, 0)
  <2>1. PICK later, n : later = vals' /\ n = item.n
    OBVIOUS
  <2>2. IsSequence(later) /\ todo' = <<>> \o Tail(todo) /\ DOMAIN mem' = written
    BY <1>1, <1>3, <1>4, <1>5, <1>20, <2>1 DEF Pure
  <2>3. later[1] = n
    <3>1. PICK under : under = SubSeq(vals, 0 + 1, Len(vals))
      OBVIOUS
    <3>2. IsSequence(<<>> \o under)
      BY <1>2, <1>4, <1>5, <3>1, Stacked
    <3>3. later = <<n>> \o under
      BY <1>20, <2>1, <3>1 DEF Pure, Does
    <3>4. IsSequence(under)
      <4>1. 0 \in Nat /\ 0 <= Len(vals)
        BY <1>2, SequenceIs
      <4> QED
        BY <1>2, <3>1, <4>1, Rest
    <3>5. PICK one : one = <<n>>
      OBVIOUS
    <3>6. IsSequence(one) /\ 1 \in 1..Len(one) /\ one[1] = n
      BY <1>4, <3>5
    <3>7. (one \o under)[1] = one[1]
      BY <3>4, <3>6, Joined
    <3> QED
      BY <3>3, <3>5, <3>6, <3>7
  <2>4. Ready(p, <<>> \o Tail(todo), later, written)
    BY <1>1, <1>20, <2>1, <2>2, <2>3, NumberReady
  <2> QED
    BY <2>1, <2>2, <2>4
<1>21. CASE item.do = "store" /\ Does(<<>>, <<>>, 0) /\ mem' = Wrote(item.v, vals[1])
  <2>1. PICK later : later = vals'
    OBVIOUS
  <2>2. IsSequence(later) /\ todo' = <<>> \o Tail(todo)
    BY <1>3, <1>4, <1>5, <1>21, <2>1
  <2>3. DOMAIN mem' = written \cup {item.v}
    BY <1>1, <1>21 DEF Wrote
  <2>4. Ready(p, <<>> \o Tail(todo), later, written \cup {item.v})
    BY <1>1, <1>21, <2>2, StoreReady
  <2> QED
    BY <2>1, <2>2, <2>3, <2>4
<1>22. CASE item.do = "call" /\ Enter(item.fn)
  <2>1. PICK later, fn, more : later = vals' /\ fn = item.fn /\ more = DOMAIN mem'
    OBVIOUS
  <2>2. Does(Entered(fn), <<>>, 1)
        /\ mem' = IF fn.param = {} THEN mem ELSE Wrote(CHOOSE v \in fn.param : TRUE, vals[1])
    BY <1>22, <2>1 DEF Enter
  <2>3. IsSequence(later) /\ todo' = Entered(fn) \o Tail(todo)
    BY <1>3, <1>4, <1>5, <2>1, <2>2
  <2>4. fn \in FunctionsOf(p)
    <3>1. Fits(p, item, ctx[1], ctx[2])
      BY <1>1, OnTopFacts
    <3>2. FitsCall(p, fn, ctx[1], ctx[2])
      BY <1>22, <2>1, <3>1 DEF Fits
    <3> QED
      BY <3>2 DEF FitsCall
  <2>5. \A v, u \in fn.param : v = u
    BY <2>4 DEF Good, Scoped, Resolved
  <2>6. written \cup fn.param \subseteq more
    <3>1. CASE fn.param = {}
      BY <1>1, <2>1, <2>2, <3>1
    <3>2. CASE fn.param # {}
      <4>1. PICK v : v = CHOOSE u \in fn.param : TRUE
        OBVIOUS
      <4>2. v \in fn.param
        BY <3>2, <4>1
      <4>3. mem' = Wrote(v, vals[1])
        BY <2>2, <3>2, <4>1
      <4>4. more = written \cup {v}
        BY <1>1, <2>1, <4>3 DEF Wrote
      <4> QED
        BY <2>5, <4>2, <4>4
    <3> QED
      BY <3>1, <3>2
  <2>7. Ready(p, Entered(fn) \o Tail(todo), later, more)
    BY <1>1, <1>22, <2>1, <2>3, <2>6, CallReady
  <2> QED
    BY <2>1, <2>3, <2>7
<1>23. CASE item.do = "declare" /\ Declare(item.s)
  <2>1. PICK later, s, rest : later = vals' /\ s = item.s /\ rest = DOMAIN mem'
    OBVIOUS
  <2>2. /\ Does(<<>>, <<>>, 0)
        /\ mem' = IF s.register THEN Restrict(mem, DOMAIN mem \ {s.v}) ELSE mem
    BY <1>23, <2>1 DEF Declare
  <2>3. IsSequence(later) /\ todo' = <<>> \o Tail(todo)
    BY <1>3, <1>4, <1>5, <2>1, <2>2
  <2>4. rest = IF s.register THEN written \ {s.v} ELSE written
    BY <1>1, <2>1, <2>2 DEF Restrict
  <2>5. Ready(p, <<>> \o Tail(todo), later, rest)
    BY <1>1, <1>23, <2>1, <2>3, <2>4, DeclareReady
  <2> QED
    BY <2>1, <2>3, <2>5
<1>24. CASE item.do = "leave" /\ Leave(item.to)
  <2>1. PICK name : name = item.to
    OBVIOUS
  <2>2. PICK q \in DOMAIN todo : /\ todo[q] = Mark(name)
                                 /\ \A i \in 1..(q - 1) : todo[i] # Mark(name)
                                 /\ todo' = SubSeq(todo, q + 1, Len(todo))
    BY <1>24, <2>1 DEF Leave
  <2>3. q \in 1..Len(todo)
    BY <1>1, <2>2, SequenceIs DEF OnTop, Fitting
  <2>4. Ready(p, SubSeq(todo, q + 1, Len(todo)), vals, written)
    BY <1>1, <1>24, <2>1, <2>2, <2>3, LeaveReady
  <2> QED
    BY <1>1, <1>24, <2>2, <2>4 DEF Leave
<1> QED
  BY <1>1, <1>9, <1>10, <1>11, <1>12, <1>13, <1>14, <1>15, <1>16, <1>17, <1>18, <1>19, <1>20,
     <1>21, <1>22, <1>23, <1>24 DEF Perform

LEMMA ShowReady ==
  ASSUME NEW p, Good(p), Fitted(p), todo # <<>>, Shows(todo[1]), NEW n,
         IF todo[1].do = "ask" THEN Pure(<<>>, <<n>>, 0) ELSE Pure(<<>>, <<>>, 0)
  PROVE  Fitted(p)'
<1>1. PICK ctx, item, written : /\ OnTop(p, todo, ctx, vals, written) /\ item = todo[1]
                                /\ written = DOMAIN mem
  BY DEF Fitted, Ready, OnTop
<1>2. IsSequence(vals) /\ item.do \in {"ask", "tell"}
  BY <1>1, OnTopFacts DEF Shows
<1>3. PICK pushed : IsSequence(pushed) /\ Pure(<<>>, pushed, 0)
  BY Tuples
<1>4. PICK later : later = vals'
  OBVIOUS
<1>5. IsSequence(later) /\ todo' = <<>> \o Tail(todo) /\ DOMAIN mem' = written
  <2>1. 0 \in Nat
    OBVIOUS
  <2> QED
    BY <1>1, <1>2, <1>3, <1>4, <2>1, Stacked DEF Pure, Does
<1>6. Ready(p, <<>> \o Tail(todo), later, written)
  BY <1>1, <1>2, <1>5, StackReady
<1> QED
  BY <1>4, <1>5, <1>6 DEF Fitted

LEMMA StartReady ==
  ASSUME NEW p, Good(p), NEW written, Kept(p) \subseteq written
  PROVE  Ready(p, Entered(p.main), <<>>, written)
<1>1. PICK fn, f : fn = p.main /\ f = [live |-> TRUE, assigned |-> {}]
  OBVIOUS
<1>2. fn \in FunctionsOf(p) /\ f \in Flows /\ fn.param = {} /\ f.live /\ f.assigned = {}
  BY <1>1 DEF FunctionsOf, Flows, Good, Scoped
<1>3. PICK b : b = CtxIn(fn, f, {})
  OBVIOUS
<1>4. Right(p, b) /\ b.fn = fn /\ b.flow = f /\ b.kept = {} /\ ~b.sure
  <2>1. {} \in SUBSET Names
    OBVIOUS
  <2>2. PICK none \in SUBSET Names : none = {}
    BY <2>1
  <2> QED
    BY <1>2, <1>3, <2>2, InnerRight
<1>5. EntersBelow(p, fn, b) /\ Owed(b) = {}
  BY <1>2, <1>4 DEF EntersBelow, Owed
<1>6. PICK steps : steps = Entered(fn)
  OBVIOUS
<1>7. PICK cs : /\ Chained(p, steps, cs, b) /\ ~cs[1].sure
                /\ cs[1].fn = fn /\ cs[1].kept = {}
                /\ cs[1].flow.live /\ cs[1].flow.assigned = {}
  <2>1. b.flow.live /\ ~b.sure /\ Right(p, b) /\ fn \in FunctionsOf(p) /\ EntersBelow(p, fn, b)
    BY <1>2, <1>4, <1>5
  <2>2. PICK cs : /\ Chained(p, Entered(fn), cs, b) /\ ~cs[1].sure
                  /\ cs[1].fn = fn /\ cs[1].kept = Owed(b)
                  /\ cs[1].flow.live /\ cs[1].flow.assigned = {}
    BY <2>1, EnteredFits
  <2> QED
    BY <1>5, <1>6, <2>2
(* An item below the entered body is not there: one that is dropped stands for it. *)
<1>8. PICK items, ctx : items = <<Step("drop")>> /\ ctx = <<b, b>>
  OBVIOUS
<1>9. Fitting(p, items, ctx) /\ items # <<>> /\ Tail(items) = <<>> /\ ctx[2] = b
  <2>1. IsSequence(items) /\ Len(items) = 1 /\ ctx \in Seq(Contexts(p)) /\ Len(ctx) = 2
    BY <1>4, <1>8, Tuples DEF Right
  <2>2. Eases(b, b)
    BY WeakerFacts DEF Eases, Along
  <2>3. Fits(p, Step("drop"), b, b)
    BY <1>4, <2>2, FitsAre
  <2>4. \A i \in 1..2 : Right(p, ctx[i])
    BY <1>4, <1>8
  <2>5. \A i \in 1..1 : Fits(p, items[i], ctx[i], ctx[i + 1])
    <3>1. Fits(p, items[1], ctx[1], ctx[2])
      BY <1>8, <2>3
    <3>2. \A i \in 1..1 : i = 1 /\ i + 1 = 2
      OBVIOUS
    <3> QED
      BY <3>1, <3>2
  <2>6. items # <<>> /\ Tail(items) = <<>> /\ ctx[2] = b
    BY <1>8
  <2>7. 1 + 1 = 2
    OBVIOUS
  <2> QED
    BY <2>1, <2>4, <2>5, <2>6, <2>7 DEF Fitting
<1>10. PICK c2 : Pushed(p, steps, items, cs, b, c2)
  BY <1>7, <1>9, Pushing
<1>11. steps # <<>> /\ steps \o Tail(items) = steps
  <2>1. steps # <<>> /\ steps \o <<>> = steps
    BY <1>6 DEF Entered
  <2> QED
    BY <1>9, <2>1
<1>12. c2[1] = cs[1] /\ Fitting(p, steps, c2)
  BY <1>10, <1>11 DEF Pushed
<1>13. Holds(p, c2[1], <<>>, written)
  BY <1>2, <1>7, <1>12, Tuples DEF Holds
<1> QED
  BY <1>1, <1>6, <1>12, <1>13 DEF Ready

-----------------------------------------------------------------------------
(* Until it is accepted nothing runs; then what is left to do fits.        *)
SourceInv ==
  /\ prog \in DOMAIN Programs
  /\ ~compiled => /\ todo \in {<<>>, Entered(Programs[prog].main)} /\ vals = <<>>
                  /\ DOMAIN mem = Kept(Programs[prog])
  /\ compiled => Accepted[prog] /\ Fitted(Programs[prog])

LEMMA AcceptedGood ==
  ASSUME prog \in DOMAIN Programs, Accepted[prog], LastArmsHeld(Programs[prog])
  PROVE  Good(Programs[prog])
<1>1. \A fn \in FunctionsOf(Programs[prog]) : Accepts(fn)
  BY DEF Accepted
<1>2. Scoped(Programs[prog])
  BY ProgramsAssumption
<1> QED
  BY <1>1, <1>2 DEF Good

LEMMA SourceInitInv ==
  ASSUME SourceInit
  PROVE  SourceInv
  BY DEF SourceInit, SourceInv, Kept

LEMMA SourceNextInv ==
  ASSUME LastArmsHeld(Programs[prog]), SourceInv, [SourceNext]_<<prog, compiled, source>>
  PROVE  SourceInv'
<1>1. PICK p : p = Programs[prog]
  OBVIOUS
<1>2. CASE UNCHANGED <<prog, compiled, source>>
  <2>1. Fitted(Programs[prog]) => Fitted(Programs[prog])'
    BY <1>2 DEF Fitted, source
  <2> QED
    BY <1>2, <2>1 DEF SourceInv, source
<1>3. CASE Reject
  BY <1>3 DEF Reject, SourceInv
<1>4. CASE Accept
  <2>1. /\ prog \in DOMAIN Programs /\ Accepted[prog] /\ compiled'
        /\ UNCHANGED <<prog, todo, vals, mem>>
        /\ todo = Entered(p.main) /\ vals = <<>> /\ DOMAIN mem = Kept(p)
    BY <1>1, <1>4 DEF Accept, SourceInv, source
  <2>2. Good(p)
    BY <1>1, <2>1, AcceptedGood
  <2>3. PICK written : written = DOMAIN mem
    OBVIOUS
  <2>4. Ready(p, Entered(p.main), <<>>, written)
    BY <2>1, <2>2, <2>3, StartReady
  <2>5. Fitted(Programs[prog])'
    BY <1>1, <2>1, <2>3, <2>4 DEF Fitted
  <2> QED
    BY <2>1, <2>5 DEF SourceInv
<1>5. ASSUME compiled, UNCHANGED <<prog, compiled>>,
             SourceStep \/ \E n \in Answers : SourceShow(n)
      PROVE  SourceInv'
  <2>1. prog \in DOMAIN Programs /\ Accepted[prog] /\ Fitted(p)
    BY <1>1, <1>5 DEF SourceInv
  <2>2. Good(p)
    BY <1>1, <2>1, AcceptedGood
  <2>3. Fitted(p)'
    <3>1. CASE SourceStep
      <4>1. todo # <<>> /\ ~Undefined(todo[1]) /\ Perform(todo[1])
        BY <3>1 DEF SourceStep
      <4> QED
        BY <2>1, <2>2, <4>1, StepReady
    <3>2. ASSUME NEW n \in Answers, SourceShow(n) PROVE Fitted(p)'
      <4>1. todo # <<>> /\ Shows(todo[1])
            /\ IF todo[1].do = "ask" THEN Pure(<<>>, <<n>>, 0) ELSE Pure(<<>>, <<>>, 0)
        BY <3>2 DEF SourceShow
      <4> QED
        BY <2>1, <2>2, <4>1, ShowReady
    <3> QED
      BY <1>5, <3>1, <3>2
  <2>4. Fitted(Programs[prog])'
    BY <1>1, <1>5, <2>3 DEF Fitted
  <2> QED
    BY <1>5, <2>1, <2>4 DEF SourceInv
<1>6. SourceStep \/ (\E n \in Answers : SourceShow(n)) => compiled /\ UNCHANGED <<prog, compiled>>
  BY DEF SourceStep, SourceShow
<1> QED
  BY <1>2, <1>3, <1>4, <1>5, <1>6 DEF SourceNext

(* The item on top of what fits uses nothing that was never written.       *)
LEMMA FittedDefined ==
  ASSUME NEW p, Good(p), Fitted(p), todo # <<>>
  PROVE  ~Undefined(todo[1])
<1>1. PICK ctx, item, written : /\ OnTop(p, todo, ctx, vals, written) /\ item = todo[1]
                                /\ written = DOMAIN mem
  BY DEF Fitted, Ready, OnTop
<1>2. PICK a, b : a = ctx[1] /\ b = ctx[2]
  OBVIOUS
<1>3. Fits(p, item, a, b) /\ Holds(p, a, vals, written) /\ a.fn \in FunctionsOf(p) /\ a.flow.live
  BY <1>1, <1>2, OnTopFacts DEF OnTop
<1>4. CASE item.do = "load"
  <2>1. PICK v : v = item.v
    OBVIOUS
  <2>2. v \in Locals(a.fn) /\ (v \in Tracked(a.fn.body) => v \in a.flow.assigned)
    BY <1>3, <1>4, <2>1 DEF Fits, FitsLoad
  <2>3. a.fn.body \in Nodes
    BY <1>3, GoodFacts
  <2>4. v \in a.fn.param \/ v \in Memory(a.fn.body) \/ v \in Tracked(a.fn.body)
    BY <2>2, <2>3, TrackedNames DEF Locals
  <2>5. v \in written
    BY <1>3, <2>2, <2>4 DEF Holds, Kept
  <2> QED
    BY <1>1, <1>4, <2>1, <2>5 DEF Undefined
<1>5. CASE item.do = "fallOff"
  <2>1. ~item.owed
    BY <1>3, <1>5 DEF Fits
  <2> QED
    BY <1>1, <1>5, <2>1 DEF Undefined
<1>6. CASE item.do \notin {"load", "fallOff"}
  BY <1>1, <1>6 DEF Undefined
<1> QED
  BY <1>4, <1>5, <1>6

(* Whatever the machine answers, an accepted program in which no switch    *)
(* with a default ends in an empty arm never reads a local that has not    *)
(* been written since it was declared, and never comes to the end of a     *)
(* function without the result it owes.                                    *)
THEOREM SourceAssigned == SourceSpec => [](LastArmsHeld(Programs[prog]) => AssignedBeforeRead)
<1> DEFINE I == LastArmsHeld(Programs[prog]) => SourceInv
<1>1. SourceInit => I
  BY SourceInitInv
<1>2. I /\ [SourceNext]_<<prog, compiled, source>> => I'
  <2> SUFFICES ASSUME I, [SourceNext]_<<prog, compiled, source>>, LastArmsHeld(Programs[prog])'
               PROVE  SourceInv'
    OBVIOUS
  <2>1. prog' = prog
    BY DEF SourceNext, Reject, Accept, SourceStep, SourceShow, source
  <2>2. LastArmsHeld(Programs[prog])
    BY <2>1
  <2> QED
    BY <2>2, SourceNextInv
<1>3. I => (LastArmsHeld(Programs[prog]) => AssignedBeforeRead)
  <2> SUFFICES ASSUME SourceInv, LastArmsHeld(Programs[prog]), compiled, todo # <<>>
               PROVE  ~Undefined(todo[1])
    BY DEF AssignedBeforeRead
  <2>1. prog \in DOMAIN Programs /\ Accepted[prog] /\ Fitted(Programs[prog])
    BY DEF SourceInv
  <2>2. PICK p : p = Programs[prog]
    OBVIOUS
  <2>3. Good(p)
    BY <2>1, <2>2, AcceptedGood
  <2> QED
    BY <2>1, <2>2, <2>3, FittedDefined
<1> QED
  BY <1>1, <1>2, <1>3, PTL DEF SourceSpec
=============================================================================
