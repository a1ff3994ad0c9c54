---------------------------- MODULE FrameMeasure ----------------------------
(***************************************************************************)
(* What internal/frames works out from a program's calls: how many slots   *)
(* the chain above and below each function holds, and how many activations *)
(* of each recursion the remaining slots have room for.  A call graph g    *)
(* gives each function its calls: whom, and how many registers are saved   *)
(* around the call.                                                        *)
(***************************************************************************)
EXTENDS Integers, FiniteSets, FiniteSetsExt

CONSTANTS
  Funcs,       \* functions of the program
  Entry        \* the one control starts in

Site == [callee : Funcs, saves : Nat]

ASSUME FuncsAssumption == Entry \in Funcs /\ IsFiniteSet(Funcs)

Callees(g, f) == {s.callee : s \in g[f]}

(* A function reached by jal that calls out saves its return address.      *)
Prologue(g, f) == IF f # Entry /\ g[f] # {} THEN 1 ELSE 0

Held(g, f, s) == Prologue(g, f) + s.saves

-----------------------------------------------------------------------------
(* Components and reachability *)

CalledFrom(g, S) == UNION {Callees(g, f) : f \in S}

(* Functions entered while an activation of f is on the stack.             *)
Below(g, f) ==
  LET within[n \in 0..Cardinality(Funcs)] ==
        IF n = 0 THEN Callees(g, f) ELSE within[n - 1] \cup CalledFrom(g, within[n - 1])
  IN  within[Cardinality(Funcs)]

\* Seeded fault: only what the entry point calls itself counts as reached.
ReachableDirectly(g) == {Entry} \cup Callees(g, Entry)

Reachable(g) == {Entry} \cup Below(g, Entry)

IsRecursive(g, f) == f \in Below(g, f)

Component(g, f) == {f} \cup {h \in Below(g, f) : f \in Below(g, h)}

-----------------------------------------------------------------------------
(* widest: the largest of several amounts, exact when there was no choice  *)

Candidate(amount, exact) == [amount |-> amount, exact |-> exact]

\* Seeded fault: a choice between different amounts still passes for exact.
WidestChosen(candidates) ==
  [amount |-> Max({c.amount : c \in candidates} \cup {0}),
   exact  |-> \A c \in candidates : c.exact,
   seen   |-> candidates # {}]

Widest(candidates) ==
  [amount |-> Max({c.amount : c \in candidates} \cup {0}),
   exact  |-> \A c, d \in candidates : c.exact /\ c.amount = d.amount,
   seen   |-> candidates # {}]

Unseen == Widest({})

Plus(held, w) == Candidate(held + w.amount, w.exact)

(* What the chains into a function hold when it is entered; unseen for a   *)
(* member of a recursion, and for whatever a recursion calls into.         *)
Entered(g) ==
  LET live == {u \in Reachable(g) : ~IsRecursive(g, u)}
      callers(f) == {u \in Reachable(g) : f \in Callees(g, u)}
      e[f \in Funcs] ==
        IF f \notin live \/ \E u \in callers(f) : IsRecursive(g, u) \/ ~e[u].seen
        THEN Unseen
        ELSE Widest((IF f = Entry THEN {Candidate(0, TRUE)} ELSE {})
                    \cup UNION {{Plus(Held(g, u, s), e[u]) : s \in {t \in g[u] : t.callee = f}}
                                : u \in callers(f)})
  IN  e

(* How deep the stack goes from a function's entry along chains that enter *)
(* no recursion: a function that may return without calling reaches its    *)
(* own return address.                                                     *)
DeepestBelow(g) ==
  LET b[f \in Funcs] ==
        IF IsRecursive(g, f) THEN Unseen
        ELSE Widest({Plus(Held(g, f, s), b[s.callee]) :
                       s \in {t \in g[f] : ~IsRecursive(g, t.callee) /\ b[t.callee].seen}}
                    \cup (IF \E h \in Callees(g, f) : IsRecursive(g, h) THEN {}
                          ELSE {Candidate(Prologue(g, f), TRUE)}))
  IN  b

(* deep: nothing a function reaches is recursive.                          *)
Deep(g, f) == ~IsRecursive(g, f) /\ \A h \in Below(g, f) : ~IsRecursive(g, h)

-----------------------------------------------------------------------------
(* report *)

Into(g, cycle) ==
  UNION {{<<u, s>> : s \in {t \in g[u] : t.callee \in cycle}} : u \in Reachable(g) \ cycle}

(* The chain that reached the recursion.                                   *)
Spent(g, cycle) ==
  LET e == Entered(g)
  IN  Widest({Plus(Held(g, c[1], c[2]), e[c[1]]) : c \in Into(g, cycle)}
             \cup (IF Into(g, cycle) = {} THEN {Candidate(0, TRUE)} ELSE {}))

\* Seeded fault: the deepest activation is thought to call nothing further.
BottomBare(g, cycle) == Widest({Candidate(Prologue(g, f), TRUE) : f \in cycle})

(* The deepest activation, which leaves the recursion instead.             *)
Bottom(g, cycle) ==
  LET b == DeepestBelow(g)
      Reached(f) ==
        Widest({Candidate(Prologue(g, f), TRUE)}
               \cup {Plus(Held(g, f, s), b[s.callee]) : s \in {t \in g[f] : t.callee \notin cycle}})
  IN  Widest({Candidate(Reached(f).amount, Reached(f).exact) : f \in cycle})

(* An activation that recurses again.                                      *)
Continue(g, cycle) ==
  Widest(UNION {{Candidate(Held(g, f, s), TRUE) : s \in {t \in g[f] : t.callee \in cycle}}
                : f \in cycle})

BracketAbove(g, cycle) ==
  LET e == Entered(g) IN \E c \in Into(g, cycle) : ~e[c[1]].seen

BracketBelow(g, cycle) ==
  \E f \in cycle : \E h \in Callees(g, f) \ cycle : ~Deep(g, h)

(* One more than the quotient: the deepest activation pays no step.        *)
DepthOf(room, step) == room \div step + 1

Report(g, cycle, left) ==
  LET step  == Continue(g, cycle)
      spent == Spent(g, cycle)
      tail  == Bottom(g, cycle)
      room  == left - spent.amount - tail.amount
      Says(kind, depth, exact) ==
        [cycle |-> cycle, kind |-> kind, depth |-> depth, exact |-> exact]
  IN  IF BracketAbove(g, cycle) \/ BracketBelow(g, cycle) \/ step.amount = 0
      THEN Says("undecided", 0, FALSE)
      ELSE IF room < 0 THEN Says("refused", 0, FALSE)
      ELSE Says("count", DepthOf(room, step.amount), step.exact /\ spent.exact /\ tail.exact)

(* Measure: a report on every recursion that is reached, ...               *)
Reports(g, cycles, left) ==
  {Report(g, c, left) : c \in {d \in cycles : d \cap Reachable(g) # {}}}

\* Seeded fault: the depth of ordinary calls goes unchecked.
TooDeepNever(g, left) == FALSE

(* ... and an error when ordinary calls nest too deep.                     *)
TooDeep(g, left) == DeepestBelow(g)[Entry].amount > left
=============================================================================
