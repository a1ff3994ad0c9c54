----------------------------- MODULE CallFrames -----------------------------
(***************************************************************************)
(* The frames a compiled program builds above the data region as it calls  *)
(* and returns, next to what frames.Measure said of it.  Whether a call is *)
(* made is the data's choice.  The program runs here even if Measure       *)
(* refused it: that is how its verdict is compared with the machine.       *)
(***************************************************************************)
EXTENDS CallSearch

CONSTANTS
  Graphs,      \* the programs considered, as call graphs
  Lefts,       \* slots left above the data region
  MaxNesting   \* bound on the activations on the stack

ASSUME GraphsAssumption ==
  /\ \A g \in Graphs : g \in [Funcs -> SUBSET Site] /\ \A f \in Funcs : IsFiniteSet(g[f])
  /\ Lefts \subseteq Nat
  /\ Funcs \subseteq Nat

VARIABLES
  left,        \* slots its frames have, once the data region is laid out
  reports,     \* what Measure reported on each recursion
  refused,     \* whether Measure reported an error
  stage,       \* "search", "measure", "run", "returned" or "faulted"
  stack        \* activations, each with the slots it holds and whom it calls

verdict == <<left, reports, refused>>
vars == <<graph, search, verdict, stage, stack>>

Nobody == -1

Entering(f) == [func |-> f, holds |-> Prologue(graph, f), calling |-> Nobody]

HeldUpTo(s, n) ==
  LET sum[i \in 0..n] == IF i = 0 THEN 0 ELSE sum[i - 1] + s[i].holds
  IN  sum[n]

HeldBy(s) == HeldUpTo(s, Len(s))

Fits(s) == HeldBy(s) <= left

Top == stack[Len(stack)]

Init ==
  /\ graph \in Graphs
  /\ SearchInit
  /\ left = 0 /\ reports = {} /\ refused = FALSE
  /\ stage = "search"
  /\ stack = <<>>

FindRecursion ==
  /\ stage = "search"
  /\ Search
  /\ stage' = IF Searched' THEN "measure" ELSE "search"
  /\ UNCHANGED <<graph, verdict, stack>>

Measure ==
  /\ stage = "measure"
  /\ left' \in Lefts
  /\ reports' = Reports(graph, Cycles, left')
  /\ refused' = (TooDeep(graph, left') \/ \E r \in reports' : r.kind = "refused")
  /\ stage' = "run"
  /\ stack' = <<Entering(Entry)>>
  /\ UNCHANGED <<graph, search>>

(* A push past the end of the array stops the chip.                        *)
Reaching(s) == stack' = s /\ stage' = IF Fits(s) THEN "run" ELSE "faulted"

(* The registers a call saves, up to the jal.                              *)
Save(s) ==
  /\ stage = "run"
  /\ Top.calling = Nobody
  /\ s \in graph[Top.func]
  /\ Reaching([stack EXCEPT ![Len(stack)].holds = @ + s.saves,
                            ![Len(stack)].calling = s.callee])
  /\ UNCHANGED <<graph, search, verdict>>

Enter ==
  /\ stage = "run"
  /\ Top.calling # Nobody
  /\ Len(stack) < MaxNesting
  /\ Reaching(Append(stack, Entering(Top.calling)))
  /\ UNCHANGED <<graph, search, verdict>>

(* The callee pops its return address, the caller its registers.           *)
Return ==
  /\ stage = "run"
  /\ Top.calling = Nobody
  /\ Len(stack) > 1
  /\ stack' = [SubSeq(stack, 1, Len(stack) - 1)
                 EXCEPT ![Len(stack) - 1] = Entering(stack[Len(stack) - 1].func)]
  /\ UNCHANGED <<graph, search, verdict, stage>>

Exit ==
  /\ stage = "run"
  /\ Top.calling = Nobody
  /\ Len(stack) = 1
  /\ stage' = "returned"
  /\ UNCHANGED <<graph, search, verdict, stack>>

Stopped ==
  /\ stage \in {"returned", "faulted"}
  /\ UNCHANGED vars

Next ==
  \/ FindRecursion
  \/ Measure
  \/ \E f \in Funcs : \E s \in graph[f] : Save(s)
  \/ Enter \/ Return \/ Exit \/ Stopped

Spec == Init /\ [][Next]_vars

-----------------------------------------------------------------------------
(* Properties *)

(* However a function's callees are ordered, the components the two        *)
(* searches close are those of mutual reachability, and a function is      *)
(* marked recursive exactly when isel's walk finds it can reach itself.    *)
SearchesAgree ==
  stage # "search" =>
    /\ Marked = {f \in Funcs : IsRecursive(graph, f)}
    /\ Cycles = {Component(graph, f) : f \in Marked}

(* Activations of a recursion, the one a fault cut short included.         *)
Activations(cycle) ==
  Cardinality({i \in DOMAIN stack : stack[i].func \in cycle})
  + IF stage = "faulted" /\ Top.calling \in cycle THEN 1 ELSE 0

OnStack ==
  ({stack[i].func : i \in DOMAIN stack} \cup {stack[i].calling : i \in DOMAIN stack}) \ {Nobody}

(* The count a warning names is never too high: a run that faults inside   *)
(* the recursion, or below it, has gone past that many activations.        *)
CountsErrLow ==
  stage = "faulted" =>
    \A r \in reports :
      (r.kind = "count" /\ Activations(r.cycle) > 0) => Activations(r.cycle) > r.depth

(* A count stated without "at least" is exact: whatever the data chooses,  *)
(* the next activation faults on a push.                                   *)
CountsExact ==
  stage \in {"run", "returned"} =>
    \A r \in reports : (r.kind = "count" /\ r.exact) => Activations(r.cycle) <= r.depth

(* Ordinary calls never overflow the stack of an accepted program: a fault *)
(* with no recursion on the stack was refused, unless the activation that  *)
(* faults calls on towards a recursion whose depth is left undecided.      *)
OrdinaryCallsFit ==
  (stage = "faulted" /\ \A f \in OnStack : ~IsRecursive(graph, f)) =>
    refused \/ \E r \in reports : r.kind = "undecided" /\ r.cycle \cap Below(graph, Top.func) # {}

(* Whatever is activated twice at once was reported, and so was everything *)
(* active in between, as one and the same recursion.                       *)
RecursionReported ==
  stage \in {"run", "returned", "faulted"} =>
    \A i, j \in DOMAIN stack :
      (i < j /\ stack[i].func = stack[j].func) =>
        \E r \in reports : {stack[k].func : k \in i..j} \subseteq r.cycle

(* docs/compiler.md: a recursion with too few slots left for even its      *)
(* first activation is refused; so the fault of an accepted program has    *)
(* two activations of some recursion on the stack.                         *)
FirstActivationFits ==
  (stage = "faulted" /\ ~refused) => \E r \in reports : Activations(r.cycle) > 1
=============================================================================
