----------------------------- MODULE CallSearch ------------------------------
(***************************************************************************)
(* The search for recursion in a call graph: Tarjan's algorithm as         *)
(* sema/callgraph.go runs it, with the functions it is inside on a slice,  *)
(* and frames.go once more over the selected calls.  isel asks the same of *)
(* the optimized module with a walk from each function, which is           *)
(* IsRecursive.  The callees of a function come in any order.              *)
(***************************************************************************)
EXTENDS FrameMeasure, Sequences

VARIABLES
  graph,       \* the program's calls
  index,       \* function -> its number in the order of first visits
  low,         \* function -> the least number it is known to reach
  open,        \* functions whose component is not closed
  work,        \* the functions the walk is inside, outermost first
  found        \* closed components

search == <<index, low, open, work, found>>

Unnumbered == -1

Reached(f) == index[f] # Unnumbered

Inner == work[Len(work)]
InnerDone == SubSeq(work, 1, Len(work) - 1)

Lower(m, n) == IF m < n THEN m ELSE n

SearchInit ==
  /\ index = [f \in Funcs |-> Unnumbered]
  /\ low = [f \in Funcs |-> Unnumbered]
  /\ open = <<>> /\ work = <<>> /\ found = {}

(* enter: the next number, and a place on the component stack.             *)
Number(f, outer) ==
  LET next == Cardinality({h \in Funcs : Reached(h)})
  IN /\ index' = [index EXCEPT ![f] = next]
     /\ low' = [low EXCEPT ![f] = next]
     /\ open' = Append(open, f)
     /\ work' = Append(outer, [fn |-> f, todo |-> Callees(graph, f), selfCall |-> FALSE])
     /\ UNCHANGED found

Root ==
  /\ work = <<>>
  /\ \E f \in Funcs : ~Reached(f) /\ (\A h \in Funcs : h < f => Reached(h)) /\ Number(f, <<>>)

Stepped(callee) ==
  [work EXCEPT ![Len(work)].todo = @ \ {callee},
               ![Len(work)].selfCall = @ \/ callee = Inner.fn]

\* Seeded fault: a function reached before counts whether or not its
\* component has been closed.
SeenLowersAlways(callee) ==
  /\ Reached(callee)
  /\ low' = [low EXCEPT ![Inner.fn] = Lower(@, index[callee])]
  /\ work' = Stepped(callee)
  /\ UNCHANGED <<index, open, found>>

(* A callee already reached lowers its caller while its component is open. *)
SeenCallee(callee) ==
  /\ Reached(callee)
  /\ low' = IF callee # Inner.fn /\ \E i \in DOMAIN open : open[i] = callee
            THEN [low EXCEPT ![Inner.fn] = Lower(@, index[callee])]
            ELSE low
  /\ work' = Stepped(callee)
  /\ UNCHANGED <<index, open, found>>

NewCallee(callee) == ~Reached(callee) /\ Number(callee, Stepped(callee))

(* leave: the functions above this one on the stack are its component.     *)
Close(f) ==
  LET at == CHOOSE i \in DOMAIN open : open[i] = f
      members == {open[i] : i \in at .. Len(open)}
  IN /\ open' = SubSeq(open, 1, at - 1)
     /\ found' = found \cup
          {[members |-> members, recursive |-> Cardinality(members) > 1 \/ Inner.selfCall]}

Leave ==
  LET f == Inner.fn
  IN /\ IF low[f] = index[f] THEN Close(f) ELSE UNCHANGED <<open, found>>
     /\ work' = InnerDone
     /\ low' = IF InnerDone = <<>> THEN low
               ELSE [low EXCEPT ![InnerDone[Len(InnerDone)].fn] = Lower(@, low[f])]
     /\ UNCHANGED index

Search ==
  \/ Root
  \/ /\ work # <<>>
     /\ \/ \E callee \in Inner.todo : SeenCallee(callee) \/ NewCallee(callee)
        \/ Inner.todo = {} /\ Leave

Searched == work = <<>> /\ \A f \in Funcs : Reached(f)

(* The functions marked recursive, and the recursions there are.           *)
Marked == UNION {c.members : c \in {d \in found : d.recursive}}

Cycles == {c.members : c \in {d \in found : d.recursive}}
=============================================================================
