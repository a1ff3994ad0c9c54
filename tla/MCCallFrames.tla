---------------------------- MODULE MCCallFrames ----------------------------
(* Finite call graphs for CallFrames: all of three functions with two calls *)
(* each at most, and those of four functions whose saves follow from the    *)
(* edge.  The entry point is called by nobody.                              *)
EXTENDS CallFrames

Others == Funcs \ {Entry}

Sites(F, saves) == [callee : F \ {Entry}, saves : saves]

CallLists(F, saves) == {S \in SUBSET Sites(F, saves) : Cardinality(S) <= 2}

Small == {g \in [Funcs -> CallLists(0..2, 0..1)] : g[3] = {}}

Edges(f, T) == {[callee |-> h, saves |-> (f + h) % 2] : h \in T}

Wide ==
  {[f \in Funcs |-> Edges(f, e[f])] :
     e \in {t \in [Funcs -> SUBSET Others] : 1 \in t[0] /\ 3 \notin t[0] /\ Cardinality(t[3]) < 2}}

MCGraphs == Small \cup Wide
=============================================================================
