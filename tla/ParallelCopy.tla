---------------------------- MODULE ParallelCopy ----------------------------
(***************************************************************************)
(* The copies a block's phis ask for on one edge happen at once; this is   *)
(* how internal/isel/phi.go puts them in a sequence.  The emitted copies   *)
(* are run as they are emitted, on a register file in which each register  *)
(* starts out holding a value named like itself.                           *)
(***************************************************************************)
EXTENDS Integers, Sequences, FiniteSets

CONSTANTS
  Regs,         \* virtual registers the program has before the copies
  FirstTemp,    \* the ID the next fresh virtual register gets
  Imms,         \* literal operands
  MoveLists     \* the move lists considered

CopyMove == [dst : Regs, src : Regs \cup Imms]

ASSUME RegsAssumption ==
  /\ Regs \subseteq Nat
  /\ FirstTemp \in Nat
  /\ \A r \in Regs : r < FirstTemp
  /\ Imms \cap Nat = {}

\* Each phi has its own register and contributes one copy to an edge.
ASSUME MovesAssumption ==
  \A ms \in MoveLists :
    /\ ms \in Seq(CopyMove)
    /\ \A i, j \in DOMAIN ms : ms[i].dst = ms[j].dst => i = j

VARIABLES
  moves,     \* the moves of the edge, in phi order
  phase,     \* "queue", "copy", "literals" or "done"
  next,      \* the move a pass over the list has reached
  loc,       \* for each source register, the register now holding its value
  todo,      \* destinations not yet known to be written
  ready,     \* destinations whose old contents nobody waits for
  fresh,     \* the ID of the next fresh register
  emitted,   \* copies emitted
  store      \* what the emitted copies leave in each register

vars == <<moves, phase, next, loc, todo, ready, fresh, emitted, store>>

-----------------------------------------------------------------------------

Dsts    == {moves[i].dst : i \in DOMAIN moves}
Sources(ms) == {ms[i].src : i \in DOMAIN ms} \cap Regs

IsRegMove(m) == m.src \in Regs

Move(b) == CHOOSE i \in DOMAIN moves : moves[i].dst = b

(* The value a destination is waiting for.                                 *)
Pred(b) == moves[Move(b)].src

RegDsts == {b \in Dsts : Pred(b) \in Regs}

(* A value copied to several registers is copied to none that is another   *)
(* move's source.                                                          *)
ForksEnd(ms) ==
  \A i, j, k \in DOMAIN ms :
    ms[i].src = ms[j].src /\ i # j /\ ms[i].src \in Regs /\ ms[k].src = ms[i].dst =>
      ms[i].src = ms[i].dst

Top(s) == s[Len(s)]
Pop(s) == SubSeq(s, 1, Len(s) - 1)

(* The map f with r set to x, whether or not f had it.                     *)
Put(f, r, x) == [q \in DOMAIN f \cup {r} |-> IF q = r THEN x ELSE f[q]]

Init ==
  /\ moves \in MoveLists
  /\ phase = "queue"
  /\ next = 1
  /\ loc = [a \in Sources(moves) |-> a]
  /\ todo = <<>>
  /\ ready = <<>>
  /\ fresh = FirstTemp
  /\ emitted = 0
  /\ store = [r \in Regs |-> r]

(* Every destination of a register move is to be written; one that is      *)
(* nobody's source may be written at once.                                 *)
Queue ==
  /\ phase = "queue"
  /\ next <= Len(moves)
  /\ LET m == moves[next]
     IN  /\ todo' = IF IsRegMove(m) THEN Append(todo, m.dst) ELSE todo
         /\ ready' = IF IsRegMove(m) /\ m.dst \notin DOMAIN loc
                     THEN Append(ready, m.dst) ELSE ready
  /\ next' = next + 1
  /\ UNCHANGED <<moves, phase, loc, fresh, emitted, store>>

Queued ==
  /\ phase = "queue"
  /\ next > Len(moves)
  /\ phase' = "copy"
  /\ UNCHANGED <<moves, next, loc, todo, ready, fresh, emitted, store>>

\* Seeded fault: the value is looked for where it started.
CopyReadyFromHome ==
  /\ phase = "copy"
  /\ todo # <<>>
  /\ ready # <<>>
  /\ LET b == Top(ready)
         a == Pred(b)
         freed == loc[a] = a /\ a \in RegDsts
     IN  /\ store' = [store EXCEPT ![b] = store[a]]
         /\ loc' = [loc EXCEPT ![a] = b]
         /\ ready' = IF freed THEN Append(Pop(ready), a) ELSE Pop(ready)
  /\ emitted' = emitted + 1
  /\ UNCHANGED <<moves, phase, next, todo, fresh>>

\* Seeded fault: the register a value started in never becomes ready.
CopyReadyNoneFreed ==
  /\ phase = "copy"
  /\ todo # <<>>
  /\ ready # <<>>
  /\ LET b == Top(ready)
         a == Pred(b)
     IN  /\ store' = [store EXCEPT ![b] = store[loc[a]]]
         /\ loc' = [loc EXCEPT ![a] = b]
         /\ ready' = Pop(ready)
  /\ emitted' = emitted + 1
  /\ UNCHANGED <<moves, phase, next, todo, fresh>>

(* Write a ready destination from wherever its value is now; the register  *)
(* the value started in becomes ready if a move writes it.                 *)
CopyReady ==
  /\ phase = "copy"
  /\ todo # <<>>
  /\ ready # <<>>
  /\ LET b == Top(ready)
         a == Pred(b)
         freed == loc[a] = a /\ a \in RegDsts
     IN  /\ store' = [store EXCEPT ![b] = store[loc[a]]]
         /\ loc' = [loc EXCEPT ![a] = b]
         /\ ready' = IF freed THEN Append(Pop(ready), a) ELSE Pop(ready)
  /\ emitted' = emitted + 1
  /\ UNCHANGED <<moves, phase, next, todo, fresh>>

Written(b) == loc[Pred(b)] = b

\* Seeded fault: a destination found written stays on the list.
SkipWrittenKept ==
  /\ phase = "copy"
  /\ todo # <<>>
  /\ ready = <<>>
  /\ Written(Top(todo))
  /\ UNCHANGED vars

(* The last destination on the list was written already.                   *)
SkipWritten ==
  /\ phase = "copy"
  /\ todo # <<>>
  /\ ready = <<>>
  /\ Written(Top(todo))
  /\ todo' = Pop(todo)
  /\ UNCHANGED <<moves, phase, next, loc, ready, fresh, emitted, store>>

\* Seeded fault: a cycle is broken without saving the member's contents.
BreakCycleUnsaved ==
  /\ phase = "copy"
  /\ todo # <<>>
  /\ ready = <<>>
  /\ ~Written(Top(todo))
  /\ ready' = <<Top(todo)>>
  /\ todo' = Pop(todo)
  /\ UNCHANGED <<moves, phase, next, loc, fresh, emitted, store>>

(* Otherwise it is taken for a member of a cycle: its contents move to a   *)
(* fresh register and it may be written.                                   *)
BreakCycle ==
  /\ phase = "copy"
  /\ todo # <<>>
  /\ ready = <<>>
  /\ ~Written(Top(todo))
  /\ LET b == Top(todo)
     IN  /\ store' = Put(store, fresh, store[b])
         /\ loc' = Put(loc, b, fresh)
         /\ ready' = <<b>>
  /\ todo' = Pop(todo)
  /\ fresh' = fresh + 1
  /\ emitted' = emitted + 1
  /\ UNCHANGED <<moves, phase, next>>

Sequenced ==
  /\ phase = "copy"
  /\ todo = <<>>
  /\ phase' = "literals"
  /\ next' = 1
  /\ UNCHANGED <<moves, loc, todo, ready, fresh, emitted, store>>

(* Literals read nothing and come last.                                    *)
EmitLiteral ==
  /\ phase = "literals"
  /\ next <= Len(moves)
  /\ LET m == moves[next]
     IN  IF IsRegMove(m)
         THEN UNCHANGED <<emitted, store>>
         ELSE /\ store' = [store EXCEPT ![m.dst] = m.src]
              /\ emitted' = emitted + 1
  /\ next' = next + 1
  /\ UNCHANGED <<moves, phase, loc, todo, ready, fresh>>

Finish ==
  /\ phase = "literals"
  /\ next > Len(moves)
  /\ phase' = "done"
  /\ UNCHANGED <<moves, next, loc, todo, ready, fresh, emitted, store>>

Terminated ==
  /\ phase = "done"
  /\ UNCHANGED vars

Step ==
  \/ Queue \/ Queued \/ CopyReady \/ SkipWritten \/ BreakCycle
  \/ Sequenced \/ EmitLiteral \/ Finish

Next == Step \/ Terminated

Spec == Init /\ [][Next]_vars

(* The sequencer runs alone until its lists are empty.                     *)
FairSpec == Spec /\ WF_vars(Step)

-----------------------------------------------------------------------------
(* Properties *)

(* Types of the variables.                                                 *)
TypeOK ==
  /\ phase \in {"queue", "copy", "literals", "done"}
  /\ next \in 1..(Len(moves) + 1)
  /\ Sources(moves) \subseteq DOMAIN loc
  /\ todo \in Seq(RegDsts)
  /\ ready \in Seq(RegDsts)
  /\ fresh \in Nat
  /\ emitted \in Nat
  /\ Regs \subseteq DOMAIN store

(* The value of every source can still be found where loc says, whatever   *)
(* has been overwritten so far (sequenceRegisters, loc).                   *)
ValuesHeld == phase = "copy" => \A a \in Sources(moves) : store[loc[a]] = a

(* A destination is written only once nothing still needs its old contents *)
(* (sequence): no other source's value is in a ready register.             *)
ReadyIsFree ==
  \A i \in DOMAIN ready : \A a \in Sources(moves) :
    loc[a] = ready[i] => a = Pred(ready[i])

(* The sequence has the effect of all the moves happening at once          *)
(* (sequence): every destination ends with the value its source held       *)
(* before the edge, and no other register of the program changes.          *)
SameEffect ==
  phase = "done" =>
    \A r \in Regs : store[r] = IF r \in Dsts THEN Pred(r) ELSE r

(* Registers that exchange their values in a round: none of them, and no   *)
(* fewer of them, waits for a value from outside.                          *)
Closed(C) == \A d \in C : Pred(d) \in C

Cycles ==
  {C \in SUBSET {d \in RegDsts : Pred(d) # d} :
     C # {} /\ Closed(C) /\ \A D \in SUBSET C : D # {} /\ Closed(D) => D = C}

Forked == \E i, j \in DOMAIN moves :
            i # j /\ moves[i].src = moves[j].src /\ IsRegMove(moves[i])

(* When no value is copied twice, a fresh register and an extra copy are   *)
(* spent exactly once per cycle, and a copy to itself is dropped.          *)
OneSparePerCycle ==
  phase = "done" /\ ~Forked =>
    /\ fresh - FirstTemp = Cardinality(Cycles)
    /\ emitted = Cardinality({d \in Dsts : Pred(d) # d}) + Cardinality(Cycles)

(* The lists run empty.                                                    *)
Terminates == <>(phase = "done")
=============================================================================
