---------------------------- MODULE StatementRuns -----------------------------
(***************************************************************************)
(* A program the front end accepts, run as its source reads (SourceRuns)   *)
(* next to the graph irgen made of it.  The source goes first, up to where *)
(* it shows something on the machine; the graph follows, and the two do it *)
(* as one.                                                                 *)
(***************************************************************************)
EXTENDS SourceRuns, Lowering

VARIABLES
  place, came, temps, slots     \* the graph: next instruction, the block before

machine == <<place, came, temps, slots>>
vars    == <<prog, compiled, source, machine>>

Graphs ==
  LET all == Programs
      ok  == Accepted
  IN  [i \in DOMAIN all |-> IF ok[i] THEN Lower(all[i].main) ELSE Fresh]

SourceRests == todo # <<>> => Shows(todo[1])

-----------------------------------------------------------------------------
(* The graph *)

Instr == Graphs[prog].blocks[place[1]][place[2]]

Got(val) == temps[val]

Keeps(x) == temps' = [t \in DOMAIN temps \cup {place} |-> IF t = place THEN x ELSE temps[t]]

Onward == place' = <<place[1], place[2] + 1>> /\ UNCHANGED came

Goes(b) == place' = <<b, 1>> /\ came' = place[1]

Incoming(instr) ==
  LET from == instr.from[SelectInSeq(instr.from, LAMBDA f : f.block = came)]
  IN  IF "n" \in DOMAIN from THEN from.n ELSE Got(from.val)

Silent(instr) == instr.op \notin {"ask", "tell", "ret"}

GraphDoes(instr) ==
  \/ instr.op = "const" /\ Keeps(instr.n) /\ Onward /\ UNCHANGED slots
  \/ instr.op = "load" /\ Keeps(slots[instr.slot]) /\ Onward /\ UNCHANGED slots
  \/ instr.op = "isZero" /\ Keeps(Truth01(Got(instr.val) = 0)) /\ Onward /\ UNCHANGED slots
  \/ instr.op = "isNonZero" /\ Keeps(Truth01(Got(instr.val) # 0)) /\ Onward /\ UNCHANGED slots
  \/ instr.op = "is" /\ Keeps(Truth01(Got(instr.val) = instr.n)) /\ Onward /\ UNCHANGED slots
  \/ /\ instr.op = "differ"
     /\ Keeps(Truth01(Got(instr.val) # Got(instr.other))) /\ Onward /\ UNCHANGED slots
  \/ instr.op = "phi" /\ Keeps(Incoming(instr)) /\ Onward /\ UNCHANGED slots
  \/ /\ instr.op = "store"
     /\ slots' = [s \in DOMAIN slots \cup {instr.slot} |->
                    IF s = instr.slot THEN Got(instr.val) ELSE slots[s]]
     /\ Onward /\ UNCHANGED temps
  \/ instr.op = "br" /\ Goes(instr.to) /\ UNCHANGED <<temps, slots>>
  \/ /\ instr.op = "cbr"
     /\ Goes(IF Got(instr.val) # 0 THEN instr.yes ELSE instr.no)
     /\ UNCHANGED <<temps, slots>>

GraphStep ==
  /\ compiled /\ SourceRests
  /\ GraphDoes(Instr)
  /\ UNCHANGED <<prog, compiled, source>>

GraphRests == compiled /\ ~Silent(Instr)

-----------------------------------------------------------------------------
(* What each shows next: an instruction of the machine, or its end.        *)

SourceShows ==
  IF todo = <<>> THEN [end |-> TRUE]
  ELSE IF todo[1].do = "ask" THEN [ask |-> todo[1].n] ELSE [tell |-> vals[1]]

ShownBy(instr) ==
  CASE instr.op = "ret" -> [end |-> TRUE]
    [] instr.op = "ask" -> [ask |-> instr.n]
    [] instr.op = "tell" -> [tell |-> Got(instr.val)]

Show ==
  /\ SourceRests /\ GraphRests
  /\ todo # <<>> /\ SourceShows = ShownBy(Instr)
  /\ IF todo[1].do = "ask" THEN \E n \in Answers : SourceShow(n) /\ Keeps(n)
     ELSE SourceShow(0) /\ Keeps(vals[1])
  /\ Onward
  /\ UNCHANGED slots

-----------------------------------------------------------------------------
Init ==
  /\ SourceInit
  /\ place = <<1, 1>> /\ came = 1 /\ temps = <<>> /\ slots = <<>>

Compile ==
  /\ Accept
  /\ slots' = [s \in Graphs[prog].zeroed |-> 0]
  /\ UNCHANGED <<place, came, temps>>

Ended == todo = <<>> /\ (compiled => Instr.op = "ret") /\ UNCHANGED vars

Next ==
  \/ Reject /\ UNCHANGED machine
  \/ Compile
  \/ SourceStep /\ UNCHANGED machine
  \/ GraphStep
  \/ Show
  \/ Ended

Spec == Init /\ [][Next]_vars /\ WF_vars(GraphStep)

-----------------------------------------------------------------------------
(* Properties *)

(* Every graph is one LLVM's verifier takes: each block ends in its only    *)
(* terminator, whatever was dropped after a jump.                           *)
TypeOK == compiled => Verified(Graphs[prog].blocks)

(* The graph shows what the source shows, in the same order, with the same  *)
(* values, and ends when it does.                                           *)
SameFlow == SourceRests /\ GraphRests => SourceShows = ShownBy(Instr)

(* The graph gets to whatever the source has got to. *)
Follows == (compiled /\ SourceRests) ~> GraphRests
=============================================================================
