------------------------------ MODULE MirFunc -------------------------------
(***************************************************************************)
(* A function as the register allocator reads it (internal/mir): blocks of *)
(* instructions in layout order and the successor edges between them.  Of  *)
(* an operand only the virtual register it names is kept.                  *)
(***************************************************************************)
EXTENDS Integers, FiniteSets, Sequences

CONSTANT VRegs       \* virtual register IDs

MirInstr ==
  [args : Seq(VRegs),      \* virtual operands read, in operand order
   def  : SUBSET VRegs,    \* the virtual register written, if any
   dev  : SUBSET VRegs,    \* operands in a device reference position
   call : BOOLEAN]         \* a link opcode

(* A function: code[b] is the instruction list of block b, succs[b] its    *)
(* successor blocks.                                                       *)
MirFuncs == [code : Seq(Seq(MirInstr)), succs : Seq(SUBSET Nat)]

Reads(instr) == {instr.args[i] : i \in DOMAIN instr.args}

Mentions(instr) == Reads(instr) \cup instr.def

Blocks(f) == DOMAIN f.code

(* Every edge stays within the function.                                   *)
EdgesInside(f) ==
  Len(f.succs) = Len(f.code) /\ \A b \in Blocks(f) : f.succs[b] \subseteq Blocks(f)

InstrsOf(f) == UNION {{f.code[b][k] : k \in DOMAIN f.code[b]} : b \in Blocks(f)}

(* The sum of the first n numbers of a sequence.                           *)
SumFirst(s, n) ==
  LET sum[i \in 0..n] == IF i = 0 THEN 0 ELSE sum[i - 1] + s[i]
  IN  sum[n]

(* numbering: instructions are indexed in layout order from 0. *)
FirstIndex(f, b) == SumFirst([c \in Blocks(f) |-> Len(f.code[c])], b - 1)
LastIndex(f, b)  == FirstIndex(f, b) + Len(f.code[b])

(* Each instruction reads its operands at an even point and writes its     *)
(* result at the odd one after it.                                         *)
UsePoint(i) == 2 * i
DefPoint(i) == 2 * i + 1

(* How often an instruction names a register.                              *)
Naming(instr, v) ==
  Cardinality(instr.def \cap {v}) + Cardinality({i \in DOMAIN instr.args : instr.args[i] = v})

NamingIn(f, b, v) == [k \in DOMAIN f.code[b] |-> Naming(f.code[b][k], v)]

Touches(f, v) ==
  SumFirst([b \in Blocks(f) |-> SumFirst(NamingIn(f, b, v), Len(f.code[b]))], Len(f.code))

-----------------------------------------------------------------------------
(* Reference liveness, on positions rather than block summaries: <<b, k>>  *)
(* is the place before the k-th instruction of block b, or its end.        *)

Places(f) == UNION {{<<b, k>> : k \in 1..(Len(f.code[b]) + 1)} : b \in Blocks(f)}

IsEnd(f, p) == p[2] = Len(f.code[p[1]]) + 1

InstrAt(f, p) == f.code[p[1]][p[2]]

After(f, p) ==
  IF IsEnd(f, p) THEN {<<s, 1>> : s \in f.succs[p[1]]} ELSE {<<p[1], p[2] + 1>>}

Readers(f, v) == {p \in Places(f) : ~IsEnd(f, p) /\ v \in Reads(InstrAt(f, p))}
Passing(f, v) == {p \in Places(f) : IsEnd(f, p) \/ v \notin InstrAt(f, p).def}

(* One step backwards from a set of places, where v is not written.        *)
Backed(f, v, S) == S \cup {p \in Passing(f, v) : After(f, p) \cap S # {}}

(* The places from which a read of v is reached, with no write of v before *)
(* it: by a path no longer than there are places.                          *)
WantedAt(f, v) ==
  LET within[n \in 0..Cardinality(Places(f))] ==
        IF n = 0 THEN Readers(f, v) ELSE Backed(f, v, within[n - 1])
  IN  within[Cardinality(Places(f))]

(* The points v's interval must cover: where a value of v is wanted, and   *)
(* where v is written.                                                     *)
LivePoints(f, v) ==
  LET wanted == WantedAt(f, v)
      placed == {p \in Places(f) : ~IsEnd(f, p)}
      Index(p) == FirstIndex(f, p[1]) + p[2] - 1
  IN  {UsePoint(Index(p)) : p \in placed \cap wanted}
      \cup {DefPoint(Index(p)) : p \in {q \in placed : After(f, q) \cap wanted # {}
                                                      \/ v \in InstrAt(f, q).def}}
=============================================================================
