# Verification of ic11c

ic11c compiles MicroC, a C dialect, to IC10, the assembly of the programmable
chip in the game Stationeers. The compiler is written in Go and goes through
LLVM for optimisation only; it has an instruction selector, a register
allocator, a call-frame analysis and an emitter of its own. Beside the compiler
stands a client for a simulator of the chip, through which the tests run what
was compiled.

This directory holds TLA+ models of the parts whose correctness depends on the
order in which many things happen, configurations that check them with TLC on
small instances, and theorems about most of them proved with TLAPS for every
value of the constants. Paths below are relative to the repository's root
(`src/` in `PROJECT.json`).

- [1. The system](#1-the-system)
- [2. Inventory](#2-inventory)
- [3. The modules and the code](#3-the-modules-and-the-code)
- [4. The runs](#4-the-runs)
- [5. Fairness](#5-fairness)
- [6. The proofs](#6-the-proofs)
- [7. Where the code and its documentation disagree](#7-where-the-code-and-its-documentation-disagree)
- [8. What the models leave out](#8-what-the-models-leave-out)
- [9. Plan](#9-plan)

## 1. The system

The target is small and unforgiving. A program is at most 128 lines. Its memory
is one array of 512 slots, shared by globals (the data region), the allocator's
spill slots, and the frames calls push above them. There are sixteen general
registers `r0`..`r15`, a stack pointer `sp` and a return address `ra`; the
hardware does nothing for a call but write `ra` and jump. A push past slot 511
stops the chip.

`cmd/ic11c/compile.go` runs the stages over one source file, in this order:

| stage | package | reads | leaves |
|---|---|---|---|
| parse | `tsparse`, `lexer`, `ast` | text | syntax tree |
| analyse | `sema` | syntax tree | resolved program, warnings |
| generate | `irgen` | resolved program | LLVM module |
| optimise | `llvmopt` | module | module |
| check pointers | `pointers`, `valueflow` | module | errors |
| select | `isel` | module | `mir.Program` over virtual registers |
| materialise | `mir` | program | program without literals the chip cannot read |
| allocate | `regalloc`, once per function | program | program over physical registers, spill slots used |
| clean up | `peephole` | program | program |
| check placement, measure frames | `mir`, `frames` | program | errors, warnings about recursion |
| emit | `emit` | program | text, size report |

The first stage that finds an error ends the compilation with its diagnostics;
warnings accumulate. The process exits with 0, 1 (no program), 2 (command line)
or 70 (defect of the compiler).

The stages are sequential: they share the program they rewrite and nothing else.
What makes them hard is distance. The allocator decides in one place what is
correct only if four others agree with it: that intervals cover every point at
which a value is wanted, that the rewriting finds a scratch register wherever it
needs one, that a spill slot is private to one activation, that frames start
where slots end. Each part is unit tested; that they agree on every path through
a function is what tests hardly reach.

The same is true of meaning: a function's control flow is decided by `sema`,
built by `irgen`, cut into edges and copies by `isel`, turned into jumps that
depend on where a block lies by `mir`, `peephole` and `emit`. No stage sees the
whole way, and each relies on what an earlier one refused.

Concurrency is confined to the chip client. `internal/chip/harness.go` starts a
docker client process, a goroutine that reads its output into a channel of 64
lines, and on Close a second goroutine that waits for the process; every read
has a deadline, a context may kill the process at any time, and the container
outlives the process by however long the daemon takes. `internal/chiptest` hands
one such process to one test at a time and replaces it once it is broken.

## 2. Inventory

For each component: its state, its operations, whom it talks to, what is hard,
and what makes it correct. `PROJECT.json` lists the same components with their
sources; the last column says where the model is.

| component | state and operations | hard behaviour | correct when | model |
|---|---|---|---|---|
| linear scan, rounds, slots (`regalloc/scan.go`, `regalloc.go`) | pending intervals, registers given, spilled set, held list, scratch reserved; `Allocate`: entry checks, `scan`, rounds of `allocateRegisters`, `assignSlots`, refusals | an eviction frees several holders at once; a round that holds back scratch spills other values, which need more scratch; ended intervals are dropped from the held list on the way | no two values wanted at one point share a register or a slot; scratch is free and suffices; it ends | `LinearScan` |
| liveness and intervals (`liveness.go`, `interval.go`) | live-in and live-out sets per block, one range list per register; `computeLiveness`, `buildIntervals`, `addRange`, `setFrom`, `intersects`, `covers` | loops and irreducible flow; list operations that look only at the first range | intervals cover exactly the points where the value is wanted | `Liveness`, `LiveRanges`, `MirFunc` |
| rewriting (`rewrite.go`) | the instruction list; `planRewrite`, `callSaves`, reloads, stores, pushes and pops around each instruction | scratch reused between reload and store; what must survive a call | every operand read is the current value, on every path | `AllocatedCode` |
| driver (`cmd/ic11c`) | spill base, diagnostics; `compile`, `allocate` | spill in a recursive function; slots against frames | stages composed soundly, first error wins | `CompiledCode` from the pointer check on, `AllocatedCode` for allocation |
| phis (`isel/phi.go`) | queue of parallel moves, `loc`/`pred` maps; `sequence`, `planEdges`, edge splitting | cycles, forks, a register both read and written | the sequence has the effect of all moves at once | `ParallelCopy`; edges in `Selection` |
| calls and frames (`isel/call.go`) | saved `ra`, argument moves, `recursiveFunctions` | argument registers pinned across the call | the callee finds its arguments, the caller its values | `Selection`, `CompiledCode`; frames in `AllocatedCode`, `CallFrames` |
| addresses, data region (`isel/address.go`, `mask.go`, `isel.go`) | slots of objects, fixed places, plans of byte arithmetic, what they absorbed, aliases | bytes against slots of eight; an absorbed value read elsewhere; a mask taken for no change | an address computed in slots is the one in bytes, and what is left out is not read | `LlvmModule`, `Addresses`, `Selection` |
| the rest of `isel` | virtual register per LLVM value, values that may be infinite | case analysis over opcodes, NaN, -0 and infinities, 32-bit ranges | each instruction computes its meaning | `Doubles`, `Placement`, `Int32Range`, `Selection`, in part |
| frame analysis (`frames/frames.go`) | call graph, SCCs, depths; `Measure` | brackets: nested recursions, several chains in, choice of callees | counts that are never too high, exact when said to be | `FrameMeasure`, `CallSearch`, `CallFrames` |
| machine IR (`mir`) | functions, blocks, edges; `Validate`, `DropFallthroughJumps`, `MaterialiseUnreadable`, `CheckPlacement` | a fallthrough edge depends on layout | edges agree with the last instructions | `MirCode`, `MirFunc` |
| peephole | instruction list; `Run` | deleting a line changes what falls through where | same behaviour | `Peephole` |
| emitter (`emit`) | label to line map, line and byte budgets; `Emit` | a label at the end of a block; budgets at the limit | labels name the next line | `CompiledCode` |
| chip client (`chip/harness.go`, `run.go`, `fixtures.go`) | `broken`, channel, process, container; every exchange, `Close` | late answers, refusals in mid batch, death, wedged client, slow daemon | own answer or an error; errors last; everything returns; nothing left behind | `Exchanges`, `ChipHarness` |
| chip process (`tools/chipgen/harness/Harness.cs`) | one chip; a loop of one command, one reply | a command that fails must still answer once | one reply per command | `ChipHarness` (`Handle`) |
| test pool (`chiptest`) | at most one process per kind, a claim, a shutdown | a test claiming twice, a failed reset, shutdown against claims | a harness handed out is fresh and held by one test | `ChipPool` |
| pointers, value flow (`internal/pointers`, `internal/valueflow`) | visited set of a walk, users of an object; marks on values, objects and returns | cycles through phis and call sites; marks that go round loops and through memory | a pointer accepted names one object; every value that may be infinite is marked | `Pointers`, `ValueFlow`, run in `CompiledCode` |
| statements (`sema/stmt.go`, `reach.go`, `definiteassignment.go`) | jump targets, assigned sets per jump; two walks over a body | loops: what a `continue` carries; constant conditions; both sides of `&&` | an accepted body reads no local it has not written, and returns what it must | `Statements`, `SourceRuns`, `StatementRuns` |
| constants (`sema/const.go`, `ctype.go`) | none; a fold over expressions | three readers of one number: the fold, C, the program's doubles | the readers agree, or it is refused | `ConstantFold` |
| recursion (`sema/callgraph.go`) | index, low link, component stack, explicit walk | Tarjan without recursion | groups are the strongly connected components | `CallSearch` |
| the rest of `sema` | scopes, types, intrinsics | one pass over a tree | | no |
| control flow of `irgen` (`stmt.go`, `cond.go`, `call.go`, `assign.go`, `storage.go`) | a builder: current block, terminated or not, targets, return slots | code after a jump, calls spliced in, short circuits | the graph does what the statements say | `Lowering`, `StatementRuns` |
| the rest of `irgen`, `llvmopt`, `tsparse`, `lexer`, `ast`, `source`, tables | none that outlives a call | data, not control | | no |
| `difftest`, `devtrace`, `corpus`, `tools/*` | test infrastructure and generators | | | no |

Interactions that matter: `liveness` hands intervals to `scan`; `scan` hands
registers, slots and scratch to `rewrite`; the driver carries the spill base from
one function to the next and hands the final one to `regalloc.SetStackBase` and
to `frames.Measure`; `frames` reads back the pushes that `rewrite` and `isel`
placed; `sema` promises `irgen` that every jump has a target and every local a
value; `irgen` leaves `isel` blocks with one terminator each; `chiptest` owns the
`chip.Harness` that tests drive.

The hazards of `PROJECT.json` list, at its line, what can go wrong in each of
these and a test would hardly reach, with the properties that watch it or the
reason why none does yet.

## 3. The modules and the code

```
 MirFunc ── LiveRanges           LlvmModule       Doubles      Statements
  │  │  │      │                  │      │           │          │      │
  │  │  │  Liveness           Pointers  ValueFlow  MirCode  SourceRuns Lowering
  │  │  │      │                  │      │          │ │         │  │    │
  │  │  │  LivenessProofs         │  Placement ───┐  │ │         │ StatementRuns
  │  │  │      │                  │      │        │  │ │         │
  │  │  MirFuncProofs             │      │        │  │ │    SourceRunsProofs
  │  │     (also for AllocatedCode, CallFrames,   │  │ │
  │  │      SourceRuns)           │  Addresses ─────┘ │
  │  │                            │      │        │   Peephole
  │  │                            │  Int32Range   │   │
  │  │                            │      │        │   │
  │  │                            │  Selection ───┘   │
  │  └─────────────────────────── CompiledCode ──────┘
  │
 LinearScan ────────┐               FrameMeasure            Exchanges
  │                 │                    │                      ▲ refines
 AllocatedCode ── AllocatedCodeProofs CallSearch            ChipHarness ─┐
                                         │                               ├─ ChipProofs
 ParallelCopy ── ParallelCopyProofs CallFrames ── CallFramesProofs       │
                                                            ChipPool ────┘
 ConstantFold ── ConstantFoldProofs
```

Every run has an `MC` module with its instance, named after the module it
checks; `MCLinearScan` holds the functions `MCAllocatedCode` builds on.

Definitions whose comment begins `Seeded fault` are deliberately wrong versions
of the definition that follows them. Nothing uses them; `PROJECT.json` pairs each
with the property that must fail when it takes the definition's place.

### MirFunc

The shape of a `mir.Func` as the allocator reads it: blocks of instructions, each
with the virtual registers it reads in order, the one it writes, those in device
positions, and whether it is a link opcode; successor edges; the numbering of
`regalloc/liveness.go`, two program points to an instruction. `WantedAt` and
`LivePoints` are the reference: where a value is wanted, defined by reachability
between places in the code, without blocks' summaries or ranges. `WantedIsLeast` and
`WantedBackwards` (section 6) say that this reference means what it should.

### LiveRanges and Liveness

`LiveRanges` is `interval.go`: sorted, disjoint half-open ranges, `addRange` and
`setFrom` at the front, `intersects` with its two cursors, `covers`. `Liveness`
is `liveness.go` as it runs: `SweepBlock`, `AnotherPass`, `Settled` are the fixed
point of `computeLiveness`, one action per block visited, last block first;
`OpenBlock`, `WalkInstr`, `CloseBlock` are the backward walk of
`buildIntervals`, with the write of an instruction handled before its reads;
`Finish` is the check for an interval without a point.

### LinearScan

One call of `regalloc.Allocate`, from the entry checks to the plan of the
rewriting. Intervals enter as sets of points: `ListsAsSets` and `IntervalsExact`
of the liveness run say that the code's lists are these sets and that the
operations on them are the sets' operations.

| action | code |
|---|---|
| `Enter`, `Refuse` | `Config` validation, scratch against pinned, `clobberedByCalls` |
| `PlaceFree` | the first candidate, in rendering order, no holder of which intersects |
| `SpillCurrent`, `Evict`, `NoScratch` | `cheapestVictim`, the comparison of scores, the refusal when nothing may be spilled |
| `Rescan`, `EndRounds` | the loop of `allocateRegisters`: demand capped at the scratch list, another scan if it grew |
| `AssignSlot`, `OutOfSlots` | `assignSlots` and the check against the memory array |
| `Rewrite` | the outcome of `planRewrite`: done, or an instruction that needs more scratch than there is |

The code compares spill scores, touches divided by span, in `float64`. The model
compares integers: the score is multiplied by `ScoreUnit`, a multiple of every
span considered (`ScoresExact` is checked), so it decides as exact arithmetic
does. Ties that only rounding makes or breaks are not in the model.

### AllocatedCode

`LinearScan` followed by what its result is for. `Allocate` embeds each step of
the allocator; `Reject` is the driver refusing (an allocation that failed, a
spill in a function that can reach itself, frames past the array); then the
rewritten function runs. Each instruction is fetched as the expansion
`rewrite.go` makes of it: pushes of the registers that must survive a call,
reloads of spilled operands into scratch, the instruction, the store of a
spilled result, pops in reverse. The machine keeps, for each register and
memory cell, the set of virtual registers whose *current* value it holds: writing
`v` makes every other copy of `v` stale, a call empties every register and every
cell above `sp`, and a call in a recursive function also the function's own spill
slots. A run of any length is then a path through finitely many states, and "the
operand is right" is membership.

`prog.above` stands for the slots other functions spilled into and for callers'
frames: cells that hold `Foreign` and must go on holding it.

`InputsDescribeFunctions` ties the two halves together. The allocator's input must be the
function's own: its instructions, at most one result each and none for a link opcode, and
the live points `MirFunc` defines, which `IntervalsAreExact` proves `Liveness` computes.

### ParallelCopy

`sequence` and `sequenceRegisters` of `isel/phi.go`, with the maps `loc` and `pred`,
the stack `ready` and the destinations still to do. `Queue` and `Queued` fill them;
`CopyReady` writes a destination nothing needs any more; when none is left,
`SkipWritten` drops a destination found written and `BreakCycle` saves one into a
fresh register; `EmitLiteral` comes last, as in the code. Next to it a register file executes what has been emitted, so the property is
about the effect: `SameEffect` compares it with all moves done at once.

### Statements, SourceRuns, Lowering and StatementRuns

`Statements` is what `sema` decides about a body: the jumps (`stmt.go`), what ends
a function and what a jump leaves (`reach.go`: `JumpsOut`, `Terminates`), and
definite assignment (`definiteassignment.go`): one walk (`WalkStmt`, `WalkExpr`) that
threads the flow state, whether the point is reached and which locals are assigned
there, through a body and collects, in a frame for each loop or switch around it, the
states at the jumps bound to it (`BreakTo`, `ContinueTo`). A tree is given by the set of its
nodes in `Levels`, each made of nodes in earlier ones, and what descends a tree is a recursive
function over the nodes, `F[x \in Nodes] == FBy(F, x)`.

`SourceRuns` is a program run by C's rules, with what is left to do as a stack of
statements, steps on values, and marks at which a `break`, a `continue` or a return lands;
`Accept` and `Reject` are the front end. `AssignedBeforeRead` holds definite assignment
against the run. `Lowering` is `irgen` as a builder:
`Gen` takes the graph so far and a node, and follows `stmt.go`, `cond.go`,
`call.go`, `assign.go` and the zeroing of locals in memory. A call is spliced in,
its parameters and result being slots of the caller.

`StatementRuns` runs both, the source of `SourceRuns` and the graph block by block;
`Compile` accepts and lowers. The
source goes ahead to the next thing it shows on the machine (a read of a device, a
write to one), and the graph must show the same (`SameFlow`) and gets there
(`Follows`). Every step here is a step of `SourceRuns` or leaves its variables alone.

### ConstantFold

One number with three readers: the fold (`const.go`, in `int64`), C (typed
operands with conversions, `ctype.go`), and the program (whole numbers in doubles;
bitwise instructions between two conversions that are not inverse). An
expression is folded from its leaves up, with a stack of operands: `Literal` pushes one,
`Prefix`, `Infix`, `Test`, `CastLongLong` and `Conditional` are the operators, each
refusing what the code refuses (`Refuse`). `CAnswer` is empty where C gives no meaning. Widths are constants, so that edges are near one another on a small
instance.

### LlvmModule and Doubles

What the back end is handed and what it computes with. A module is its globals and its
functions: blocks of phis, items and a terminator over numbered values, pointers marked
as such. Objects are the globals and then the locals of every function, in the order
`isel` gives them slots. `Doubles` is the arithmetic of both sides: NaN and -0 are values
of their own, an infinity is an integer past every other, a quotient that is not whole
keeps what truncating it needs, and a bitwise instruction works on `LongBits` bits of two's
complement and stops the chip at an infinity, which is why `isel` must refuse one. The
conversions in and out are those of `docs/microc.md:274`, scaled: a NaN goes in as the least
integer, and an answer comes back with `KeptBits` bits and the sign above them. The two are
not inverse, as on the machine.

### Pointers and ValueFlow

`Pointers` is the walk of `internal/pointers` from an access back to its object:
`Resolve` through address arithmetic, selects, phis, parameters (`Passed`, every call)
and loads (`LoadedThrough`, `FromStores`: everything `StoredInto` the object read). Two things in it are
easy to get wrong and are kept: a value already visited contributes nothing, and the
visited set goes from one arm of a merge to the next. `ValueFlow` is
`internal/valueflow` with the walk itself: `Swept` is one pass
over the module, `Settled` the repetition until nothing changes; a store through a
pointer without an object marks all memory. What an instruction does to the mark is a
parameter, as it is in the code: `Stops`, `Carries` and `Seeded` are operator constants
that `Placement` and `Int32Range` put their rules in.

### Addresses

How `isel` turns bytes into slots. `ByteOffset` takes apart what an address was
computed from into a constant and scaled terms, `InSlots` divides them by the
bytes of a slot (a term that does not divide must have low zero bits, which a mask
shows), `GepOffset` and `DiffOffset` are the two users. `ConstantPlace` is an
address that is known. `KeepSharedTerms` puts back what another instruction reads,
`Unmasked` is a mask that changes nothing because `Cover` bounds its operand.
`Planned` joins them: which values get a register, which stand for another, which are not
selected at all.

### Placement and Int32Range

Two readers of that flow. `Placement` is `isel/placement.go`: which values may be infinite
where a bitwise instruction would stop the chip. `Int32Range` is `isel/int32range.go`: whether
a double can be handed to a batch store, which takes a hash of 32 bits and narrows what it is
given. A value is an interval whose ends are exact in quarters (`SpanFrom`), computed under
the bounds that the condition of a select puts on the arm it admits (`CollectBounds`:
conjunctions as `and` and as `select`, magnitudes, a constant on either side; unordered
predicates and disjunctions say nothing). `Int32Result` and `CarriesInt32`
are the rules of the flow for values known to be hashes already, `NarrowingRefused` the
refusal. The narrow range is -8 to 7 here and a distance keeps two bits, so that any
distance of a shift is itself narrow, as in the code.

`docs/microc.md:387` lists what no refusal covers: a counter, or what is computed from one,
and a bitwise answer over a value of no known range. The programs have such hashes and let
them outgrow the narrow range. `Outgrown` says which they are, and what the source owes the
chip is then the narrowed number (`Shown`); every other hash is owed as it is, so a missing
refusal shows.

`LiteralsRefused` in `Selection` is `isel/literalconversion.go`, the literals whose bits
would not survive a conversion.

### MirCode, Peephole, Selection and CompiledCode

`MirCode` is `mir` with its instructions: blocks in layout order, labels, successor
edges, `BlockExits`, `FallsThroughTo` and the other questions `cfg.go` asks; the passes
`DropFallthroughJumps` and `MaterialiseUnreadable` and the checks `Validates` (labels and
edges) and `PlacementRefused`. Opcodes come in families with a predicate. `Peephole` is
`peephole.go`: identity moves, retests folded into the definition before them, a
branch inverted over a jump, the jump removal after each.

`Selection` is `isel` for functions in SSA form: operands, arithmetic, the address
arithmetic `Addresses` planned, comparisons of every predicate on integers and floats,
fused into the branch or materialised, selects, calls with their argument moves,
switches, returns, and for phis which edges are split, what each carries and where its
block is laid out. `SelectionRefuses` is every diagnosis of it: a bitwise instruction
over what may be infinite, a place outside its object or outside memory, a local in a recursive
function, a region past the array. The order of one edge's copies is `ParallelCopy`'s
subject and here any order with their simultaneous effect.

`CompiledCode` runs the stages over a program:

| action | code |
|---|---|
| `CheckPointers` | `pointers.Check` and the end of the compilation it may be |
| `PlanAddresses`, `SelectProgram` | the plans of each function; `isel.Select` |
| `MaterialiseProgram` | `mir.MaterialiseUnreadable` |
| `Allocate` | a colouring by the intervals of `MirFunc!LivePoints` with the lowest or the highest free register, pushes and pops around calls, `SetStackBase` |
| `Clean`, `Emit` | peephole, the placement check, labels to lines |

Then `SourceStep` takes the source to its next effect and `ChipStep` the emitted lines
to theirs: registers, memory, `sp`, `ra`, a program counter. A pointer of the source is
an object and a byte in it, so that the slot the chip computes is compared with
something computed otherwise; loading between two slots is a step the source does not have.

### FrameMeasure, CallSearch and CallFrames

`FrameMeasure` is the arithmetic of `frames.go` as pure definitions over a call
graph: what every function's callers hold when it is entered, how deep the chains
below it go, with `Widest` carrying whether there was a choice; `Report` is the
verdict on one recursion (a count, "at least" a count, undecided, refused).
`CallSearch` is the search for components: Tarjan's, as `sema/callgraph.go` runs it
on an explicit stack and `frames.go` by recursion, callees in any order; its result
is compared with the components by reachability, which is how `isel` asks
(`SearchesAgree`). `CallFrames` searches, measures, and then runs the program, calls
being the data's choice: `Save` pushes the registers of one call,
`Enter` is the jump and the callee's push of its return address, `Return` pops
both. A push past the last slot faults. The program runs even when it was
refused, so that a refusal can be held against what would have happened. Calls to
the entry point are absent because `irgen/call.go:20` refuses them.

### Exchanges and ChipHarness

`Exchanges` is what `internal/chip` promises: a call returns the chip's own
answer to that call, or an error; after an error or Close, only errors.
`ChipHarness` is how it is kept. A call sends a batch of commands in one write
and reads their replies one by one; each kind of reply has its own action
(`ReadOK`, `ReadOther`, `ReadBody`, `ReadBlockEnd`), `NoAnswer` is the deadline,
the context or the end of the output, `Fail` sets `broken`. `Pump` and `PumpEOF`
are the reader goroutine. The chip answers or refuses each command, may crash
with part of its output lost, its client may go at any time. The container is at first only
asked for: `start` has started a client, and the daemon creates the container, runs it,
refuses either or removes it when it likes (`Create`, `Run`, `NotRun`, `Removed`), with or without
the client that asked. `CloseQuit`, `Waited`, `WaitTimeout`,
`RemoveContainer`, `RemoveFails` are `Close` and `shutdown`; a removal that finds no container
yet leaves it asked for. `CleanMeansGone` speaks of a harness that `Start` has handed out,
whose container answered once and so exists; for the others see section 7. The refinement maps
`Exchanges`' `shut` to "Close has begun"; calls and results are the same.

### ChipPool

`internal/chiptest`: tests that ask for the chip (`Claim`, and `ClaimRefused` when another
test has it; a goroutine of the test that has it is let in, and may come back, `AskAgain`), the handout under the mutex (reset of a live process,
replacement of one whose reset fails or that was closed, a start that may fail), the
claim given up when a test ends, and the shutdown after the last one. Of a process is
kept what `ChipHarness` shows of it: an exchange answers or fails, and after one
failure every later one fails.

## 4. The runs

All runs check for deadlock but `constant_fold`, where a refused expression stops;
elsewhere a finished system has an explicit self loop (`Terminated`, `Ended`,
`PoolDone`, `Stopped`), so a state with no other step is reported.

| run | instance | distinct states | question |
|---|---|---|---|
| `allocated_code` | 4 virtual registers; 3 general registers, `sp`, `ra`; 4 memory cells; straight, looping, joining and calling functions and value lists with holes, under five configurations | 223,460 | is allocation right, does it end, and does the rewritten code read what the source read? |
| `liveness` | 1 register in 3 blocks under 12 control flow graphs, 2 registers in 2 blocks under 3 | 237,282 | are intervals exact? |
| `parallel_copy` | every list of up to 5 moves over 5 registers and a literal in which only chain ends fan out | 88,733 | is a sequence simultaneous? |
| `compiled_code` | the 338 programs of `MCCompiledCode` on 6 general registers and 12 cells | 60,463 | does every accepted access have one object, and do the emitted lines have the effects of the functions they came from? |
| `statements` | the bodies of `MCStatementRuns`, a machine that answers 0 or 1 | 366,582 | does the graph do what the statements say, and is nothing read unwritten? |
| `constant_fold` | `int` of 4 bits, exact doubles to 2^6, `long long` of 8 bits; literals 0 to 18 and those at the edges | 24,796 | do the three readers of a constant agree? |
| `call_frames` | all call graphs of 3 functions with at most 2 calls each and 0 or 1 save, graphs of 4 functions; 0 to 5 slots | 243,110 | do the searches agree, are counts right, are ordinary calls safe? |
| `chip_harness` | 3 calls of up to 2 commands, blocks of 1 line, a channel of 1 | 144,353 | does each call get its own answer, and does everything return? |
| `chip_pool` | 3 tests, 4 goroutines, at most 3 starts | 237,624 | is a handout exclusive and fresh, and is nothing left? |
| `parallel_copy_forks` | every list of up to 4 moves over 4 registers | | violated, see section 7 |
| `statements_last_arm` | one function with a switch | | violated, see section 7 |
| `frames_first_activation` | the graphs of `call_frames`, 1 or 2 slots | | violated, see section 7 |

What the properties say is in the modules, above each. Why the bounds are enough:

- *allocated_code*: two registers that can hold a value, after one is pinned or held
  back, and four values make every outcome of the scan happen: a register shared
  through a hole, an eviction of two occupants, a value spilled at once, a second
  and a third round, more demand than scratch, slots reused, slots exhausted.
  `NoNeedlessSpill` speaks of intervals without holes only, where the scan is
  optimal; with holes it is a heuristic. A loop makes every value be read after a
  round trip; calls stand inside and outside loops; a value is defined on two ways
  that join.
- *liveness*: a range list is per register, so one register under all flow graphs
  and two to see that they do not disturb each other; three blocks are enough for
  a loop inside a path, a loop entered in the middle and an unreachable block.
- *parallel_copy*: five registers hold a cycle of two next to one of three and a
  tree hanging off a cycle. Destinations are numbered in order: any other naming
  is a renaming.
- *compiled_code*: every kind of condition stands over a triangle, a diamond and a
  loop; every way a block may lie is in one of them: behind its branch, in front, on a
  split edge, empty, last. Integers range over -1, 0, 1 and floats over NaN, -0 and 1:
  what separates one predicate from another; arithmetic has -3 to 3 and the edges of the
  masks it meets, and infinities reach a bitwise instruction directly, through a merge, a
  call and memory. Arrays are of one and two dimensions, reached by constant, masked, scaled and shared
  indices, through pointers that are walked, subtracted, chosen, stored and passed, one of
  them through a pointer that was loaded, where two objects meet and the check does not see it.
  A NaN reaches each bitwise instruction.
  A device hash is stored from readings on both ends of the narrow range and past them, NaN
  and infinity, under every form of test (strict, inclusive, one sided, unordered, of a
  magnitude, turned round, joined, nested), with arithmetic in front of the test and after
  it, and through memory, calls and loop counters; counters and sums outgrow the range as well.
  Twelve cells let the data region be small, exactly the array, and one past it. Six
  registers never run out; spills are the subject of `allocated_code`. Every refusal of
  `SelectionRefuses` is met by a program.
- *statements*: two nested constructs hold every pair of a jump and what it leaves,
  with an assignment before, after and inside; conditions are two operators deep; locals
  are declared inside loops and arms and used there, in a condition and in a post clause.
- *constant_fold*: two operands on the stack, operators applied until something is
  refused: the values reached include all edges of every width, from both sides.
- *chip_harness*: two commands to a batch let a reply of the first be taken for one
  to the second; three calls let an answer arrive one and two calls late. A
  channel of one and blocks of one line keep the relation that matters, a channel
  shorter than what can be on its way. The client may be killed, and Close may run to its end,
  before the container is created, while it is made and at any later time.
- *call_frames*: `MaxNesting` 7 exceeds any depth 5 slots allow in a recursion
  that pushes; one that pushes nothing is undecided by the code and may nest
  without bound, and is cut there.
- *chip_pool*: two goroutines of one test and two more tests give a claim from inside,
  from outside and after; three starts let a replacement be replaced.

## 5. Fairness

`Liveness`, `LinearScan` and `ParallelCopy` are one goroutine that runs to its end:
`WF_vars(Step)` says it is scheduled, and *Terminates* that its loops end.
`ChipHarness` assumes weak fairness of `Reading` and `Closing`: the caller's
goroutine runs and its timers fire, for every read has a deadline and every step
of Close has one. Nothing is assumed of the chip, the docker client or the
daemon, which may hang forever; that is the point of the deadlines.
`CompiledCode` assumes that the chip goes on executing lines (`WF_vars(ChipStep)`) for
`EffectsHappen`, and `StatementRuns` that the graph is executed
(`WF_vars(GraphStep)`) for `Follows`: an effect the source has performed is performed.
Nothing is assumed of the source, which may loop without showing anything.
In `AllocatedCode` only the allocation must end; the code it makes, and the programs
of `CallFrames`, may loop.

## 6. The proofs

`tlapm` checks every step of the eight proof modules. The theorems hold for every
value of the constants that meets the modules' named assumptions.

**MirFuncProofs** (no assumption). The library's induction theorems cannot be used by
the installed provers, because they take an operator; its well-foundedness facts can.
`LeastNatural` and `Induction` derive induction over the members of a *set* of numbers from
`WFMin` and `NatLessThanWellFounded`, and what a recursive function computes is then within
reach: `SumFirstSteps`, `NumberedInOrder` and `EarlierBlocks` (indices grow in layout order,
so that a number of one instruction belongs to no other), and the reference of liveness.
`WantedAt` goes back from the readers as many times as there are places. Each time adds a
place or is the last (`ChainStops`), so it ends closed (`WantedIsReached`). Hence

- `WantedIsLeast`: it is the least set that holds the readers and is closed backwards;
- `WantedBackwards`: the equation that liveness is usually defined by.

**LivenessProofs** (`FuncsAssumption`: functions are well formed) rests on `MirFuncProofs`.
`SweepInv`: nothing is in a set without reason (`Justified`: in never exceeds what out, kill
and upward exposure justify), and blocks already visited in a pass that has changed
nothing satisfy their equations (`PassSoFar`). `LivenessIsAFixedPoint` follows.

A fixed point need not be the least one; a value carried round a loop for nothing would
satisfy the equations too. `SetsWanted` says that the sets never hold more than is wanted,
which every visit keeps because `WantedAt` is closed backwards, within a block by induction
over its instructions (`WantedToTheStart`). The other way round, the places that the
solution justifies hold the readers and are closed backwards, so they hold `WantedAt`
(`SolutionIsWanted`). After the last pass the sets are exact.

The walk then goes backwards through blocks and instructions. Its invariant, `WalkInv`, says
which points the ranges hold in front of each instruction (`RangesSoFar`): those behind it
at which the value is wanted, and, while it is wanted where the walk stands, the whole block
before it as well, because `addRange` puts that in at the first read met and `setFrom` cuts it
at the write. Both look at the first range only. `AddedRange` and `StartMoved` say what they
do to the set of points when the new range starts no later than the first, which
`RangesWalked` shows is how they are called: that is the comment on `addRange`, proved. From
it

- `IntervalsAreExact` (`IntervalsExact`): for any flow graph the finished lists hold exactly
  `LivePoints`, and touches count every operand;
- `ListsAreSets` (`ListsAsSets`): on sorted, separate ranges the two cursors of `intersects`
  never pass a common point (`ScanMeets`), and `covers` finds the range that holds a point.

**ParallelCopyProofs** (`RegsAssumption`, `MovesAssumption`). Two theorems hold of any list of
moves, forks included: `CopyTypes`, and `ReadyIsAlwaysFree`, that a register is ready only
when no other source's value is looked for in it. Their invariant (`ListInv`) is that a value is
looked for at home, in a register it was copied to, or in a fresh one (`LocPlaces`), and that a
source is queued only once its value has moved (`ReadyMoved`). It does not say that the
value still is there.

That is `NoValueLost`, which like `SequenceIsSimultaneous` is stated under `AllForksEnd`: a value
that goes to several registers goes only to registers that no move reads. `phi.go` does not
guarantee it, and on the other lists `SequenceIsSimultaneous` is false (section 7). Its
invariant has a part for each phase. While the sequence is built (`Copying`): every
source's value is in the register `loc` names for it (`Held`), which is the source
itself, a destination waiting for it, or a fresh register (`LocPlaces`); a source
that is also a destination is at home, queued, or has received its own value
(`Placed`), and is queued only once its value has moved (`ReadyMoved`); any other
destination is queued or has its value (`NonSources`); whatever lacks its value is
queued or still to do (`Pending`); while a value is only at home, nobody has
received it (`Unmoved`); other registers are untouched (`Rest`). `NoValueLost` and `SequenceIsSimultaneous` follow, for any
number of moves and registers.

`OneSpareForEachCycle` (`OneSparePerCycle`) needs no such hypothesis, since the property
speaks only of lists without forks. `Cycles` are the minimal sets of registers none of which
waits for a value from outside, which spares the proof any walk along the moves. `CountInv`
counts: copies emitted are destinations written (`Copied`) and cycles opened (`Opened`, one
whose contents have begun to move). The code takes whatever is unwritten when nothing is
ready for a member of a cycle, and `BrokenIsACycle` says why it is right: each unwritten
register is then waited for by another unwritten one, so by counting each also waits for one
(`EachWaits`), and a set like that is made of cycles (`OnACycle`), none of them opened yet.
The same lemma shows that the last destination on the list is never the one a cycle is
broken at, after which the code would leave its loop with a destination ready and unwritten.

**ConstantFoldProofs** (`WidthsScale`: the widths are those of a window of exact doubles
that `unsigned` fits, and a machine at least two bits wider that can count its own bits in
the window: 32, 53 and 64 do; `UndefinedIsNoNumber`). The invariant `StackSound` says of
every operand on the stack that it fits its type and the window and that the three readers
agree on it; the theorems `ConstantsFit`, `OneNumber` and `NoneRefusedInVain`
(`AcceptedFits`, `ReadersAgree`, `RefusedForCause`) follow. Each kind of operator takes an argument of
its own for each reader:

- masks: the bits of a number that fits `w` bits are its sign from `w` on (`BitsAbove`), so
  a mask of two such numbers fits `w` bits too (`MaskStays`); the recursion in `OfBits` is
  matched with a running sum (`MaskAdds`), and `Complement` is the `-n - 1` that `~` folds to;
- products: the test in `Exact` fails whenever the product wrapped, since a quotient tells
  its dividend to within one divisor and wrapping moves it by 2^64 (`FoldedIs`);
- `unsigned`: sums and products do not depend on their operands' conversion (`UnsignedSums`);
  quotients and masks may, and are refused when they do (`AnswerUnchanged`);
- `/` on the machine rounds the quotient to a double before truncating it; the rounding
  cannot reach the next whole number (`RoundingStaysBelow`), because a quotient that needs `l`
  bits leaves `53 - l` of them for a divisor smaller than twice that power (`DivisorSmall`);
- whole numbers of the window are exact doubles (`LengthIs`, `RoundedSame`) and pass through
  the two conversions of a bitwise instruction unchanged (`ReadSame`, `WriteSame`).

The prover knows little of `2 ^ n`: that it doubles is proved by counting the subsets of
`n` things (`Doubling`), and the rest by `Induction`.

**ChipProofs** has two parts. The first is about the pool (`PoolAssumption`). The invariant relates the claim, the handout
and the process. `OwnersOnly`: whoever is inside or holds the chip belongs to the test that
owns it; `OneInside`: the handout is one goroutine's at a time; `LiveAsStaged` and
`OpenIsCurrent`: every process but the current one has been closed, and the current one
is live or at the stage that makes it so; `DownIsOver`: the shutdown comes after every
test. From it `PoolIsHeldAlone` (`HeldAlone`), `PoolLeavesNothing` (`NothingLeft`) and the
action property `PoolHandsFresh` (`FreshWhenHanded`), for any number of tests and
goroutines.

The second is about the harness (`ConstantsAssumption`). That a harness between calls has nothing
left on the way (`InStep`) cannot be inductive: it says nothing of a call in progress.
`CallInStep` does. Follow the pipes from the line the caller reads next to the last line
the chip wrote (`Coming`, the channel and then stdout): as long as the call has not
failed and what it has read of a block can still become an answer (`Clean`), those lines
belong to the commands of this batch, in their order and each reply line by line
(`InOrder`); the first is the one the caller is about to read (`StartsAt`); while the
chip lives they end with a whole reply, that of the command before the one it takes next
(`EndsBefore`); stdin holds exactly the commands after that (`Unhandled`); and the lines
accepted so far are exactly the ones before (`got`). A crash cuts the sequence short,
which only `EndsBefore` notices. A block with a wrong line in it is not `Clean`; nothing
is claimed of it but that it can only end in a failure. `FailureLasts`: an error of one
call is an error of the harness for good. From them

- `HarnessInStep` (`InStep`): for any batches, block length and channel capacity,
  whatever the chip answers and whenever it dies;
- `HarnessImplements` (`Implements`): each step of the client maps to a step of
  `Exchanges` or to a stutter, under the same refinement mapping the run checks;
- `CleanCloseLeavesNothing` (`CleanMeansGone`): where the first exchange has been answered, and
  only there, a clean Close leaves no container. Until the container runs nothing has been
  written to stdout (`NotYetRun`, `Silent`), so a harness that got an answer is past that;
- `HarnessTypes`.

**AllocatedCodeProofs** has two parts. The first is about the allocator
(`ConstantsAssumption`: registers, virtual registers and slots are numbers, the first two
finitely many; `InputsAssumption`: inputs are well typed and an interval's points lie
within its bounds). A register is free for `v` if no member of the
held list that has it intersects `v`, but members are dropped from that list once
they end before the interval at hand. The mutual exclusion of registers is
therefore not inductive. The invariant `IInv` adds `ScanInv`: every placed
interval is in the held list or over, that is, it ends before every interval still
to come starts; no pending interval is placed or spilled; each one reached is
exactly one of the two; and a placed one has a register it may have in the current
round. `SlotInv` says the same of slots and the occupant list. From it follow

- `RegistersExclusive`, `SlotsExclusive`: no sharing, for any function, any
  register file, any configuration;
- `TypeCorrect`;
- `ScratchIsHeldBack`: on success a value has one place, never one that reloads,
  pinned operands or calls overwrite, and a general register if a device reference
  reads it;
- `ScratchAlwaysSuffices`, with `DemandInv`: when the rounds stop, either the
  scratch held back serves every instruction, or the scratch list is exhausted and
  planning the rewriting refuses;
- `SpillsOnlyUnderPressure` (`NoNeedlessSpill`): a counting argument. Intervals are placed
  in the order they start (`RoomInv`), so without holes whatever intersects `v` is wanted
  where `v` starts. Were no register free, a choice of one holder for each would inject the
  registers into the values wanted there, and `v` itself would be one too many
  (`SomeRegisterFree`).

The second part is about the code that is left. `AllocatorUnchanged` shows that the
driver and the running code leave the allocator's variables alone, so that `CodeSpec`
implies `Spec` of `LinearScan` and its theorems hold here. The assumptions are
`ProgramsAssumption` (edges stay inside the function, which has a block;
`mir.Validate` checks both) and `InputsDescribeFunctions`. Its clause about live points
is what `IntervalsAreExact` proves of `Liveness`; what makes those points useful, that they
are closed backwards, is `WantedBackwards`.

Between two instructions the argument is short: a value that may still be read is in its
register or slot (`HomeAt`). An instruction, though, is run as a sequence of steps that
move values elsewhere and back, so the invariant `CodeInv` says where each value is after
every prefix of an expansion (`Midway`), counted from its end, in terms of how much has run
(`Done`) and how many registers are in the frame (`Depth`):

- `ReadyToRun`: until the instruction has run, every value wanted there is at home, and
  each operand already reloaded is in its scratch register too;
- `FrameHolds`: a frame cell holds what its register held, if that is still wanted;
- `OnTheWayHome`: after it, a value is at home, in the register about to be stored, or in
  the part of the frame still to be popped.

Each step then has one thing that could go wrong, and one fact that excludes it. A reload
could overwrite a value or an earlier reload: nothing is assigned a register held back,
and the scratch list has no duplicates. A result could land on a value wanted after it:
both intervals have the instruction's odd point, so by `RegisterExclusive` and
`SlotExclusive` they are apart. A call could destroy a value: it has no result, so what is
wanted after it was wanted before it and its register is in the frame; a slot could only
be overwritten by another activation, and a recursive function has none. The lemmas on
`InOrder`, `Max` and the concatenation of the five parts of an expansion take their
lengths and elements from the library's facts on finite sets and sequences. From
`ValuesKept` (`[]CodeInv`) follow

- `EveryOperandHeld` (`OperandsHeld`), for every function, register file, configuration
  and path;
- `FramesAlwaysKept` (`FramesKept`): the frame is empty between instructions and on exit,
  and `FrameFits`, what `frames.Measure` leaves the driver with, is enough for every push;
- `ForeignMemoryKept` (`ForeignKept`).

**CallFramesProofs** (`FuncsAssumption`: the functions are finitely many and the entry
point is one of them; `GraphsAssumption`: functions are numbers, a call graph maps them to
finite sets of sites, and what is left for frames is a number) rests on `MirFuncProofs` for induction and takes the
specification in the order it runs.

*The search.* `BelowIsLeast` says that the functions below `f` are the least set that holds
`f` and is closed under calls. `SearchInv` then has a part for each thing Tarjan's search relies
on: numbers are given in order and both stacks grow with them (`InOrder`); closed functions
call closed ones only, and what has been closed are components (`ClosedSound`); a call that
has been looked at leads to a closed function or has lowered a number (`CallsHandled`); an open
function lies below every function entered before it and reaches the innermost one still
being searched (`OpenReaches`); a low number is that of a function reached, and none lower is
called from what the function carries (`LowSound`). When a function keeps its own number,
what it carries is closed under calls but for closed functions, so it is a component. Callees may be
taken in any order. `ComponentsAreFound` (`SearchesAgree`) follows for every call graph.

*The fixed points.* What `frames.go` computes by recursion over components, `FrameMeasure`
states as recursive functions. That such a function has the value its definition says
is not free: a definition by `CHOOSE` may have no solution. `RankedFixedPoint` gives one
whenever each value depends on values of lower rank; the number of functions
below (or above) a function is a rank outside recursions, hence `DeepestSolved` and
`EnteredSolved`.

*The machine.* `RunInv`: the activations are a chain of calls from the entry point, each
holding its return address and what the call it makes saves; together they never hold more
than there is room for, until one push too many faults; what was reported is what
`Reports` says of the call graph. A chain descends through components and never comes back to one it left
(`ChainDescends`), so

- `EachRecursionIsReported` (`RecursionReported`);
- `CountsNeverTooHigh` (`CountsErrLow`): the activations of one recursion are an interval of
  the chain (`RecursionIsInterval`); the chain into it holds no more than the report says is
  spent (`HeldOnEntry`, `HeldInto`), each further activation no more than the dearest step
  (`HeldInSteps`), the chain out of it no more than the deepest one (`HeldOutOf`,
  `HeldFromThere`); so a push that does not fit comes after the count (`Quotients`);
- `ExactCountsHold` (`CountsExact`): without a choice those bounds are met exactly, so the
  activation after the last one counted cannot be entered;
- `OrdinaryCallsNeverFault` (`OrdinaryCallsFit`): where nothing recursive runs, the
  deepest chain bounds what is held, and the program would have been refused.

**SourceRunsProofs** (`NodesAssumption`, `ProgramsAssumption`) is about definite
assignment: `SourceAssigned` (`AssignedBeforeRead`), for any program and any answers of the
machine. What it assumes of a program is what the passes before leave: a tree is finite, and
what a function calls comes before it, since a function that can reach itself is not spliced
in; a name is a symbol, so that no two functions share one, every name is declared in
its function and before it is used, and none is both in a register and in memory; the
initialisation of a `for` is a declaration or an expression (`tsparse/stmt.go:177`); `main`
takes nothing. The theorem has one hypothesis more, `LastArmsHeld`, without which it
is false: the run `statements_last_arm` of section 7.

*The functions exist.* `RankedFixedPoint`, by the rank of a node, gives each of the
recursive functions over the tree the value its definition says (`InsideIs`, `JumpsOutIs`,
`TerminatesIs`, `JumpsBoundIs`, `WalkExprIs`, `WalkStmtIs`).

*Walks only go on.* The walk of a statement is handed the frames of all loops and switches
around it and adds to them. `Moves` bounds what it does: what has been reported
stays reported, frames grow and lose nothing, only frames of a jump in `JumpsOut` grow, and each
state collected or left is what the walk started with, less what it declares, plus what it
names. `WalkStmtMoves` proves it of every statement. `TerminatesDead` says that the walk
of what `reach.go` says terminates ends in a dead state, which ties the two files together:
an arm that terminates may be followed by another one, and a function that owes a result never
falls off its end. It needs no `LastArmsHeld`.

*What is left to do fits.* A flow state belongs to a point of the text, and the machine only
has a stack of things to do. The invariant puts a context between any two of them: the
function, the flow state there, and those that a `break` and a `continue` would lead to.
`Fits` says of each kind of item how the contexts on its two sides are related: a
statement's walk from the one reports nothing and arrives at no more than the other claims
(`Weaker`, so that a context may forget), and what it collected is covered by where the jumps lead
(`Landed`); a loop about to go round again is the loop whose walk was done once, before the
first round; a mark binds a jump to the context behind it. Every step replaces an item by
others, and these fit between the same two contexts: `ExprExpands`, `StmtExpands`,
`AgainExpands`, `TestExpands`, `SelectExpands`. A `break` skips contexts up to its mark, and `Landing`
finds there what it was promised; a call stacks a whole function, whose walk starts
with nothing assigned (`EnteredFits`), over what its caller counts on (`kept`), which
functions of other names cannot undo. `Holds` is the link to the memory: what the top context
says is assigned has been written, so its state is live, and a read of
a tracked local that is not assigned would have been reported (`FittedDefined`).

A back edge is where this could fail, since a walk goes round a loop once: the
second round starts from more than the first, except for what the body declares, and
that has been undeclared by the walk already (`Clear`). A condition that is always true
makes the walk take the way past it as dead; `sure` says that such a condition then really is
not zero on the stack.

`WantedIsLeast`, `WantedBackwards`, `WalkInvariant`, `ScratchIsHeldBack`, `TypeCorrect`,
`CopyTypes`, `ReadyIsAlwaysFree`, `HarnessTypes`, `AllocatorUnchanged`, `ValuesKept`,
`RunAlways`, `DeepestSolved` and `EnteredSolved` are proved and not repeated by a run.

Model-checked only: everything under fairness, which is out of the prover's reach; of
`CompiledCode` `AccessesNamed`, `SameEffect`, `NoDefect` and `NoNeedlessJump`; of
`StatementRuns` `TypeOK` and `SameFlow`. `CompiledCode` and the modules it is made of, and
`Lowering`, use `RECURSIVE` operators, which the prover cannot take. That `SourceRuns` speaks of
the source side of `StatementRuns` is by the text of the two modules and not a theorem, for
the same reason; TLC checks `AssignedBeforeRead` there. An operator rewritten as a
recursive function, as those of `MirFunc`, `LiveRanges`, `FrameMeasure` and `Statements` were,
can be reasoned about by `Induction` and `RankedFixedPoint`, at the price of a proof longer than
the model. The properties of the runs of section 7 do not hold.

## 7. Where the code and its documentation disagree

- **Forks in parallel copies** (`parallel_copy_forks`). The comment on `sequence`
  (`internal/isel/phi.go:169`) promises a sequence "with the same effect" as the
  simultaneous copies. The code takes a destination for written when its value
  still is where it was last put. A destination that was written and whose value
  has then been copied on fails that test: it is written a second time, after its
  source has been overwritten. Smallest list found: `1 <- 4, 2 <- 3, 3 <- 4`, a
  value copied to two registers one of which is itself the source of a move.
  The saved copy it should have been written from is then no longer the value that
  is needed: register 2 ends with the old value of 4. Lists in which a value that
  fans out goes only to registers no move reads (`ForksEnd`) are sequenced
  correctly, which `SequenceIsSimultaneous` proves.
- **Empty last arms** (`statements_last_arm`). `docs/microc.md:656` says a register local "must
  be assigned on every path reaching a read of it. One that is not is diagnosed at the
  read." Definite assignment lets an arm without statements contribute no exit
  (`sema/definiteassignment.go:402`), because it runs into the arm below. The last arm has none
  below; control leaves the switch by it, as `irgen` (`stmt.go:197`) and `switchTerminates`
  (`reach.go:58`) know. In a switch with a default, such an arm is a path that the join after the
  switch does not count: `switch (t) { case 1: p = 1; break; default: }` leaves `p`
  assigned, and a read of it is accepted. Met as the one case that `SourceAssigned` could not
  be proved for; every other one is covered by the theorem.
- **First activations** (`frames_first_activation`). `docs/compiler.md:152` says that a
  recursion is refused "with too few slots left for even its first activation, which
  faults on the first call whatever the data says". A recursion that
  calls into another one is left undecided (`frames.go:681`) before its own first
  activation is measured, so a program that faults on the first call is accepted
  with a warning.

Five more were met and have no run.

*Recursions.* The first activation of a recursion is measured by the
most expensive member of it (`frames.go:519`), so one whose cheaper members fit, and which can
be entered and left, is refused too, where `docs/compiler.md:152` speaks of a fault on the
first call.

*Stores through a loaded pointer.* `storedInto` (`internal/pointers/pointers.go:208`)
follows a pointer to an object through address arithmetic, phis, selects and
parameters, but not through memory: a store through a pointer that was itself loaded
(`*pp = &y`) is not found. An access through what is read back may then be accepted though
it reaches two objects, where the package's comment (`pointers.go:1`) says every access
designates one. Nothing in the compiled program depends on it, since an address that is
not fixed is computed in a register. `compiled_code` has such programs (`Redirected`), and
every other property holds of them. `AccessesNamed` speaks only of the programs in which no
pointer is stored through one that was loaded (`StoresSeen`); on the others it is false.

*A container not created yet.* `Start` only starts the docker client. When the first
exchange fails, because its context ended or the deadline passed, the daemon may not have
created the container: `docker rm --force` then answers "No such container", which
`removeContainer` takes for a removal (`internal/chip/harness.go:292`), and `Close` is clean.
The daemon may still create it, although the comment says that the function "returns only
once the container is actually gone" (`harness.go:277`), and `start` that "the container is
running either way" (`harness.go:177`). `ChipHarness` has these states; `CleanMeansGone`
speaks of the harnesses `Start` handed out, whose container has answered.

*Operands the common type does not hold.* The table at `docs/microc.md:595` lists them as
diagnosed, without condition. The code diagnoses such an operand only where the converted
operands give another answer (`convertedAnswerDiffers`, `sema/const.go:479`), which is the
rule of the text at `docs/microc.md:579`: `-1 & 0x80000000` is accepted. `RefusedForCause`
takes the text's side, so for it a refusal that only the table asks for is without cause.

*A NaN in a bitwise instruction.* A comment in `isel/int32range.go:556` says that the
conversion of the right shift "answers a NaN with zero"; `docs/microc.md:274` says -2^63.
`Doubles` follows the document's two conversions. By them `>>` of a NaN answers the -2^53
that the document names when it shifts by ten, and less far it answers zero.

## 8. What the models leave out

- *Operands and opcodes* in `MirFunc` and `AllocatedCode` are reduced to what the
  allocator and the rewriting look at: which value an instruction reads, not what it
  computes. `CompiledCode` has both, and allocates without spilling.
- *Selection*: device operands other than the hash of a batch store, intrinsics beyond a
  read, a write, a batch store and a sleep, `i1` addition, logical shifts right,
  unreachable blocks and undefined operands. The depths at which the walks of `address.go` and
  `mask.go` give up (32 and 16) and the products that overflow there are not reached by
  the programs; giving up only costs instructions or refuses. The budget of
  `int32range.go`, the rounding of its ends and their overflow are left out as well; two
  forms it carries and does not read (a phi, a sum of `i64`) are modelled as they are, on
  programs whose hashes stay narrow and on some whose hashes do not (`Outgrown`).
- *Numbers* of `Doubles` stay far below 2^53, so the limit of `Cover` and rounding are
  absent; a product of integers that is zero has no sign; bitwise operands are 16 bits wide
  and their answers 13 and a sign.
- *Globals* start at zero and so do locals; initial values and pointers in them are
  written by code `irgen` makes in `main`.
- *Several functions*: `allocate` accumulates the spill base over functions and
  `SetStackBase` sets `sp` (refusing a base past the array). One function at a time
  is modelled; the base it starts at and the cells above it are part of the
  program considered.
- *Inline chains and positions* only serve reports.
- *Chip client*: the docker client's stdin takes any number of commands (batches
  are far below the size of a pipe); the value a reply carries, and the mismatch
  errors found after a whole reply has been read, are data; the goroutine that waits for the
  process is folded into `Waited`; a reader goroutine left blocked on a full
  channel after Close is not a state anybody observes again.
- *Frames*: how pushes are recognised in the instruction list and how a recursion
  is named in a message.

- *Not modelled at all*: parsing, positions and diagnostics, scopes and types, double
  folds, LLVM's configuration, generated tables, generators and the differential tests.
  They are recursion over immutable trees, text, or test infrastructure: no order of
  steps can be wrong in them, and a reference definition would repeat the code. They
  are also most of the repository's lines.

## 9. Plan

Done: allocation from liveness to running code; parallel copies; the frame analysis and
the searches for recursion against a running machine; the chip client against its
abstract service, and the pool that hands it out; statements, definite assignment and
lowering against C; constants against their three readers; the back end from an LLVM
module to emitted lines against the module, with pointers, addresses, the flow of
infinities and the range of hashes. Proved: that liveness and its range lists are exact; the safety of the scan and of the code it
leaves behind; that of sequences, of the constants, of the chip client, which implements its
abstract service, and of the pool; that the search finds the components of every call graph;
that the counts of the frame analysis are what the machine has room for; and that definite
assignment is sound.

Left to model, in this order: several functions with the accumulated spill base in one
program and the driver's exit codes; device operands and the other intrinsics; double folds
and types in `sema`; the reader goroutine after a failure.

Left to prove, in this order: that the passes of `MirCode` and `Peephole` keep the paths of a
function; that the flow of values is closed; that every graph `Lowering` makes is one the
verifier takes. All three need their recursive operators rewritten as functions first.
