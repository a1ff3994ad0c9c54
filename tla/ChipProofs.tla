------------------------------ MODULE ChipProofs ------------------------------
(***************************************************************************)
(* The chip that tests run on: the pool that shares it, and the harness    *)
(* that talks to it.                                                       *)
(*                                                                         *)
(* Of the pool, for any number of tests and goroutines: no two tests hold  *)
(* the shared chip, and no process outlives the package.  Of the harness,  *)
(* for any batches, block length and channel: an answer is the chip's own  *)
(* reply to the call that got it, a harness that may be used again has     *)
(* nothing left on the way, and a clean Close of one that was handed out   *)
(* leaves no container.  Hence the client implements Exchanges.            *)
(***************************************************************************)
EXTENDS ChipPool, ChipHarness, SequenceTheorems, TLAPS

-----------------------------------------------------------------------------
(* The pool *)

Stages == Inside \cup {"idle", "claimed", "holds", "stopped", "gone"}
Marks == {"dirty", "broken", "closed"}

PoolTypes ==
  /\ run \in [Tests -> {"waiting", "running", "ended"}]
  /\ owner \in Tests \cup {None}
  /\ handout \in BOOLEAN /\ live \in BOOLEAN /\ down \in BOOLEAN
  /\ harness \in Nat
  /\ procs \in Seq(SUBSET Marks)
  /\ at \in [Callers -> Stages]
  /\ has \in [Callers -> Nat]

(* Whoever is past its claim belongs to the owner, which has not ended:    *)
(* what the mutex of checkout is for.                                      *)
OwnersOnly ==
  \A c \in Callers :
    at[c] \in Inside \cup {"claimed", "holds"} =>
      owner = TestOf[c] /\ run[TestOf[c]] = "running"

(* One goroutine at most is inside get, and the flag says so.              *)
OneInside ==
  /\ \A c \in Callers : at[c] \in Inside => handout
  /\ \A c, d \in Callers : at[c] \in Inside /\ at[d] \in Inside => c = d

(* A goroutine resets only a live process, and starts or closes one only   *)
(* when there is no live one.                                              *)
LiveAsStaged ==
  \A c \in Callers :
    /\ at[c] \in {"reset", "settle"} => live
    /\ at[c] \in {"close", "start"} => ~live

(* The one process that may still be open is the current one, while it is  *)
(* live or about to be closed.                                             *)
OpenIsCurrent ==
  \A i \in DOMAIN procs :
    "closed" \in procs[i] \/ (i = harness /\ (live \/ \E c \in Callers : at[c] = "close"))

DownIsOver == down => ~live /\ \A t \in Tests : run[t] = "ended"

PoolInv == OneInside /\ LiveAsStaged /\ OpenIsCurrent /\ DownIsOver

-----------------------------------------------------------------------------
(* Marking a process leaves a sequence of marked processes.                *)
LEMMA MarkedType ==
  ASSUME PoolTypes, NEW i, NEW m \in SUBSET Marks, Marked(i, m)
  PROVE  procs' \in Seq(SUBSET Marks)
<1>1. procs \in [1 .. Len(procs) -> SUBSET Marks] /\ Len(procs) \in Nat
  BY DEF PoolTypes
<1>2. procs' \in [1 .. Len(procs) -> SUBSET Marks]
  BY <1>1 DEF Marked
<1> QED BY <1>1, <1>2, SeqDef

LEMMA CleanedType ==
  ASSUME PoolTypes, ResetAnswers
  PROVE  procs' \in Seq(SUBSET Marks)
<1>1. procs \in [1 .. Len(procs) -> SUBSET Marks] /\ Len(procs) \in Nat
  BY DEF PoolTypes
<1>2. procs' \in [1 .. Len(procs) -> SUBSET Marks]
  BY <1>1 DEF ResetAnswers
<1> QED BY <1>1, <1>2, SeqDef

(* A process that is appended is the last one; the others stay.            *)
LEMMA AppendedType ==
  ASSUME PoolTypes, procs' = Append(procs, Fresh)
  PROVE  /\ procs' \in Seq(SUBSET Marks) /\ Len(procs') = Len(procs) + 1
         /\ DOMAIN procs' = DOMAIN procs \cup {Len(procs) + 1}
         /\ \A i \in DOMAIN procs : procs'[i] = procs[i]
         /\ procs'[Len(procs) + 1] = Fresh
<1>1. Fresh \in SUBSET Marks
  BY DEF Fresh
<1>2. procs \in Seq(SUBSET Marks)
  BY DEF PoolTypes
<1> QED BY <1>1, <1>2, AppendProperties

LEMMA PoolTypesKept == PoolTypes /\ [PoolNext]_poolVars => PoolTypes'
<1> SUFFICES ASSUME PoolTypes, [PoolNext]_poolVars PROVE PoolTypes'
  OBVIOUS
<1> USE PoolAssumption DEF PoolTypes, Goes, pool, Stages, Inside
<1>1. ASSUME NEW t \in Tests, BeginTest(t) \/ EndTest(t) PROVE PoolTypes'
  BY <1>1 DEF BeginTest, EndTest
<1>2. ASSUME NEW c \in Callers, Claim(c) \/ ClaimRefused(c) PROVE PoolTypes'
  <2>1. TestOf[c] \in Tests
    OBVIOUS
  <2>2. CASE Claim(c)
    BY <2>1, <2>2 DEF Claim
  <2>3. CASE ClaimRefused(c)
    BY <2>3 DEF ClaimRefused
  <2> QED BY <1>2, <2>2, <2>3
<1>3. ASSUME NEW c \in Callers, Enter(c) \/ EnterRefused(c) PROVE PoolTypes'
  BY <1>3 DEF Enter, EnterRefused
<1>4. ASSUME NEW c \in Callers, Reset(c) \/ Settle(c) PROVE PoolTypes'
  <2>1. procs' \in Seq(SUBSET Marks)
    BY <1>4, CleanedType DEF Reset, Settle
  <2> QED BY <1>4, <2>1 DEF Reset, Settle, HandOut
<1>5. ASSUME NEW c \in Callers, ResetFailed(c) \/ SettleFailed(c) PROVE PoolTypes'
  <2>1. procs' \in Seq(SUBSET Marks)
    BY <1>5, MarkedType DEF ResetFailed, SettleFailed, ResetFails, Marks
  <2> QED BY <1>5, <2>1 DEF ResetFailed, SettleFailed, Leave
<1>6. ASSUME NEW c \in Callers, CloseBroken(c) PROVE PoolTypes'
  <2>1. procs' \in Seq(SUBSET Marks)
    BY <1>6, MarkedType DEF CloseBroken, Marks
  <2> QED BY <1>6, <2>1 DEF CloseBroken
<1>7. ASSUME NEW c \in Callers, Start(c) PROVE PoolTypes'
  <2>1. procs' \in Seq(SUBSET Marks)
    BY <1>7, AppendedType DEF Start
  <2> QED BY <1>7, <2>1 DEF Start
<1>8. ASSUME NEW c \in Callers, StartFailed(c) PROVE PoolTypes'
  BY <1>8 DEF StartFailed, Leave
<1>9. ASSUME NEW c \in Callers, Drive(c) PROVE PoolTypes'
  <2>1. procs' \in Seq(SUBSET Marks)
    BY <1>9, MarkedType DEF Drive, Marks
  <2> QED BY <1>9, <2>1 DEF Drive
<1>10. ASSUME NEW c \in Callers, AskAgain(c) PROVE PoolTypes'
  BY <1>10 DEF AskAgain
<1>11. CASE Shutdown
  <2>1. procs' \in Seq(SUBSET Marks)
    BY <1>11, MarkedType DEF Shutdown, Marks
  <2> QED BY <1>11, <2>1 DEF Shutdown
<1>12. CASE PoolDone \/ UNCHANGED poolVars
  BY <1>12 DEF PoolDone, poolVars
<1> QED BY <1>1, <1>2, <1>3, <1>4, <1>5, <1>6, <1>7, <1>8, <1>9, <1>10, <1>11, <1>12
        DEF PoolNext

-----------------------------------------------------------------------------
(* The first state.                                                        *)
LEMMA PoolStarts == PoolInit => PoolTypes /\ OwnersOnly /\ PoolInv
<1> SUFFICES ASSUME PoolInit PROVE PoolTypes /\ OwnersOnly /\ PoolInv
  OBVIOUS
<1>1. procs \in Seq(SUBSET Marks) /\ DOMAIN procs = {}
  BY EmptySeq DEF PoolInit
<1>2. PoolTypes
  BY <1>1 DEF PoolInit, PoolTypes, Stages
<1>3. \A c \in Callers : at[c] = "idle"
  BY DEF PoolInit
<1> QED
  BY <1>1, <1>2, <1>3
  DEF PoolInit, OwnersOnly, Inside, PoolInv, OneInside, LiveAsStaged, OpenIsCurrent, DownIsOver

(* Steps that move one goroutine within get, or out of it, keep the owner. *)
LEMMA OwnersKept == PoolTypes /\ OwnersOnly /\ [PoolNext]_poolVars => OwnersOnly'
<1> SUFFICES ASSUME PoolTypes, OwnersOnly, [PoolNext]_poolVars PROVE OwnersOnly'
  OBVIOUS
<1> USE PoolAssumption DEF PoolTypes, OwnersOnly, Goes, pool, Inside
<1>1. ASSUME NEW t \in Tests, BeginTest(t) PROVE OwnersOnly'
  BY <1>1 DEF BeginTest
<1>2. ASSUME NEW t \in Tests, EndTest(t) PROVE OwnersOnly'
  BY <1>2 DEF EndTest, CallersOf
<1>3. ASSUME NEW c \in Callers, Claim(c) \/ ClaimRefused(c) PROVE OwnersOnly'
  BY <1>3 DEF Claim, ClaimRefused
<1>4. ASSUME NEW c \in Callers, Enter(c) \/ EnterRefused(c) PROVE OwnersOnly'
  BY <1>4 DEF Enter, EnterRefused
<1>5. ASSUME NEW c \in Callers, Reset(c) \/ Settle(c) PROVE OwnersOnly'
  BY <1>5 DEF Reset, Settle, HandOut
<1>6. ASSUME NEW c \in Callers, ResetFailed(c) \/ SettleFailed(c) PROVE OwnersOnly'
  BY <1>6 DEF ResetFailed, SettleFailed, Leave
<1>7. ASSUME NEW c \in Callers, CloseBroken(c) \/ Start(c) \/ StartFailed(c) PROVE OwnersOnly'
  BY <1>7 DEF CloseBroken, Start, StartFailed, Leave
<1>8. ASSUME NEW c \in Callers, Drive(c) \/ AskAgain(c) PROVE OwnersOnly'
  BY <1>8 DEF Drive, AskAgain
<1>9. CASE Shutdown \/ PoolDone \/ UNCHANGED poolVars
  BY <1>9 DEF Shutdown, PoolDone, poolVars
<1> QED BY <1>1, <1>2, <1>3, <1>4, <1>5, <1>6, <1>7, <1>8, <1>9 DEF PoolNext

(* While a test holds the chip no other test's goroutine is past its       *)
(* claim: two tests never share the one command stream, however many       *)
(* tests, goroutines and processes there are.                              *)
THEOREM PoolIsHeldAlone == PoolSpec => []HeldAlone
<1>1. OwnersOnly => HeldAlone
  BY DEF OwnersOnly, HeldAlone
<1> QED BY <1>1, PoolStarts, PoolTypesKept, OwnersKept, PTL DEF PoolSpec

-----------------------------------------------------------------------------
(* What keeps the count of open processes at one.                          *)
LEMMA PoolInvKept == PoolTypes /\ OwnersOnly /\ PoolInv /\ [PoolNext]_poolVars => PoolInv'
<1> SUFFICES ASSUME PoolTypes, OwnersOnly, PoolInv, [PoolNext]_poolVars PROVE PoolInv'
  OBVIOUS
<1> USE PoolAssumption
    DEF PoolTypes, PoolInv, OneInside, LiveAsStaged, OpenIsCurrent, DownIsOver, Goes, pool, Inside
<1>o. ASSUME NEW c \in Callers, at[c] \in Inside \cup {"claimed", "holds"} PROVE ~down
  BY <1>o DEF OwnersOnly
<1>1. ASSUME NEW t \in Tests, BeginTest(t) PROVE PoolInv'
  BY <1>1 DEF BeginTest
<1>2. ASSUME NEW t \in Tests, EndTest(t) PROVE PoolInv'
  BY <1>2 DEF EndTest, CallersOf
<1>3. ASSUME NEW c \in Callers, Claim(c) \/ ClaimRefused(c) PROVE PoolInv'
  BY <1>3 DEF Claim, ClaimRefused
<1>4. ASSUME NEW c \in Callers, Enter(c) \/ EnterRefused(c) PROVE PoolInv'
  BY <1>4 DEF Enter, EnterRefused
<1>5. ASSUME NEW c \in Callers, Reset(c) \/ Settle(c) PROVE PoolInv'
  BY <1>5 DEF Reset, Settle, ResetAnswers, HandOut
<1>6. ASSUME NEW c \in Callers, ResetFailed(c) PROVE PoolInv'
  BY <1>6 DEF ResetFailed, ResetFails, Marked
<1>7. ASSUME NEW c \in Callers, SettleFailed(c) PROVE PoolInv'
  BY <1>7 DEF SettleFailed, ResetFails, Marked, Leave
<1>8. ASSUME NEW c \in Callers, CloseBroken(c) PROVE PoolInv'
  BY <1>8 DEF CloseBroken, Marked
<1>9. ASSUME NEW c \in Callers, Start(c) PROVE PoolInv'
  <2>1. /\ DOMAIN procs' = DOMAIN procs \cup {Len(procs) + 1}
        /\ \A i \in DOMAIN procs : procs'[i] = procs[i]
    BY <1>9, AppendedType DEF Start
  <2>2. \A i \in DOMAIN procs : "closed" \in procs[i]
    BY <1>9 DEF Start
  <2>3. OpenIsCurrent'
    BY <1>9, <2>1, <2>2 DEF Start
  <2>4. ~down
    BY <1>9, <1>o DEF Start
  <2> QED BY <1>9, <2>3, <2>4 DEF Start
<1>10. ASSUME NEW c \in Callers, StartFailed(c) PROVE PoolInv'
  BY <1>10 DEF StartFailed, Leave
<1>11. ASSUME NEW c \in Callers, Drive(c) PROVE PoolInv'
  BY <1>11 DEF Drive, Marked
<1>12. ASSUME NEW c \in Callers, AskAgain(c) PROVE PoolInv'
  BY <1>12 DEF AskAgain
<1>13. CASE Shutdown
  <2>1. \A c \in Callers : at[c] \notin Inside
    BY <1>13 DEF Shutdown, OwnersOnly
  <2> QED BY <1>13, <2>1 DEF Shutdown, Marked
<1>14. CASE PoolDone \/ UNCHANGED poolVars
  BY <1>14 DEF PoolDone, poolVars
<1> QED BY <1>1, <1>2, <1>3, <1>4, <1>5, <1>6, <1>7, <1>8, <1>9, <1>10, <1>11, <1>12,
           <1>13, <1>14 DEF PoolNext

(* When the package is done, every process it ever started has been        *)
(* closed, the ones a failed reset replaced and the ones whose first reset *)
(* failed included.                                                        *)
THEOREM PoolLeavesNothing == PoolSpec => []NothingLeft
<1>1. PoolTypes /\ OwnersOnly /\ PoolInv => NothingLeft
  <2> SUFFICES ASSUME PoolTypes, OwnersOnly, PoolInv, down, NEW i \in DOMAIN procs
               PROVE  "closed" \in procs[i]
    BY DEF NothingLeft
  <2>1. \A c \in Callers : at[c] # "close"
    BY PoolAssumption DEF PoolInv, DownIsOver, OwnersOnly, Inside
  <2> QED BY <2>1 DEF PoolInv, DownIsOver, OpenIsCurrent
<1> QED BY <1>1, PoolStarts, PoolTypesKept, OwnersKept, PoolInvKept, PTL DEF PoolSpec

-----------------------------------------------------------------------------
(* The live process is one that was started and has not been closed.       *)
LiveIsOpen == live => harness \in DOMAIN procs /\ "closed" \notin procs[harness]

LEMMA MarkedStaysOpen ==
  ASSUME PoolTypes, LiveIsOpen, NEW i, NEW m, "closed" \notin m, Marked(i, m),
         live' => live, harness' = harness
  PROVE  LiveIsOpen'
<1> SUFFICES ASSUME live' PROVE harness \in DOMAIN procs' /\ "closed" \notin procs'[harness]
  BY DEF LiveIsOpen
<1>1. harness \in DOMAIN procs /\ "closed" \notin procs[harness]
  BY DEF LiveIsOpen
<1>2. DOMAIN procs' = DOMAIN procs
  BY DEF Marked
<1>3. procs'[harness] = IF i = harness THEN procs[harness] \cup m ELSE procs[harness]
  BY <1>1 DEF Marked
<1> QED BY <1>1, <1>2, <1>3

LEMMA LiveIsOpenKept == PoolTypes /\ PoolInv /\ LiveIsOpen /\ [PoolNext]_poolVars => LiveIsOpen'
<1> SUFFICES ASSUME PoolTypes, PoolInv, LiveIsOpen, [PoolNext]_poolVars PROVE LiveIsOpen'
  OBVIOUS
<1> USE DEF PoolTypes, LiveIsOpen, pool
<1>1. ASSUME NEW t \in Tests, BeginTest(t) \/ EndTest(t) PROVE LiveIsOpen'
  BY <1>1 DEF BeginTest, EndTest
<1>2. ASSUME NEW c \in Callers, Claim(c) \/ ClaimRefused(c) \/ Enter(c) \/ EnterRefused(c)
      PROVE LiveIsOpen'
  BY <1>2 DEF Claim, ClaimRefused, Enter, EnterRefused
<1>3. ASSUME NEW c \in Callers, Reset(c) \/ Settle(c) PROVE LiveIsOpen'
  BY <1>3 DEF Reset, Settle, ResetAnswers, HandOut
<1>4. ASSUME NEW c \in Callers, ResetFailed(c) \/ SettleFailed(c) PROVE LiveIsOpen'
  <2>1. Marked(harness, {"broken"}) /\ harness' = harness /\ (live' => live)
    BY <1>4 DEF ResetFailed, SettleFailed, ResetFails
  <2> QED BY <2>1, MarkedStaysOpen
<1>5. ASSUME NEW c \in Callers, CloseBroken(c) PROVE LiveIsOpen'
  BY <1>5 DEF CloseBroken, Marked, PoolInv, LiveAsStaged
<1>6. ASSUME NEW c \in Callers, Start(c) PROVE LiveIsOpen'
  <2>1. procs' = Append(procs, Fresh) /\ harness' = Len(procs) + 1
    BY <1>6 DEF Start
  <2>2. harness' \in DOMAIN procs' /\ procs'[harness'] = Fresh
    BY <2>1, AppendedType
  <2> QED BY <2>2 DEF Fresh
<1>7. ASSUME NEW c \in Callers, StartFailed(c) \/ AskAgain(c) PROVE LiveIsOpen'
  BY <1>7 DEF StartFailed, Leave, AskAgain
<1>8. ASSUME NEW c \in Callers, Drive(c) PROVE LiveIsOpen'
  BY <1>8 DEF Drive, Marked
<1>9. CASE Shutdown \/ PoolDone \/ UNCHANGED poolVars
  BY <1>9 DEF Shutdown, PoolDone, poolVars
<1> QED BY <1>1, <1>2, <1>3, <1>4, <1>5, <1>6, <1>7, <1>8, <1>9 DEF PoolNext

(* What a step that leaves get with the process hands out.                 *)
LEMMA HandedFresh ==
  ASSUME PoolTypes, PoolInv, LiveIsOpen, PoolNext, NEW c \in Callers,
         at[c] \in Inside, at'[c] = "holds"
  PROVE  procs'[has'[c]] = Fresh
<1> USE DEF PoolTypes, Inside, Goes, pool
<1>1. Reset(c) \/ Settle(c)
  <2>1. ASSUME NEW t \in Tests, BeginTest(t) \/ EndTest(t) PROVE FALSE
    BY <2>1 DEF BeginTest, EndTest
  <2>2. ASSUME NEW d \in Callers,
               Claim(d) \/ ClaimRefused(d) \/ Enter(d) \/ EnterRefused(d) \/ ResetFailed(d)
               \/ CloseBroken(d) \/ Start(d) \/ StartFailed(d) \/ SettleFailed(d) \/ Drive(d)
               \/ AskAgain(d)
        PROVE  FALSE
    BY <2>2 DEF Claim, ClaimRefused, Enter, EnterRefused, ResetFailed, CloseBroken, Start,
                StartFailed, SettleFailed, Leave, Drive, AskAgain
  <2>3. ASSUME NEW d \in Callers, Reset(d) \/ Settle(d) PROVE c = d
    BY <2>3 DEF Reset, Settle, HandOut
  <2>4. CASE Shutdown \/ PoolDone
    BY <2>4 DEF Shutdown, PoolDone, poolVars
  <2> QED BY <2>1, <2>2, <2>3, <2>4 DEF PoolNext
<1>2. live
  BY <1>1 DEF Reset, Settle, PoolInv, LiveAsStaged
<1>3. has'[c] = harness /\ ResetAnswers
  BY <1>1 DEF Reset, Settle, HandOut
<1>4. procs[harness] \in SUBSET Marks /\ "closed" \notin procs[harness]
  BY <1>2 DEF LiveIsOpen
<1>5. procs'[harness] = procs[harness] \ {"dirty"}
  BY <1>2, <1>3 DEF ResetAnswers, LiveIsOpen
<1>6. "broken" \notin procs[harness]
  BY <1>3 DEF ResetAnswers
<1> QED BY <1>3, <1>4, <1>5, <1>6 DEF Fresh, Marks

(* What a test is handed is in step, reset and open, whatever the tests    *)
(* before did to it.                                                       *)
THEOREM PoolHandsFresh == PoolSpec => FreshWhenHanded
<1>1. PoolInit => LiveIsOpen
  BY DEF PoolInit, LiveIsOpen
<1>2. PoolTypes /\ PoolInv /\ LiveIsOpen /\ [PoolNext]_poolVars =>
        [\A c \in Callers :
           (at[c] \in Inside /\ at'[c] = "holds") => procs'[has'[c]] = Fresh]_poolVars
  BY HandedFresh
<1> QED
  BY <1>1, <1>2, PoolStarts, PoolTypesKept, OwnersKept, PoolInvKept, LiveIsOpenKept, PTL
  DEF PoolSpec, FreshWhenHanded

-----------------------------------------------------------------------------
(* The harness *)

Kinds    == {"line", "block"}
Place    == Nat \X Nat \X Nat
Command  == [id : Nat \X Nat, kind : Kinds] \cup {Quit}
Says     == {"ok", "err", "body", "end"}
Replies  == [cmd : Place, says : Says]
Outcome  == [ok : BOOLEAN, lines : SUBSET Place]

CallerTypes ==
  /\ batch \in Seq(Kinds) /\ left \in 0..Len(batch)
  /\ body \in Seq(Says) /\ got \subseteq Place
  /\ results \in Seq(Outcome)
  /\ failing \in BOOLEAN /\ broken \in BOOLEAN

StreamTypes ==
  /\ stdin \in Seq(Command) /\ stdout \in Seq(Replies) /\ lines \in Seq(Replies)
  /\ reader \in {"running", "done"}

ProcessTypes ==
  /\ client \in {"running", "gone"}
  /\ container \in {"asked", "made", "running", "removing", "absent"}
  /\ closing \in {"no", "waiting", "killed", "removing", "closed"}
  /\ problems \in BOOLEAN

TypeOK == CallerTypes /\ StreamTypes /\ ProcessTypes

(* An error of the call in progress is an error of the harness, and so is  *)
(* every error returned; no call goes on once Close has been called.       *)
FailureLasts ==
  /\ failing => broken
  /\ ~broken => \A r \in DOMAIN results : results[r] # Failed
  /\ (batch # <<>> /\ ~failing) => (~broken /\ closing = "no")

-----------------------------------------------------------------------------
(* Where the call in progress stands: its number, the command whose reply  *)
(* the caller reads, the command the chip handles next, and the lines      *)
(* between the two.                                                        *)

Call    == Len(results) + 1
Current == Len(batch) - left + 1
NextUp  == Len(batch) - Len(stdin) + 1
Coming  == lines \o stdout

(* What is left of the batch in stdin.                                     *)
Unhandled ==
  /\ Len(stdin) <= Len(batch)
  /\ \A k \in DOMAIN stdin :
       stdin[k] = [id |-> <<Call, NextUp + k - 1>>, kind |-> batch[NextUp + k - 1]]

(* A line says what its command and its place in the reply allow.          *)
WellSaid(b, line) ==
  LET kind == b[line.cmd[2]]
      l    == line.cmd[3]
  IN  /\ line.says = "ok"   => kind = "line" /\ l = 1
      /\ line.says = "err"  => l = 1
      /\ line.says = "body" => kind = "block" /\ l \in 1..BlockLines
      /\ line.says = "end"  => kind = "block" /\ l = BlockLines + 1

Ours(n, b, next, line) ==
  line.cmd[1] = n /\ line.cmd[2] \in 1..(next - 1) /\ WellSaid(b, line)

(* The line after a line of a block is of the same reply; after any other  *)
(* line the next command's reply begins.                                   *)
After(line, following) ==
  IF line.says = "body"
  THEN following.cmd[2] = line.cmd[2] /\ following.cmd[3] = line.cmd[3] + 1
  ELSE following.cmd[2] = line.cmd[2] + 1 /\ following.cmd[3] = 1

InOrder(n, b, next, Q) ==
  /\ \A k \in DOMAIN Q : Ours(n, b, next, Q[k])
  /\ \A k \in 1..(Len(Q) - 1) : After(Q[k], Q[k + 1])

(* The first line on the way is the one the caller is about to read.       *)
StartsAt(cur, pos, Q) == Q # <<>> => Q[1].cmd[2] = cur /\ Q[1].cmd[3] = pos

(* Until the chip is gone, what it was asked before the next command has   *)
(* been read or is on the way as whole replies.                            *)
Intact == container \in {"asked", "made", "running"}

EndsBefore(cur, next, block, Q) ==
  IF Q = <<>> THEN next = cur /\ block = <<>>
  ELSE Q[Len(Q)].says # "body" /\ Q[Len(Q)].cmd[2] = next - 1

(* A block read so far that can still become an answer.                    *)
Clean(block) == \A k \in DOMAIN block : block[k] = "body"

Whole(n, b, c) == {<<n, c, l>> : l \in 1..Promise!LineCount(b[c])}
Part(n, c, len) == {<<n, c, l>> : l \in 1..len}

Caught(n, b, cur, len) ==
  (UNION {Whole(n, b, c) : c \in 1..(cur - 1)}) \cup Part(n, cur, len)

(* The call in progress reads its own replies in order, and has accepted   *)
(* exactly the lines up to where it stands.                                *)
OnTheWay ==
  /\ Current <= NextUp
  /\ InOrder(Call, batch, NextUp, Coming)
  /\ StartsAt(Current, Len(body) + 1, Coming)
  /\ Intact => EndsBefore(Current, NextUp, body, Coming)
  /\ got = Caught(Call, batch, Current, Len(body))

CallInStep ==
  (batch # <<>> /\ ~failing) =>
    /\ Unhandled
    /\ body # <<>> => left > 0 /\ Expected = "block"
    /\ Clean(body) => OnTheWay

Inv == FailureLasts /\ InStep /\ CallInStep
-----------------------------------------------------------------------------
(* Types *)

(* A reply is lines of the command, one at least.                          *)
LEMMA RepliesType ==
  ASSUME NEW cmd \in Nat \X Nat, NEW kind \in Kinds, NEW reply,
         reply = Granted(cmd, kind) \/ reply = Refused(cmd)
  PROVE  /\ reply \in Seq(Replies) /\ Len(reply) \in Nat \ {0}
         /\ reply[Len(reply)].says # "body"
         /\ \A k \in 1..Len(reply) :
              /\ reply[k].cmd = <<cmd[1], cmd[2], k>>
              /\ reply[k].says = "ok"   => kind = "line" /\ k = 1
              /\ reply[k].says = "err"  => k = 1
              /\ reply[k].says = "body" => kind = "block" /\ k \in 1..BlockLines
              /\ reply[k].says = "end"  => kind = "block" /\ k = BlockLines + 1
              /\ reply[k].says = "body" <=> k # Len(reply)
<1> USE ConstantsAssumption
<1>1. \A l \in Nat, says \in Says : Line(cmd, l, says) \in Replies
  BY DEF Line, Replies, Place
<1>2. ASSUME NEW says \in {"ok", "err"}, reply = <<Line(cmd, 1, says)>>, says = "ok" => kind = "line"
      PROVE  /\ reply \in Seq(Replies) /\ Len(reply) = 1
             /\ reply[1].cmd = <<cmd[1], cmd[2], 1>> /\ reply[1].says = says
  <2>1. Line(cmd, 1, says) \in Replies
    BY <1>1 DEF Says
  <2>2. reply \in Seq(Replies) /\ Len(reply) = 1 /\ reply[1] = Line(cmd, 1, says)
    BY <1>2, <2>1
  <2> QED BY <2>2 DEF Line
<1>3. CASE reply = Refused(cmd)
  BY <1>2, <1>3 DEF Refused
<1>4. CASE reply = Granted(cmd, kind) /\ kind = "line"
  BY <1>2, <1>4 DEF Granted
<1>5. CASE reply = Granted(cmd, kind) /\ kind = "block"
  <2> DEFINE text == [l \in 1..BlockLines |-> Line(cmd, l, "body")]
             close == <<Line(cmd, BlockLines + 1, "end")>>
  <2>1. text \in Seq(Replies) /\ Len(text) = BlockLines
    BY <1>1 DEF Says
  <2>2. close \in Seq(Replies) /\ Len(close) = 1 /\ close[1] = Line(cmd, BlockLines + 1, "end")
    BY <1>1 DEF Says
  <2>3. reply = text \o close
    BY <1>5 DEF Granted
  <2> HIDE DEF text, close
  <2>4. /\ text \o close \in Seq(Replies)
        /\ Len(text \o close) = Len(text) + Len(close)
        /\ \A k \in 1..(Len(text) + Len(close)) :
             (text \o close)[k] = IF k <= Len(text) THEN text[k] ELSE close[k - Len(text)]
    BY <2>1, <2>2, ConcatProperties
  <2>5. reply \in Seq(Replies) /\ Len(reply) = BlockLines + 1
    BY <2>1, <2>2, <2>3, <2>4
  <2>6. \A k \in 1..BlockLines : reply[k] = Line(cmd, k, "body")
    <3> SUFFICES ASSUME NEW k \in 1..BlockLines PROVE reply[k] = Line(cmd, k, "body")
      OBVIOUS
    <3>1. reply[k] = text[k]
      BY <2>1, <2>2, <2>3, <2>4
    <3> QED BY <3>1 DEF text
  <2>7. reply[BlockLines + 1] = Line(cmd, BlockLines + 1, "end")
    BY <2>1, <2>2, <2>3, <2>4
  <2>8. \A l \in Nat, says \in Says :
          Line(cmd, l, says).cmd = <<cmd[1], cmd[2], l>> /\ Line(cmd, l, says).says = says
    BY DEF Line
  <2> QED BY <1>5, <2>5, <2>6, <2>7, <2>8 DEF Says
<1> QED BY <1>3, <1>4, <1>5 DEF Kinds

(* What a batch becomes in the pipe.                                       *)
LEMMA AskedType ==
  ASSUME NEW b \in Seq(Kinds), NEW n \in Nat
  PROVE  LET asked == [i \in DOMAIN b |-> [id |-> <<n, i>>, kind |-> b[i]]]
         IN  /\ asked \in Seq(Command) /\ Len(asked) = Len(b)
             /\ \A i \in 1..Len(b) : asked[i] = [id |-> <<n, i>>, kind |-> b[i]]
<1>1. DOMAIN b = 1..Len(b) /\ Len(b) \in Nat /\ \A i \in DOMAIN b : b[i] \in Kinds
  OBVIOUS
<1> QED BY <1>1 DEF Command, Kinds

LEMMA BatchKinds ==
  ASSUME NEW b \in Batches PROVE b \in Seq(Kinds) /\ Len(b) \in Nat \ {0} /\ b # <<>>
BY ConstantsAssumption, EmptySeq DEF Kinds

LEMMA TypeInit == Init => TypeOK
<1> SUFFICES ASSUME Init PROVE TypeOK
  OBVIOUS
<1>1. CallerTypes
  <2>1. <<>> \in Seq(Kinds) /\ <<>> \in Seq(Says) /\ <<>> \in Seq(Outcome) /\ 0 \in 0..Len(<<>>)
    BY EmptySeq
  <2> QED BY <2>1 DEF Init, CallerTypes
<1>2. StreamTypes /\ ProcessTypes
  BY EmptySeq DEF Init, StreamTypes, ProcessTypes
<1> QED BY <1>1, <1>2 DEF TypeOK

LEMMA EnvironmentTypes == TypeOK /\ Environment => TypeOK'
<1> SUFFICES ASSUME TypeOK, Environment PROVE TypeOK'
  OBVIOUS
<1> USE DEF TypeOK, StreamTypes, ProcessTypes
<1>1. CallerTypes' = CallerTypes
  BY DEF Environment, Handle, HandleQuit, Crash, ClientExit, Daemon, Create, Run, NotRun, Removed, Pump, PumpEOF, caller, CallerTypes
<1>2. CASE Handle
  <2>1. Head(stdin) \in Command /\ Tail(stdin) \in Seq(Command)
    BY <1>2, HeadTailProperties DEF Handle
  <2>2. PICK reply : /\ stdout' = stdout \o reply
                     /\ \/ reply = Granted(Head(stdin).id, Head(stdin).kind)
                        \/ reply = Refused(Head(stdin).id)
    BY <1>2 DEF Handle
  <2>3. Head(stdin).id \in Nat \X Nat /\ Head(stdin).kind \in Kinds
    BY <1>2, <2>1 DEF Handle, Command
  <2>4. reply \in Seq(Replies)
    BY <2>2, <2>3, RepliesType
  <2>5. stdout' \in Seq(Replies)
    BY <2>2, <2>4, ConcatProperties
  <2> QED BY <1>1, <1>2, <2>1, <2>5 DEF Handle, process, closer
<1>3. CASE HandleQuit
  BY <1>1, <1>3 DEF HandleQuit, streams, closer
<1>4. CASE Crash
  <2>1. PICK n \in 0..Len(stdout) : stdout' = SubSeq(stdout, 1, n)
    BY <1>4 DEF Crash
  <2>2. stdout' \in Seq(Replies)
    BY <2>1, SubSeqProperties
  <2> QED BY <1>1, <1>4, <2>2 DEF Crash, closer
<1>5. CASE ClientExit \/ Daemon
  BY <1>1, <1>5 DEF ClientExit, Daemon, Create, Run, NotRun, Removed, streams, closer
<1>6. CASE Pump
  BY <1>1, <1>6 DEF Pump, process, closer
<1>7. CASE PumpEOF
  BY <1>1, <1>7 DEF PumpEOF, process, closer
<1> QED BY <1>2, <1>3, <1>4, <1>5, <1>6, <1>7 DEF Environment

LEMMA AskTypes ==
  ASSUME TypeOK, NEW b \in Batches, Ask(b) \/ AskRefused(b)
  PROVE  TypeOK'
<1> USE DEF TypeOK, CallerTypes, StreamTypes, ProcessTypes
<1>1. b \in Seq(Kinds) /\ Len(b) \in Nat
  BY BatchKinds
<1>2. Len(results) \in Nat /\ <<>> \in Seq(Says)
  BY EmptySeq
<1>3. CASE Ask(b)
  <2> DEFINE asked == [i \in DOMAIN b |-> [id |-> <<Len(results) + 1, i>>, kind |-> b[i]]]
  <2>1. asked \in Seq(Command)
    BY <1>1, <1>2, AskedType
  <2>2. stdin' = stdin \o asked
    BY <1>3 DEF Ask
  <2> HIDE DEF asked
  <2>3. stdin' \in Seq(Command)
    BY <2>1, <2>2, ConcatProperties
  <2>4. CallerTypes'
    BY <1>1, <1>2, <1>3 DEF Ask
  <2> QED BY <1>3, <2>3, <2>4 DEF Ask, process, closer
<1>4. CASE AskRefused(b)
  BY <1>1, <1>4 DEF AskRefused, Fail, streams, process, closer
<1> QED BY <1>3, <1>4

(* A line taken from the channel.                                          *)
LEMMA ReceivedTypes ==
  ASSUME TypeOK, Receive
  PROVE  /\ lines # <<>> /\ Head(lines) \in Replies /\ Head(lines) = lines[1]
         /\ StreamTypes' /\ ProcessTypes'
<1>1. lines \in Seq(Replies) /\ lines # <<>>
  BY DEF TypeOK, StreamTypes, Receive
<1>2. Head(lines) \in Replies /\ Head(lines) = lines[1] /\ Tail(lines) \in Seq(Replies)
  BY <1>1, HeadTailProperties
<1> QED BY <1>1, <1>2 DEF TypeOK, StreamTypes, ProcessTypes, Receive, process, closer

LEMMA ReadingTypes == TypeOK /\ Reading => TypeOK'
<1> SUFFICES ASSUME TypeOK, Reading PROVE TypeOK'
  OBVIOUS
<1> USE DEF CallerTypes
<1>1. CallerTypes /\ Len(batch) \in Nat /\ <<>> \in Seq(Says)
  BY EmptySeq DEF TypeOK
<1>2. ASSUME Receive
      PROVE  /\ StreamTypes' /\ ProcessTypes' /\ UNCHANGED <<batch, results>> /\ left > 0
             /\ Head(lines).cmd \in Place /\ Head(lines).says \in Says
  BY <1>2, ReceivedTypes DEF Receive, Replies
<1>3. CASE ReadOK
  BY <1>1, <1>2, <1>3 DEF ReadOK, Take, TypeOK
<1>4. CASE ReadOther
  BY <1>1, <1>2, <1>4 DEF ReadOther, Fail, TypeOK
<1>5. CASE ReadBody
  <2>1. Append(body, Head(lines).says) \in Seq(Says)
    BY <1>1, <1>2, <1>5, AppendProperties DEF ReadBody
  <2> QED BY <1>1, <1>2, <1>5, <2>1 DEF ReadBody, Take, Fail, TypeOK
<1>6. CASE ReadBlockEnd
  <2>1. left' \in {left - 1, left} /\ failing' \in BOOLEAN /\ broken' \in BOOLEAN
    BY <1>1, <1>6 DEF ReadBlockEnd, Fail
  <2> QED BY <1>1, <1>2, <1>6, <2>1 DEF ReadBlockEnd, Take, TypeOK
<1>7. CASE NoAnswer
  BY <1>1, <1>7 DEF NoAnswer, Fail, TypeOK, StreamTypes, ProcessTypes, streams, process, closer
<1>8. CASE Return
  <2>1. Failed \in Outcome /\ Answered(got) \in Outcome
    BY <1>1 DEF Failed, Answered, Outcome
  <2>2. results' \in Seq(Outcome)
    BY <1>1, <1>8, <2>1 DEF Return
  <2>3. <<>> \in Seq(Kinds) /\ 0 \in 0..Len(<<>>)
    BY EmptySeq
  <2> QED BY <1>1, <1>8, <2>2, <2>3 DEF Return, TypeOK, StreamTypes, ProcessTypes, streams, process, closer
<1> QED BY <1>3, <1>4, <1>5, <1>6, <1>7, <1>8 DEF Reading

LEMMA CloseTypes == TypeOK /\ (CloseQuit \/ Closing \/ Finished) => TypeOK'
<1> SUFFICES ASSUME TypeOK, CloseQuit \/ Closing \/ Finished PROVE TypeOK'
  OBVIOUS
<1> USE DEF TypeOK, StreamTypes, ProcessTypes
<1>1. CallerTypes'
  BY DEF CallerTypes, CloseQuit, Closing, Finished, Waited, WaitTimeout, RemoveContainer, RemoveFails, vars, caller
<1>2. CASE CloseQuit
  <2>1. Append(stdin, Quit) \in Seq(Command)
    BY AppendProperties DEF Command
  <2> QED BY <1>1, <1>2, <2>1 DEF CloseQuit, process
<1>3. CASE Waited
  BY <1>1, <1>3, EmptySeq DEF Waited, process
<1>4. CASE WaitTimeout \/ RemoveContainer \/ RemoveFails
  BY <1>1, <1>4 DEF WaitTimeout, RemoveContainer, RemoveFails, streams, process
<1>5. CASE Finished
  BY <1>1, <1>5 DEF Finished, vars, streams, process, closer
<1> QED BY <1>2, <1>3, <1>4, <1>5 DEF Closing

LEMMA TypeKept == TypeOK /\ [Next]_vars => TypeOK'
<1> SUFFICES ASSUME TypeOK, [Next]_vars PROVE TypeOK'
  OBVIOUS
<1>1. CASE Environment
  BY <1>1, EnvironmentTypes
<1>2. ASSUME NEW b \in Batches, Ask(b) \/ AskRefused(b) PROVE TypeOK'
  BY <1>2, AskTypes
<1>3. CASE Reading
  BY <1>3, ReadingTypes
<1>4. CASE CloseQuit \/ Closing \/ Finished
  BY <1>4, CloseTypes
<1>5. CASE UNCHANGED vars
  BY <1>5 DEF vars, caller, streams, process, closer, TypeOK, CallerTypes, StreamTypes, ProcessTypes
<1> QED BY <1>1, <1>2, <1>3, <1>4, <1>5 DEF Next

(* Whatever the chip, the client and the daemon do, the state is well      *)
(* typed.                                                                  *)
THEOREM HarnessTypes == Spec => []TypeOK
BY TypeInit, TypeKept, PTL DEF Spec

-----------------------------------------------------------------------------
(* Failures *)

LEMMA FailureInit == Init => FailureLasts
BY DEF Init, FailureLasts

LEMMA FailureKept == TypeOK /\ FailureLasts /\ [Next]_vars => FailureLasts'
<1> SUFFICES ASSUME TypeOK, FailureLasts, [Next]_vars PROVE FailureLasts'
  OBVIOUS
<1> USE DEF FailureLasts
<1>1. CASE Environment
  BY <1>1 DEF Environment, Handle, HandleQuit, Crash, ClientExit, Daemon, Create, Run, NotRun, Removed, Pump, PumpEOF, caller, closer
<1>2. ASSUME NEW b \in Batches, Ask(b) \/ AskRefused(b) PROVE FailureLasts'
  BY <1>2 DEF Ask, AskRefused, Idle, Begin, Writable, Fail, streams, process, closer
<1>3. CASE ReadOK \/ ReadOther \/ ReadBody \/ ReadBlockEnd \/ NoAnswer
  BY <1>3 DEF ReadOK, ReadOther, ReadBody, ReadBlockEnd, NoAnswer, Receive, Fail, process, closer
<1>4. CASE Return
  <2> SUFFICES ASSUME ~broken', NEW r \in DOMAIN results' PROVE results'[r] # Failed
    BY <1>4 DEF Return
  <2>1. ~failing /\ results' = Append(results, Answered(got))
    BY <1>4 DEF Return
  <2>2. Answered(got) # Failed
    BY DEF Answered, Failed
  <2>3. results \in Seq(Outcome) /\ Answered(got) \in Outcome
    BY DEF TypeOK, CallerTypes, Answered, Outcome
  <2>4. r \in DOMAIN results \/ results'[r] = Answered(got)
    BY <2>1, <2>3, AppendProperties
  <2>5. r \in DOMAIN results => results'[r] = results[r]
    BY <2>1, <2>3, AppendProperties
  <2> QED BY <1>4, <2>2, <2>4, <2>5 DEF Return
<1>5. CASE CloseQuit \/ Closing \/ Finished
  BY <1>5 DEF CloseQuit, Closing, Waited, WaitTimeout, RemoveContainer, RemoveFails, Finished, vars, caller
<1>6. CASE UNCHANGED vars
  BY <1>6 DEF vars, caller, closer
<1> QED BY <1>1, <1>2, <1>3, <1>4, <1>5, <1>6 DEF Next, Reading

-----------------------------------------------------------------------------
(* A container that has not run has not spoken: nothing is on its way back *)
(* and no call has been answered.                                          *)

NotYetRun == container \in {"asked", "made"}

Silent ==
  NotYetRun =>
    /\ stdout = <<>> /\ lines = <<>>
    /\ (batch # <<>> /\ ~failing) => left = Len(batch)
    /\ \A r \in DOMAIN results : results[r] = Failed

SilentClean == Silent /\ CleanMeansGone

LEMMA SilentInit == Init => SilentClean
BY EmptySeq DEF Init, SilentClean, Silent, CleanMeansGone

(* What a call returns, at the end of the list.                            *)
LEMMA ReturnAppends ==
  ASSUME TypeOK, FailureLasts, Return
  PROVE  \E r \in Outcome :
           /\ results' = Append(results, r) /\ (failing => r = Failed)
           /\ results' # <<>> /\ DOMAIN results' = DOMAIN results \cup {Len(results) + 1}
           /\ \A i \in DOMAIN results : results'[i] = results[i]
           /\ results'[Len(results) + 1] = r
           /\ results = <<>> => results'[1] = r
           /\ results # <<>> => results'[1] = results[1]
<1> DEFINE r == IF failing THEN Failed ELSE Answered(got)
<1>1. r \in Outcome /\ results \in Seq(Outcome) /\ results' = Append(results, r)
  BY DEF TypeOK, CallerTypes, Return, Failed, Answered, Outcome
<1> HIDE DEF r
<1>2. /\ Len(results) \in Nat /\ DOMAIN results = 1..Len(results)
      /\ Len(results') = Len(results) + 1 /\ results' \in Seq(Outcome)
      /\ \A i \in 1..Len(results) : results'[i] = results[i]
      /\ results'[Len(results) + 1] = r
  BY <1>1, AppendProperties
<1>3. DOMAIN results' = DOMAIN results \cup {Len(results) + 1} /\ results' # <<>>
  BY <1>2, EmptySeq
<1>4. results = <<>> => results'[1] = r
  BY <1>2, EmptySeq
<1>5. results # <<>> => results'[1] = results[1]
  BY <1>1, <1>2, EmptySeq
<1>6. failing => r = Failed
  BY DEF r
<1> QED BY <1>1, <1>2, <1>3, <1>4, <1>5, <1>6

LEMMA SilentKept == TypeOK /\ FailureLasts /\ Silent /\ [Next]_vars => Silent'
<1> SUFFICES ASSUME TypeOK, FailureLasts, Silent, [Next]_vars, NotYetRun'
             PROVE  /\ stdout' = <<>> /\ lines' = <<>>
                    /\ (batch' # <<>> /\ ~failing') => left' = Len(batch')
                    /\ \A r \in DOMAIN results' : results'[r] = Failed
  BY DEF Silent
<1> USE DEF Silent, NotYetRun
<1>1. CASE Environment
  BY <1>1 DEF Environment, Handle, HandleQuit, Crash, ClientExit, Daemon, Create, Run, NotRun, Removed,
              Pump, PumpEOF, caller, streams, process, closer
<1>2. ASSUME NEW b \in Batches, Ask(b) \/ AskRefused(b) PROVE Silent'
  BY <1>2 DEF Ask, AskRefused, Fail, streams, process
<1>3. CASE ReadOK \/ ReadOther \/ ReadBody \/ ReadBlockEnd \/ NoAnswer
  BY <1>3 DEF ReadOK, ReadOther, ReadBody, ReadBlockEnd, NoAnswer, Receive, Fail, streams, process
<1>4. CASE Return
  <2>1. UNCHANGED <<stdout, lines>> /\ batch' = <<>> /\ NotYetRun
    BY <1>4 DEF Return, streams, process
  <2>2. failing
    <3>1. batch # <<>> /\ Len(batch) # 0
      BY <1>4, EmptySeq DEF Return, TypeOK, CallerTypes
    <3> QED BY <1>4, <2>1, <3>1 DEF Return
  <2> QED BY <1>4, <2>1, <2>2, ReturnAppends
<1>5. CASE CloseQuit \/ Closing \/ Finished
  BY <1>5 DEF CloseQuit, Closing, Waited, WaitTimeout, RemoveContainer, RemoveFails, Finished, vars,
              caller, streams, process
<1>6. CASE UNCHANGED vars
  BY <1>6 DEF vars, caller, streams, process
<1> QED BY <1>1, <1>2, <1>3, <1>4, <1>5, <1>6 DEF Next, Reading

LEMMA CleanKept ==
  TypeOK /\ FailureLasts /\ SilentClean /\ [Next]_vars => CleanMeansGone'
<1> SUFFICES ASSUME TypeOK, FailureLasts, SilentClean, [Next]_vars PROVE CleanMeansGone'
  OBVIOUS
<1> USE DEF SilentClean, CleanMeansGone, HandedOut
<1>1. CASE Environment
  BY <1>1 DEF Environment, Handle, HandleQuit, Crash, ClientExit, Daemon, Create, Run, NotRun, Removed,
              Pump, PumpEOF, caller, process, closer
<1>2. ASSUME NEW b \in Batches, Ask(b) \/ AskRefused(b) PROVE CleanMeansGone'
  BY <1>2 DEF Ask, AskRefused, process, closer
<1>3. CASE ReadOK \/ ReadOther \/ ReadBody \/ ReadBlockEnd \/ NoAnswer
  BY <1>3 DEF ReadOK, ReadOther, ReadBody, ReadBlockEnd, NoAnswer, Receive, process, closer
<1>4. CASE Return
  <2> SUFFICES ASSUME closing = "closed", ~problems, HandedOut' PROVE container = "absent"
    BY <1>4 DEF Return, process, closer
  <2>1. failing
    BY <1>4 DEF Return, FailureLasts
  <2>2. HandedOut
    BY <1>4, <2>1, ReturnAppends
  <2> QED BY <2>2
<1>5. CASE RemoveContainer
  <2>1. HandedOut => ~NotYetRun
    <3>1. results # <<>> => 1 \in DOMAIN results
      BY EmptySeq DEF TypeOK, CallerTypes
    <3> QED BY <3>1 DEF Silent
  <2> QED BY <1>5, <2>1 DEF RemoveContainer, NotYetRun, caller
<1>6. CASE CloseQuit \/ Waited \/ WaitTimeout \/ RemoveFails
  BY <1>6 DEF CloseQuit, Waited, WaitTimeout, RemoveFails
<1>7. CASE Finished \/ UNCHANGED vars
  BY <1>7 DEF Finished, vars, caller, process, closer
<1> QED BY <1>1, <1>2, <1>3, <1>4, <1>5, <1>6, <1>7 DEF Next, Reading, Closing

(* However slow the daemon was to create the container, and whatever it    *)
(* was busy with at the end, a clean Close of a harness that Start handed  *)
(* out leaves no container (Close and docker rm in harness.go).            *)
THEOREM CleanCloseLeavesNothing == Spec => []CleanMeansGone
<1>1. Init => TypeOK /\ FailureLasts /\ SilentClean
  BY TypeInit, FailureInit, SilentInit
<1>2. TypeOK /\ FailureLasts /\ SilentClean /\ [Next]_vars
        => (TypeOK /\ FailureLasts /\ SilentClean)'
  BY TypeKept, FailureKept, SilentKept, CleanKept DEF SilentClean
<1>3. SilentClean => CleanMeansGone
  BY DEF SilentClean
<1> QED BY <1>1, <1>2, <1>3, PTL DEF Spec

-----------------------------------------------------------------------------
(* The lines on the way, as a sequence: how each step changes it, and that *)
(* its order is kept.                                                      *)

LEMMA ComingType == TypeOK => Coming \in Seq(Replies)
BY ConcatProperties DEF TypeOK, StreamTypes, Coming

(* The goroutine only carries lines from one end to the other.             *)
LEMMA PumpKeeps == TypeOK /\ Pump => Coming' = Coming
<1> SUFFICES ASSUME TypeOK, Pump PROVE Coming' = Coming
  OBVIOUS
<1>1. lines \in Seq(Replies) /\ stdout \in Seq(Replies) /\ stdout # <<>>
  BY DEF TypeOK, StreamTypes, Pump
<1>2. /\ Head(stdout) \in Replies /\ Tail(stdout) \in Seq(Replies)
      /\ stdout = <<Head(stdout)>> \o Tail(stdout)
  BY <1>1, HeadTailProperties
<1>3. Append(lines, Head(stdout)) = lines \o <<Head(stdout)>> /\ <<Head(stdout)>> \in Seq(Replies)
  BY <1>1, <1>2, AppendIsConcat
<1>4. (lines \o <<Head(stdout)>>) \o Tail(stdout) = lines \o (<<Head(stdout)>> \o Tail(stdout))
  BY <1>1, <1>2, <1>3, ConcatAssociative
<1> QED BY <1>2, <1>3, <1>4 DEF Coming, Pump

(* A read takes the first line there is.                                   *)
LEMMA ReceiveTakes ==
  ASSUME TypeOK, Receive
  PROVE  Coming # <<>> /\ Coming[1] = Head(lines) /\ Coming' = Tail(Coming)
<1>1. lines \in Seq(Replies) /\ stdout \in Seq(Replies) /\ lines # <<>>
  BY DEF TypeOK, StreamTypes, Receive
<1>2. /\ Head(lines) = lines[1] /\ Tail(lines) \in Seq(Replies)
      /\ Len(lines) \in Nat \ {0} /\ Len(Tail(lines)) = Len(lines) - 1
      /\ \A i \in 1..Len(Tail(lines)) : Tail(lines)[i] = lines[i + 1]
  BY <1>1, HeadTailProperties, EmptySeq
<1>3. /\ Coming \in Seq(Replies) /\ Len(Coming) = Len(lines) + Len(stdout)
      /\ \A i \in 1..(Len(lines) + Len(stdout)) :
           Coming[i] = IF i <= Len(lines) THEN lines[i] ELSE stdout[i - Len(lines)]
  BY <1>1, ConcatProperties DEF Coming
<1>4. Len(stdout) \in Nat
  BY <1>1
<1>5. Coming # <<>> /\ Coming[1] = Head(lines)
  BY <1>2, <1>3, <1>4
<1>6. /\ Tail(Coming) \in Seq(Replies) /\ Len(Tail(Coming)) = Len(Coming) - 1
      /\ \A i \in 1..Len(Tail(Coming)) : Tail(Coming)[i] = Coming[i + 1]
  BY <1>3, <1>5, HeadTailProperties
<1>7. Coming' = Tail(lines) \o stdout
  BY DEF Coming, Receive
<1>8. /\ Coming' \in Seq(Replies) /\ Len(Coming') = Len(Tail(lines)) + Len(stdout)
      /\ \A i \in 1..(Len(Tail(lines)) + Len(stdout)) :
           Coming'[i] = IF i <= Len(Tail(lines)) THEN Tail(lines)[i]
                        ELSE stdout[i - Len(Tail(lines))]
  BY <1>1, <1>2, <1>7, ConcatProperties
<1>9. Len(Coming') = Len(Tail(Coming))
  BY <1>2, <1>3, <1>4, <1>6, <1>8
<1>10. ASSUME NEW i \in 1..Len(Coming') PROVE Coming'[i] = Tail(Coming)[i]
  <2>1. Tail(Coming)[i] = Coming[i + 1]
    BY <1>6, <1>9, <1>10
  <2>2. i \in 1..(Len(lines) - 1 + Len(stdout)) /\ i + 1 \in 1..(Len(lines) + Len(stdout))
    BY <1>2, <1>4, <1>8, <1>10
  <2>3. Coming[i + 1] = IF i + 1 <= Len(lines) THEN lines[i + 1] ELSE stdout[i + 1 - Len(lines)]
    BY <1>3, <2>2
  <2>4. CASE i <= Len(lines) - 1
    <3>1. Coming'[i] = Tail(lines)[i] /\ Tail(lines)[i] = lines[i + 1]
      BY <1>2, <1>4, <1>8, <2>2, <2>4
    <3>2. i + 1 <= Len(lines)
      BY <1>2, <2>2, <2>4
    <3> QED BY <2>1, <2>3, <3>1, <3>2
  <2>5. CASE ~(i <= Len(lines) - 1)
    <3>1. Coming'[i] = stdout[i - (Len(lines) - 1)]
      BY <1>2, <1>4, <1>8, <2>2, <2>5
    <3>2. i - (Len(lines) - 1) = i + 1 - Len(lines) /\ ~(i + 1 <= Len(lines))
      BY <1>2, <2>2, <2>5
    <3> QED BY <2>1, <2>3, <3>1, <3>2
  <2> QED BY <2>4, <2>5
<1>11. Coming' = Tail(Coming)
  BY <1>6, <1>8, <1>9, <1>10, SeqEqual
<1> QED BY <1>5, <1>11

(* A chip that dies leaves what had come out of it up to some point.       *)
LEMMA CrashCuts ==
  ASSUME TypeOK, Crash
  PROVE  \E n \in 0..Len(Coming) :
           Len(Coming') = n /\ \A i \in 1..n : Coming'[i] = Coming[i]
<1>1. lines \in Seq(Replies) /\ stdout \in Seq(Replies) /\ Len(lines) \in Nat /\ Len(stdout) \in Nat
  BY DEF TypeOK, StreamTypes
<1>2. PICK m \in 0..Len(stdout) : stdout' = SubSeq(stdout, 1, m)
  BY DEF Crash
<1>3. /\ stdout' \in Seq(Replies) /\ Len(stdout') = m
      /\ \A i \in 1..m : stdout'[i] = stdout[i]
  BY <1>1, <1>2, SubSeqProperties
<1>4. lines' = lines
  BY DEF Crash
<1>5. /\ Len(Coming) = Len(lines) + Len(stdout)
      /\ \A i \in 1..(Len(lines) + Len(stdout)) :
           Coming[i] = IF i <= Len(lines) THEN lines[i] ELSE stdout[i - Len(lines)]
  BY <1>1, ConcatProperties DEF Coming
<1>6. /\ Len(Coming') = Len(lines) + m
      /\ \A i \in 1..(Len(lines) + m) :
           Coming'[i] = IF i <= Len(lines) THEN lines[i] ELSE stdout'[i - Len(lines)]
  <2>1. Coming' = lines \o stdout'
    BY <1>4 DEF Coming
  <2>2. /\ Len(lines \o stdout') = Len(lines) + Len(stdout')
        /\ \A i \in 1..(Len(lines) + Len(stdout')) :
             (lines \o stdout')[i] = IF i <= Len(lines) THEN lines[i] ELSE stdout'[i - Len(lines)]
    BY <1>1, <1>3, ConcatProperties
  <2> QED BY <1>3, <2>1, <2>2
<1>7. Len(lines) + m \in 0..Len(Coming)
  BY <1>1, <1>5
<1>8. \A i \in 1..(Len(lines) + m) : Coming'[i] = Coming[i]
  BY <1>1, <1>3, <1>5, <1>6
<1> QED BY <1>6, <1>7, <1>8

(* The chip's reply goes to the end.                                       *)
LEMMA HandleAppends ==
  ASSUME TypeOK, Handle
  PROVE  /\ stdin # <<>> /\ Head(stdin) = stdin[1] /\ stdin' = Tail(stdin)
         /\ \E reply : /\ \/ reply = Granted(stdin[1].id, stdin[1].kind)
                          \/ reply = Refused(stdin[1].id)
                       /\ Coming' = Coming \o reply
         /\ stdin[1] \in Command \ {Quit}
<1>1. /\ lines \in Seq(Replies) /\ stdout \in Seq(Replies)
      /\ stdin \in Seq(Command) /\ stdin # <<>> /\ Head(stdin) # Quit
  BY DEF TypeOK, StreamTypes, Handle
<1>2. Head(stdin) = stdin[1] /\ Head(stdin) \in Command
  BY <1>1, HeadTailProperties
<1>3. stdin[1].id \in Nat \X Nat /\ stdin[1].kind \in Kinds
  BY <1>1, <1>2 DEF Command
<1>4. PICK reply : /\ stdout' = stdout \o reply
                   /\ \/ reply = Granted(stdin[1].id, stdin[1].kind)
                      \/ reply = Refused(stdin[1].id)
  BY <1>2 DEF Handle
<1>5. reply \in Seq(Replies)
  BY <1>3, <1>4, RepliesType
<1>6. (lines \o stdout) \o reply = lines \o (stdout \o reply)
  BY <1>1, <1>5, ConcatAssociative
<1>7. Coming' = Coming \o reply
  BY <1>4, <1>6 DEF Coming, Handle
<1> QED BY <1>1, <1>2, <1>4, <1>7 DEF Handle

LEMMA OrderAppended ==
  ASSUME NEW n \in Nat, NEW b \in Seq(Kinds), NEW next \in 1..Len(b), NEW Q \in Seq(Replies),
         NEW cur \in 1..next, NEW block \in Seq(Says), NEW reply,
         reply = Granted(<<n, next>>, b[next]) \/ reply = Refused(<<n, next>>),
         InOrder(n, b, next, Q), StartsAt(cur, Len(block) + 1, Q), EndsBefore(cur, next, block, Q)
  PROVE  /\ InOrder(n, b, next + 1, Q \o reply)
         /\ StartsAt(cur, Len(block) + 1, Q \o reply)
         /\ EndsBefore(cur, next + 1, block, Q \o reply)
<1> DEFINE R == Q \o reply
<1>1. /\ Len(b) \in Nat /\ b[next] \in Kinds /\ <<n, next>> \in Nat \X Nat
      /\ <<n, next>>[1] = n /\ <<n, next>>[2] = next /\ Len(Q) \in Nat
  OBVIOUS
<1>2. /\ reply \in Seq(Replies) /\ Len(reply) \in Nat \ {0}
      /\ reply[Len(reply)].says # "body"
      /\ \A k \in 1..Len(reply) :
           /\ reply[k].cmd = <<n, next, k>>
           /\ reply[k].says = "ok"   => b[next] = "line" /\ k = 1
           /\ reply[k].says = "err"  => k = 1
           /\ reply[k].says = "body" => b[next] = "block" /\ k \in 1..BlockLines
           /\ reply[k].says = "end"  => b[next] = "block" /\ k = BlockLines + 1
           /\ reply[k].says = "body" <=> k # Len(reply)
  BY <1>1, RepliesType
<1>3. /\ R \in Seq(Replies) /\ Len(R) = Len(Q) + Len(reply)
      /\ \A k \in 1..(Len(Q) + Len(reply)) :
           R[k] = IF k <= Len(Q) THEN Q[k] ELSE reply[k - Len(Q)]
  BY <1>2, ConcatProperties
<1> HIDE DEF R
<1>4. /\ \A k \in 1..Len(Q) : R[k] = Q[k]
      /\ \A k \in 1..Len(reply) : R[Len(Q) + k] = reply[k]
  <2>1. ASSUME NEW k \in 1..Len(Q) PROVE R[k] = Q[k]
    BY <1>1, <1>2, <1>3
  <2>2. ASSUME NEW k \in 1..Len(reply) PROVE R[Len(Q) + k] = reply[k]
    <3>1. Len(Q) + k \in 1..(Len(Q) + Len(reply)) /\ ~(Len(Q) + k <= Len(Q)) /\ Len(Q) + k - Len(Q) = k
      BY <1>1, <1>2
    <3> QED BY <1>3, <3>1
  <2> QED BY <2>1, <2>2
<1>5. \A k \in 1..Len(reply) : /\ reply[k].cmd[1] = n /\ reply[k].cmd[2] = next
                               /\ reply[k].cmd[3] = k /\ WellSaid(b, reply[k])
  BY <1>2 DEF WellSaid
<1>6. \A k \in DOMAIN R : k \in 1..Len(Q) \/ \E j \in 1..Len(reply) : k = Len(Q) + j
  <2> SUFFICES ASSUME NEW k \in 1..(Len(Q) + Len(reply)), ~(k \in 1..Len(Q))
               PROVE  \E j \in 1..Len(reply) : k = Len(Q) + j
    BY <1>3
  <2>1. k - Len(Q) \in 1..Len(reply) /\ k = Len(Q) + (k - Len(Q))
    BY <1>1, <1>2
  <2> QED BY <2>1
<1>7. \A k \in DOMAIN R : Ours(n, b, next + 1, R[k])
  <2> SUFFICES ASSUME NEW k \in DOMAIN R PROVE Ours(n, b, next + 1, R[k])
    OBVIOUS
  <2>1. CASE k \in 1..Len(Q)
    <3>1. Ours(n, b, next, Q[k]) /\ R[k] = Q[k]
      BY <1>4, <2>1 DEF InOrder
    <3> QED BY <1>1, <3>1 DEF Ours
  <2>2. ASSUME NEW j \in 1..Len(reply), k = Len(Q) + j PROVE Ours(n, b, next + 1, R[k])
    BY <1>1, <1>4, <1>5, <2>2 DEF Ours
  <2> QED BY <1>6, <2>1, <2>2
<1>8. ASSUME Q # <<>>
      PROVE  Len(Q) \in 1..Len(Q) /\ Q[Len(Q)].says # "body" /\ Q[Len(Q)].cmd[2] = next - 1
  BY <1>1, <1>8, EmptySeq DEF EndsBefore
<1>9. \A k \in 1..(Len(R) - 1) : After(R[k], R[k + 1])
  <2> SUFFICES ASSUME NEW k \in 1..(Len(R) - 1) PROVE After(R[k], R[k + 1])
    OBVIOUS
  <2>1. CASE k \in 1..(Len(Q) - 1)
    <3>1. k \in 1..Len(Q) /\ k + 1 \in 1..Len(Q) /\ After(Q[k], Q[k + 1])
      BY <1>1, <2>1 DEF InOrder
    <3> QED BY <1>4, <3>1
  <2>2. CASE k = Len(Q)
    <3>1. Q # <<>> /\ k \in 1..Len(Q)
      BY <1>1, <2>2
    <3>2. R[k] = Q[k] /\ R[k + 1] = reply[1] /\ 1 \in 1..Len(reply)
      <4>1. 1 \in 1..Len(reply) /\ k + 1 = Len(Q) + 1
        BY <1>2, <2>2
      <4> QED BY <1>4, <3>1, <4>1
    <3>3. reply[1].cmd[2] = next /\ reply[1].cmd[3] = 1
      BY <1>5, <3>2
    <3> QED BY <1>8, <2>2, <3>1, <3>2, <3>3 DEF After
  <2>3. CASE k > Len(Q)
    <3>1. PICK j \in 1..Len(reply) : k = Len(Q) + j
      <4>1. k \in DOMAIN R /\ ~(k \in 1..Len(Q))
        BY <1>1, <1>2, <1>3, <2>3
      <4> QED BY <1>6, <4>1
    <3>2. j + 1 \in 1..Len(reply) /\ k + 1 = Len(Q) + (j + 1) /\ j # Len(reply)
      BY <1>1, <1>2, <1>3, <3>1
    <3>3. R[k] = reply[j] /\ R[k + 1] = reply[j + 1]
      BY <1>4, <3>1, <3>2
    <3>4. reply[j].says = "body"
      BY <1>2, <3>2
    <3> QED BY <1>5, <3>2, <3>3, <3>4 DEF After
  <2> QED BY <1>1, <1>2, <1>3, <2>1, <2>2, <2>3
<1>10. StartsAt(cur, Len(block) + 1, R)
  <2>1. CASE Q = <<>>
    <3>1. Len(Q) = 0 /\ next = cur /\ Len(block) = 0
      BY <2>1, EmptySeq DEF EndsBefore
    <3>2. R[1] = reply[1] /\ 1 \in 1..Len(reply)
      BY <1>2, <1>4, <3>1
    <3> QED BY <1>5, <3>1, <3>2 DEF StartsAt
  <2>2. CASE Q # <<>>
    BY <1>4, <1>8, <1>1, <2>2 DEF StartsAt
  <2> QED BY <2>1, <2>2
<1>11. EndsBefore(cur, next + 1, block, R)
  <2>1. Len(R) = Len(Q) + Len(reply) /\ Len(reply) \in 1..Len(reply) /\ R # <<>>
    BY <1>1, <1>2, <1>3
  <2>2. R[Len(R)] = reply[Len(reply)] /\ reply[Len(reply)].cmd[2] = next
    BY <1>4, <1>5, <2>1
  <2> QED BY <1>2, <2>1, <2>2 DEF EndsBefore
<1> QED BY <1>7, <1>9, <1>10, <1>11 DEF InOrder, R

(* The first line taken, the rest is still in order and begins where the   *)
(* line taken says.                                                        *)
LEMMA OrderTaken ==
  ASSUME NEW n, NEW b, NEW next, NEW Q \in Seq(Replies), Q # <<>>, InOrder(n, b, next, Q)
  PROVE  /\ Ours(n, b, next, Q[1])
         /\ InOrder(n, b, next, Tail(Q))
         /\ Tail(Q) # <<>> => After(Q[1], Tail(Q)[1])
         /\ Tail(Q) = <<>> => Len(Q) = 1
         /\ Tail(Q) # <<>> => Tail(Q)[Len(Tail(Q))] = Q[Len(Q)]
<1> DEFINE T == Tail(Q)
<1>1. /\ T \in Seq(Replies) /\ Len(T) = Len(Q) - 1 /\ Len(Q) \in Nat \ {0}
      /\ \A i \in 1..Len(T) : T[i] = Q[i + 1]
  BY HeadTailProperties, EmptySeq
<1> HIDE DEF T
<1>2. Ours(n, b, next, Q[1])
  BY <1>1 DEF InOrder
<1>3. \A k \in DOMAIN T : Ours(n, b, next, T[k])
  BY <1>1 DEF InOrder
<1>4. \A k \in 1..(Len(T) - 1) : After(T[k], T[k + 1])
  <2> SUFFICES ASSUME NEW k \in 1..(Len(T) - 1) PROVE After(T[k], T[k + 1])
    OBVIOUS
  <2>1. T[k] = Q[k + 1] /\ T[k + 1] = Q[k + 1 + 1] /\ k + 1 \in 1..(Len(Q) - 1)
    BY <1>1
  <2> QED BY <2>1 DEF InOrder
<1>5. T # <<>> => 1 \in 1..(Len(Q) - 1) /\ T[1] = Q[2] /\ T[Len(T)] = Q[Len(Q)]
  BY <1>1, EmptySeq
<1>6. T # <<>> => After(Q[1], T[1])
  BY <1>5 DEF InOrder
<1>7. T = <<>> => Len(Q) = 1
  BY <1>1, EmptySeq
<1> QED BY <1>2, <1>3, <1>4, <1>5, <1>6, <1>7 DEF InOrder, T

LEMMA OrderCut ==
  ASSUME NEW n, NEW b, NEW next, NEW cur, NEW pos, NEW Q \in Seq(Replies), NEW R \in Seq(Replies),
         NEW m \in 0..Len(Q), Len(R) = m, \A i \in 1..m : R[i] = Q[i],
         InOrder(n, b, next, Q), StartsAt(cur, pos, Q)
  PROVE  InOrder(n, b, next, R) /\ StartsAt(cur, pos, R)
<1>1. Len(Q) \in Nat /\ m \in Nat /\ DOMAIN R = 1..m /\ (R # <<>> => 1 \in 1..m /\ Q # <<>>)
  BY EmptySeq
<1>2. \A k \in DOMAIN R : Ours(n, b, next, R[k])
  BY <1>1 DEF InOrder
<1>3. \A k \in 1..(m - 1) : After(R[k], R[k + 1])
  <2> SUFFICES ASSUME NEW k \in 1..(m - 1) PROVE After(R[k], R[k + 1])
    OBVIOUS
  <2>1. R[k] = Q[k] /\ R[k + 1] = Q[k + 1] /\ k \in 1..(Len(Q) - 1)
    BY <1>1
  <2> QED BY <2>1 DEF InOrder
<1>4. StartsAt(cur, pos, R)
  BY <1>1 DEF StartsAt
<1> QED BY <1>2, <1>3, <1>4 DEF InOrder

-----------------------------------------------------------------------------
(* The lines accepted *)

LEMMA PartGrows ==
  ASSUME NEW n, NEW b, NEW cur, NEW len \in Nat
  PROVE  Caught(n, b, cur, len + 1) = Caught(n, b, cur, len) \cup {<<n, cur, len + 1>>}
<1>1. Part(n, cur, len + 1) = Part(n, cur, len) \cup {<<n, cur, len + 1>>}
  <2>1. 1..(len + 1) = 1..len \cup {len + 1}
    OBVIOUS
  <2> QED BY <2>1, Zenon DEF Part
<1> QED BY <1>1, Zenon DEF Caught

(* A whole reply read is the same as the next one not begun.               *)
LEMMA PartIsWhole ==
  ASSUME NEW n, NEW b, NEW cur \in Nat \ {0}, Promise!LineCount(b[cur]) \in Nat
  PROVE  Caught(n, b, cur, Promise!LineCount(b[cur])) = Caught(n, b, cur + 1, 0)
<1>1. 1..(cur + 1 - 1) = 1..(cur - 1) \cup {cur} /\ 1..0 = {}
  OBVIOUS
<1>2. Part(n, cur + 1, 0) = {} /\ Part(n, cur, Promise!LineCount(b[cur])) = Whole(n, b, cur)
  BY <1>1, Zenon DEF Part, Whole
<1>3. UNION {Whole(n, b, c) : c \in 1..(cur - 1) \cup {cur}}
        = (UNION {Whole(n, b, c) : c \in 1..(cur - 1)}) \cup Whole(n, b, cur)
  OBVIOUS
<1>4. Caught(n, b, cur + 1, 0) = UNION {Whole(n, b, c) : c \in 1..(cur - 1) \cup {cur}}
  BY <1>1, <1>2 DEF Caught
<1> QED BY <1>2, <1>3, <1>4 DEF Caught

LEMMA NothingCaught == \A n, b : Caught(n, b, 1, 0) = {}
<1>1. 1..(1 - 1) = {} /\ 1..0 = {}
  OBVIOUS
<1> QED BY <1>1, Zenon DEF Caught, Part

-----------------------------------------------------------------------------
(* The call in progress stays in step *)

Going == batch # <<>> /\ ~failing

LEMMA GoingMeans ==
  ASSUME TypeOK, FailureLasts, Going
  PROVE  ~broken /\ closing = "no" /\ Len(batch) \in Nat \ {0} /\ Current \in Nat \ {0}
         /\ Call \in Nat \ {0}
BY EmptySeq DEF TypeOK, CallerTypes, FailureLasts, Going, Current, Call

(* Nothing the invariant speaks of has changed, the chip's death apart.    *)
LEMMA CallUntouched ==
  ASSUME CallInStep, UNCHANGED <<caller, stdin>>, Coming' = Coming,
         Intact' => Intact
  PROVE  CallInStep'
<1>1. /\ UNCHANGED <<batch, left, body, got, results, failing>>
      /\ Call' = Call /\ Current' = Current /\ NextUp' = NextUp /\ Expected' = Expected
  BY DEF caller, Call, Current, NextUp, Expected
<1>2. Unhandled' = Unhandled
  BY <1>1 DEF Unhandled
<1>3. OnTheWay => OnTheWay'
  BY <1>1 DEF OnTheWay
<1> QED BY <1>1, <1>2, <1>3 DEF CallInStep

LEMMA CrashInStep ==
  ASSUME TypeOK, CallInStep, Crash PROVE CallInStep'
<1>1. /\ UNCHANGED <<batch, left, body, got, results, failing, stdin>>
      /\ Call' = Call /\ Current' = Current /\ NextUp' = NextUp /\ Expected' = Expected
      /\ ~Intact'
  BY DEF Crash, Intact, caller, Call, Current, NextUp, Expected
<1>2. Unhandled' = Unhandled
  BY <1>1 DEF Unhandled
<1>3. TypeOK'
  BY EnvironmentTypes DEF Environment
<1>4. Coming \in Seq(Replies) /\ Coming' \in Seq(Replies)
  <2>1. Coming' \in Seq(Replies)
    BY <1>3, ConcatProperties DEF TypeOK, StreamTypes, Coming
  <2> QED BY <2>1, ComingType
<1>5. PICK m \in 0..Len(Coming) : Len(Coming') = m /\ \A i \in 1..m : Coming'[i] = Coming[i]
  BY CrashCuts
<1>6. ASSUME OnTheWay PROVE OnTheWay'
  <2>1. /\ InOrder(Call, batch, NextUp, Coming')
        /\ StartsAt(Current, Len(body) + 1, Coming')
    BY <1>4, <1>5, <1>6, OrderCut DEF OnTheWay
  <2> QED BY <1>1, <1>6, <2>1 DEF OnTheWay
<1> QED BY <1>1, <1>2, <1>6 DEF CallInStep

LEMMA HandleInStep ==
  ASSUME TypeOK, FailureLasts, CallInStep, Handle PROVE CallInStep'
<1>1. /\ UNCHANGED <<batch, left, body, got, results, failing, container>>
      /\ Call' = Call /\ Current' = Current /\ Expected' = Expected /\ Intact /\ Intact'
  BY DEF Handle, Intact, caller, process, Call, Current, Expected
<1> SUFFICES ASSUME Going
             PROVE  Unhandled' /\ (Clean(body) => OnTheWay')
  BY <1>1 DEF CallInStep, Going
<1>2. Unhandled /\ (Clean(body) => OnTheWay)
  BY DEF CallInStep, Going
<1>3. /\ batch \in Seq(Kinds) /\ Len(batch) \in Nat /\ Call \in Nat /\ Current \in Nat \ {0}
      /\ body \in Seq(Says)
  BY GoingMeans DEF TypeOK, CallerTypes
<1>4. /\ stdin \in Seq(Command) /\ stdin # <<>> /\ stdin' = Tail(stdin)
      /\ \E reply : /\ \/ reply = Granted(stdin[1].id, stdin[1].kind)
                       \/ reply = Refused(stdin[1].id)
                    /\ Coming' = Coming \o reply
  BY HandleAppends DEF TypeOK, StreamTypes
<1>5. /\ Len(stdin) \in Nat \ {0} /\ stdin' \in Seq(Command) /\ Len(stdin') = Len(stdin) - 1
      /\ \A i \in 1..Len(stdin') : stdin'[i] = stdin[i + 1]
  BY <1>4, HeadTailProperties, EmptySeq
<1>6. NextUp \in 1..Len(batch) /\ NextUp' = NextUp + 1
  BY <1>1, <1>2, <1>3, <1>5 DEF NextUp, Unhandled
<1>7. stdin[1].id = <<Call, NextUp>> /\ stdin[1].kind = batch[NextUp]
  <2>1. 1 \in DOMAIN stdin /\ NextUp + 1 - 1 = NextUp
    BY <1>4, <1>5, <1>6
  <2>2. stdin[1] = [id |-> <<Call, NextUp + 1 - 1>>, kind |-> batch[NextUp + 1 - 1]]
    BY <1>2, <2>1 DEF Unhandled
  <2> QED BY <2>1, <2>2
<1>8. Unhandled'
  <2>1. Len(stdin') <= Len(batch)
    BY <1>2, <1>3, <1>5 DEF Unhandled
  <2>2. ASSUME NEW k \in DOMAIN stdin'
        PROVE  stdin'[k] = [id |-> <<Call, NextUp + 1 + k - 1>>, kind |-> batch[NextUp + 1 + k - 1]]
    <3>1. k + 1 \in DOMAIN stdin /\ stdin'[k] = stdin[k + 1] /\ NextUp + 1 + k - 1 = NextUp + (k + 1) - 1
      BY <1>4, <1>5, <1>6
    <3> QED BY <1>2, <3>1 DEF Unhandled
  <2> QED BY <1>1, <1>6, <2>1, <2>2 DEF Unhandled
<1>9. ASSUME OnTheWay PROVE OnTheWay'
  <2>1. PICK reply : /\ reply = Granted(<<Call, NextUp>>, batch[NextUp]) \/ reply = Refused(<<Call, NextUp>>)
                     /\ Coming' = Coming \o reply
    BY <1>4, <1>7
  <2>2. /\ Coming \in Seq(Replies) /\ Current \in 1..NextUp
        /\ InOrder(Call, batch, NextUp, Coming)
        /\ StartsAt(Current, Len(body) + 1, Coming)
        /\ EndsBefore(Current, NextUp, body, Coming)
    BY <1>1, <1>3, <1>6, <1>9, ComingType DEF OnTheWay
  <2>3. /\ InOrder(Call, batch, NextUp + 1, Coming')
        /\ StartsAt(Current, Len(body) + 1, Coming')
        /\ EndsBefore(Current, NextUp + 1, body, Coming')
    BY <1>3, <1>6, <2>1, <2>2, OrderAppended
  <2>4. Current <= NextUp + 1
    BY <1>3, <1>6, <2>2
  <2> QED BY <1>1, <1>6, <1>9, <2>3, <2>4 DEF OnTheWay
<1> QED BY <1>2, <1>8, <1>9

LEMMA AskInStep ==
  ASSUME TypeOK, InStep, NEW b \in Batches, Ask(b) PROVE CallInStep'
<1>1. /\ batch' = b /\ left' = Len(b) /\ body' = <<>> /\ got' = {} /\ UNCHANGED <<results, stdout, lines>>
      /\ batch = <<>> /\ ~broken /\ closing = "no"
  BY DEF Ask, Idle, Begin, Writable
<1>2. stdin = <<>> /\ stdout = <<>> /\ lines = <<>>
  BY <1>1 DEF InStep
<1>3. b \in Seq(Kinds) /\ Len(b) \in Nat \ {0}
  BY BatchKinds
<1> DEFINE asked == [i \in DOMAIN b |-> [id |-> <<Len(results) + 1, i>>, kind |-> b[i]]]
<1>4. /\ asked \in Seq(Command) /\ Len(asked) = Len(b)
      /\ \A i \in 1..Len(b) : asked[i] = [id |-> <<Len(results) + 1, i>>, kind |-> b[i]]
  <2>1. Len(results) + 1 \in Nat
    BY DEF TypeOK, CallerTypes
  <2> QED BY <1>3, <2>1, AskedType
<1>5. stdin' = stdin \o asked
  BY DEF Ask
<1> HIDE DEF asked
<1>6. stdin' = asked
  BY <1>2, <1>4, <1>5, ConcatEmptySeq
<1>7. Call' = Len(results) + 1 /\ Current' = 1 /\ NextUp' = 1
  BY <1>1, <1>3, <1>4, <1>6 DEF Call, Current, NextUp
<1>8. Unhandled'
  <2>1. \A k \in 1..Len(b) : 1 + k - 1 = k
    OBVIOUS
  <2>2. DOMAIN stdin' = 1..Len(b)
    BY <1>4, <1>6
  <2> QED BY <1>1, <1>3, <1>4, <1>6, <1>7, <2>1, <2>2 DEF Unhandled
<1>9. Coming' = <<>>
  <2>1. Coming' = <<>> \o <<>>
    BY <1>1, <1>2 DEF Coming
  <2> QED BY <2>1, ConcatEmptySeq, EmptySeq
<1>10. OnTheWay'
  <2>1. Len(<<>>) = 0 /\ Len(body') = 0
    BY <1>1, EmptySeq
  <2>2. InOrder(Call', b, 1, <<>>)
    BY <2>1 DEF InOrder
  <2>3. StartsAt(1, 1, <<>>) /\ EndsBefore(1, 1, <<>>, <<>>)
    BY DEF StartsAt, EndsBefore
  <2>4. got' = Caught(Call', b, 1, 0)
    BY <1>1, NothingCaught
  <2> QED BY <1>1, <1>7, <1>9, <2>1, <2>2, <2>3, <2>4 DEF OnTheWay
<1> QED BY <1>1, <1>8, <1>10 DEF CallInStep

(* What a read of the call in progress finds, when the block it is in, if  *)
(* any, is clean: the next line of the reply it waits for.                 *)
LEMMA ReadFinds ==
  ASSUME TypeOK, FailureLasts, CallInStep, Receive, Clean(body)
  PROVE  /\ Going /\ OnTheWay /\ Unhandled
         /\ batch \in Seq(Kinds) /\ Len(batch) \in Nat \ {0} /\ Call \in Nat
         /\ Current \in 1..Len(batch) /\ NextUp \in Nat /\ Len(body) \in Nat
         /\ Head(lines).cmd = <<Call, Current, Len(body) + 1>>
         /\ got \cup {Head(lines).cmd} = Caught(Call, batch, Current, Len(body) + 1)
         /\ Current + 1 <= NextUp
         /\ WellSaid(batch, Head(lines)) /\ Expected = batch[Current]
         /\ InOrder(Call, batch, NextUp, Coming')
         /\ Coming' # <<>> => After(Head(lines), Coming'[1])
         /\ Intact /\ Coming' = <<>> =>
              Head(lines).says # "body" /\ NextUp = Current + 1
         /\ Intact /\ Coming' # <<>> =>
              Coming'[Len(Coming')].says # "body" /\ Coming'[Len(Coming')].cmd[2] = NextUp - 1
<1>1. Going /\ left > 0
  BY DEF Receive, Going
<1>2. OnTheWay /\ Unhandled
  BY <1>1 DEF CallInStep, Going
<1>3. /\ batch \in Seq(Kinds) /\ Len(batch) \in Nat \ {0} /\ Call \in Nat /\ left \in 1..Len(batch)
      /\ body \in Seq(Says) /\ stdin \in Seq(Command)
  BY <1>1, GoingMeans DEF TypeOK, CallerTypes, StreamTypes
<1>4. Current \in 1..Len(batch) /\ NextUp \in Nat /\ Len(body) \in Nat
  BY <1>2, <1>3 DEF Current, NextUp, Unhandled
<1>5. /\ Coming \in Seq(Replies) /\ Coming # <<>> /\ Coming[1] = Head(lines) /\ Coming' = Tail(Coming)
      /\ Head(lines) \in Replies
  BY ComingType, ReceiveTakes, ReceivedTypes
<1>6. /\ InOrder(Call, batch, NextUp, Coming) /\ StartsAt(Current, Len(body) + 1, Coming)
      /\ Intact => EndsBefore(Current, NextUp, body, Coming)
  BY <1>2 DEF OnTheWay
<1>7. /\ Ours(Call, batch, NextUp, Coming[1])
      /\ InOrder(Call, batch, NextUp, Coming')
      /\ Coming' # <<>> => After(Coming[1], Coming'[1])
      /\ Coming' = <<>> => Len(Coming) = 1
      /\ Coming' # <<>> => Coming'[Len(Coming')] = Coming[Len(Coming)]
  BY <1>5, <1>6, OrderTaken
<1>8. Head(lines).cmd = <<Call, Current, Len(body) + 1>>
  <2>1. Head(lines).cmd \in Place
    BY <1>5 DEF Replies
  <2>2. /\ Head(lines).cmd[1] = Call /\ Head(lines).cmd[2] = Current
        /\ Head(lines).cmd[3] = Len(body) + 1
    BY <1>5, <1>6, <1>7 DEF Ours, StartsAt
  <2> QED BY <2>1, <2>2 DEF Place
<1>9. Current \in 1..(NextUp - 1) /\ WellSaid(batch, Head(lines))
  BY <1>5, <1>7, <1>8 DEF Ours
<1>10. Current + 1 <= NextUp
  BY <1>4, <1>9
<1>11. Expected = batch[Current]
  BY DEF Expected, Current
<1>12. Intact =>
         Coming[Len(Coming)].says # "body" /\ Coming[Len(Coming)].cmd[2] = NextUp - 1
  BY <1>5, <1>6 DEF EndsBefore
<1>13. Intact /\ Coming' = <<>> =>
              Head(lines).says # "body" /\ NextUp = Current + 1
  BY <1>4, <1>5, <1>7, <1>8, <1>12
<1>14. got \cup {Head(lines).cmd} = Caught(Call, batch, Current, Len(body) + 1)
  <2>1. Caught(Call, batch, Current, Len(body) + 1)
          = Caught(Call, batch, Current, Len(body)) \cup {<<Call, Current, Len(body) + 1>>}
    <3>1. Len(body) \in Nat
      BY <1>4
    <3> QED BY <3>1, PartGrows
  <2> QED BY <1>2, <1>8, <2>1 DEF OnTheWay
<1> QED BY <1>1, <1>2, <1>3, <1>4, <1>5, <1>7, <1>8, <1>9, <1>10, <1>11, <1>12, <1>13, <1>14

(* A reply read whole: what is left is in order for the next command.      *)
LEMMA ReplyRead ==
  ASSUME TypeOK, FailureLasts, CallInStep, Receive, Clean(body),
         Head(lines).says # "body", left' = left - 1, body' = <<>>, UNCHANGED <<failing, broken>>,
         got' = got \cup {Head(lines).cmd}, Promise!LineCount(batch[Current]) = Len(body) + 1
  PROVE  CallInStep'
<1>1. /\ UNCHANGED <<batch, results, stdin>> /\ Intact' = Intact
      /\ Call' = Call /\ NextUp' = NextUp
  BY DEF Receive, Intact, process, Call, NextUp
<1>2. /\ OnTheWay /\ Unhandled
      /\ batch \in Seq(Kinds) /\ Len(batch) \in Nat \ {0}
      /\ Current \in 1..Len(batch) /\ NextUp \in Nat /\ Len(body) \in Nat
      /\ Head(lines).cmd = <<Call, Current, Len(body) + 1>>
      /\ Current + 1 <= NextUp
      /\ InOrder(Call, batch, NextUp, Coming')
      /\ Coming' # <<>> => After(Head(lines), Coming'[1])
      /\ Intact /\ Coming' = <<>> => NextUp = Current + 1
      /\ Intact /\ Coming' # <<>> =>
              Coming'[Len(Coming')].says # "body" /\ Coming'[Len(Coming')].cmd[2] = NextUp - 1
  BY ReadFinds
<1>3. Current' = Current + 1 /\ Len(body') = 0
  BY <1>1, <1>2, EmptySeq DEF Current, TypeOK, CallerTypes
<1>4. Unhandled'
  BY <1>1, <1>2 DEF Unhandled
<1>5. StartsAt(Current + 1, 0 + 1, Coming')
  BY <1>2 DEF StartsAt, After
<1>6. Intact => EndsBefore(Current + 1, NextUp, <<>>, Coming')
  BY <1>2 DEF EndsBefore
<1>7. got' = Caught(Call, batch, Current + 1, 0)
  <2>1. got' = Caught(Call, batch, Current, Len(body) + 1)
    BY ReadFinds
  <2>2. Caught(Call, batch, Current, Promise!LineCount(batch[Current])) = Caught(Call, batch, Current + 1, 0)
    <3>1. Current \in Nat \ {0} /\ Promise!LineCount(batch[Current]) \in Nat
      BY <1>2
    <3> QED BY <3>1, PartIsWhole, Zenon
  <2> QED BY <2>1, <2>2
<1>8. OnTheWay'
  BY <1>1, <1>2, <1>3, <1>5, <1>6, <1>7 DEF OnTheWay
<1> QED BY <1>4, <1>8 DEF CallInStep

LEMMA ReadOKInStep ==
  ASSUME TypeOK, FailureLasts, CallInStep, ReadOK PROVE CallInStep'
<1>1. Receive /\ Going /\ Expected = "line" /\ Head(lines).says = "ok"
  BY DEF ReadOK, Receive, Going
<1>2. body = <<>> /\ Clean(body)
  BY <1>1, EmptySeq DEF CallInStep, Going, Clean
<1>3. Expected = batch[Current]
  BY DEF Expected, Current
<1>4. Promise!LineCount(batch[Current]) = Len(body) + 1
  BY <1>1, <1>2, <1>3, EmptySeq DEF Promise!LineCount
<1>5. left' = left - 1 /\ body' = <<>> /\ UNCHANGED <<failing, broken>> /\ got' = got \cup {Head(lines).cmd}
  BY <1>2 DEF ReadOK, Take
<1> QED BY <1>1, <1>2, <1>4, <1>5, ReplyRead

LEMMA ReadBlockEndInStep ==
  ASSUME TypeOK, FailureLasts, CallInStep, ReadBlockEnd PROVE CallInStep'
<1>1. CASE ~Parses(body)
  BY <1>1 DEF ReadBlockEnd, Fail, CallInStep
<1>2. CASE Parses(body)
  <2>1. Receive /\ Expected = "block" /\ Head(lines).says = "end"
    BY DEF ReadBlockEnd
  <2>2. Clean(body) /\ Len(body) = BlockLines
    BY <1>2, ConstantsAssumption DEF Parses, Clean
  <2>3. Expected = batch[Current]
    BY DEF Expected, Current
  <2>4. Promise!LineCount(batch[Current]) = Len(body) + 1
    BY <2>1, <2>2, <2>3 DEF Promise!LineCount
  <2>5. left' = left - 1 /\ body' = <<>> /\ UNCHANGED <<failing, broken>> /\ got' = got \cup {Head(lines).cmd}
    BY <1>2 DEF ReadBlockEnd, Take
  <2> QED BY <2>1, <2>2, <2>4, <2>5, ReplyRead
<1> QED BY <1>1, <1>2

LEMMA ReadBodyInStep ==
  ASSUME TypeOK, FailureLasts, CallInStep, ReadBody PROVE CallInStep'
<1>1. /\ Receive /\ Going /\ Expected = "block" /\ Head(lines).says # "end"
      /\ body' = Append(body, Head(lines).says) /\ left' = left /\ left > 0
      /\ got' = got \cup {Head(lines).cmd}
  BY DEF ReadBody, Receive, Going, Take
<1>2. /\ UNCHANGED <<batch, results, stdin>> /\ Intact' = Intact
      /\ Call' = Call /\ NextUp' = NextUp /\ Current' = Current /\ Expected' = Expected
  BY <1>1 DEF Receive, Intact, process, Call, NextUp, Current, Expected
<1>3. Unhandled'
  BY <1>1, <1>2 DEF CallInStep, Going, Unhandled
<1>4. body \in Seq(Says) /\ Head(lines).says \in Says
  BY <1>1, ReceivedTypes DEF TypeOK, CallerTypes, Replies
<1>5. /\ Len(body') = Len(body) + 1 /\ Len(body) \in Nat /\ DOMAIN body' = 1..(Len(body) + 1)
      /\ \A k \in 1..Len(body) : body'[k] = body[k]
      /\ body'[Len(body) + 1] = Head(lines).says
  BY <1>1, <1>4, AppendProperties
<1>6. ASSUME Clean(body') PROVE OnTheWay'
  <2>1. Clean(body) /\ Head(lines).says = "body"
    BY <1>4, <1>5, <1>6 DEF Clean
  <2>2. /\ OnTheWay
        /\ Head(lines).cmd = <<Call, Current, Len(body) + 1>>
        /\ InOrder(Call, batch, NextUp, Coming')
        /\ Coming' # <<>> => After(Head(lines), Coming'[1])
        /\ Intact => Coming' # <<>>
        /\ Intact =>
             Coming'[Len(Coming')].says # "body" /\ Coming'[Len(Coming')].cmd[2] = NextUp - 1
    BY <1>1, <2>1, ReadFinds
  <2>3. StartsAt(Current, Len(body) + 1 + 1, Coming')
    BY <2>1, <2>2 DEF StartsAt, After
  <2>4. Intact => EndsBefore(Current, NextUp, body', Coming')
    BY <2>2 DEF EndsBefore
  <2>5. got' = Caught(Call, batch, Current, Len(body) + 1)
    BY <1>1, <2>1, ReadFinds
  <2> QED BY <1>2, <1>5, <2>2, <2>3, <2>4, <2>5 DEF OnTheWay
<1> QED BY <1>1, <1>2, <1>3, <1>6 DEF CallInStep

(* A call read to its end has accepted all its lines and left nothing.     *)
LEMMA AnsweredWhole ==
  ASSUME TypeOK, FailureLasts, CallInStep, Going, left = 0
  PROVE  /\ stdin = <<>> /\ stdout = <<>> /\ lines = <<>>
         /\ got = Promise!LinesTo(Call, batch)
<1>1. body = <<>> /\ Clean(body)
  BY EmptySeq DEF CallInStep, Going, Clean
<1>2. OnTheWay /\ Unhandled
  BY <1>1 DEF CallInStep, Going
<1>3. /\ Len(batch) \in Nat \ {0} /\ Current = Len(batch) + 1
      /\ stdin \in Seq(Command) /\ lines \in Seq(Replies) /\ stdout \in Seq(Replies)
  BY GoingMeans DEF Current, TypeOK, StreamTypes
<1>4. Len(stdin) = 0 /\ NextUp = Current
  BY <1>2, <1>3 DEF OnTheWay, NextUp, Unhandled
<1>5. Coming = <<>>
  <2> SUFFICES ASSUME Coming # <<>> PROVE FALSE
    OBVIOUS
  <2>1. 1 \in DOMAIN Coming
    BY ComingType, EmptySeq
  <2>2. Coming[1].cmd[2] \in 1..(NextUp - 1) /\ Coming[1].cmd[2] = Current
    BY <1>2, <2>1 DEF OnTheWay, InOrder, Ours, StartsAt
  <2> QED BY <1>3, <1>4, <2>2
<1>6. lines = <<>> /\ stdout = <<>>
  BY <1>3, <1>5, ConcatEqualIffEmpty DEF Coming
<1>7. got = Promise!LinesTo(Call, batch)
  <2>1. got = Caught(Call, batch, Len(batch) + 1, 0)
    BY <1>1, <1>2, <1>3, EmptySeq DEF OnTheWay
  <2>2. Part(Call, Len(batch) + 1, 0) = {}
    BY DEF Part
  <2>3. 1..(Len(batch) + 1 - 1) = DOMAIN batch
    BY <1>3 DEF TypeOK, CallerTypes
  <2>4. Caught(Call, batch, Len(batch) + 1, 0) = UNION {Whole(Call, batch, c) : c \in DOMAIN batch}
    BY <2>2, <2>3 DEF Caught
  <2> QED BY <2>1, <2>4, Zenon DEF Promise!LinesTo, Whole
<1> QED BY <1>3, <1>4, <1>6, <1>7, EmptySeq

LEMMA QuietKept == TypeOK /\ Inv /\ [Next]_vars => InStep'
<1> SUFFICES ASSUME TypeOK, Inv, [Next]_vars PROVE InStep'
  OBVIOUS
<1> USE DEF Inv, InStep
<1>1. CASE Handle \/ HandleQuit \/ ClientExit \/ Daemon \/ Pump \/ PumpEOF
  BY <1>1 DEF Handle, HandleQuit, ClientExit, Daemon, Create, Run, NotRun, Removed, Pump, PumpEOF, caller, streams, closer
<1>2. CASE Crash
  <2> SUFFICES ASSUME batch = <<>>, ~broken, closing = "no" PROVE stdout' = <<>>
    BY <1>2 DEF Crash, caller, closer
  <2>1. PICK n \in 0..Len(stdout) : stdout' = SubSeq(stdout, 1, n)
    BY <1>2 DEF Crash
  <2>2. n < 1
    BY <2>1, EmptySeq
  <2> QED BY <2>1, <2>2, SubSeqEmpty
<1>3. ASSUME NEW b \in Batches, Ask(b) \/ AskRefused(b) PROVE InStep'
  BY <1>3, BatchKinds DEF Ask, AskRefused, Fail
<1>4. CASE ReadOK \/ ReadOther \/ ReadBody \/ ReadBlockEnd \/ NoAnswer
  BY <1>4 DEF ReadOK, ReadOther, ReadBody, ReadBlockEnd, NoAnswer, Receive
<1>5. CASE Return
  <2> SUFFICES ASSUME ~broken PROVE stdin' = <<>> /\ stdout' = <<>> /\ lines' = <<>>
    BY <1>5 DEF Return
  <2>1. Going /\ left = 0
    BY <1>5 DEF Return, Going, FailureLasts
  <2> QED BY <1>5, <2>1, AnsweredWhole DEF Return, streams
<1>6. CASE CloseQuit \/ Closing \/ Finished
  BY <1>6 DEF CloseQuit, Closing, Waited, WaitTimeout, RemoveContainer, RemoveFails, Finished, vars,
              caller, streams, closer
<1>7. CASE UNCHANGED vars
  BY <1>7 DEF vars, caller, streams, closer
<1> QED BY <1>1, <1>2, <1>3, <1>4, <1>5, <1>6, <1>7 DEF Next, Environment, Reading

LEMMA CallKept == TypeOK /\ Inv /\ [Next]_vars => CallInStep'
<1> SUFFICES ASSUME TypeOK, FailureLasts, InStep, CallInStep, [Next]_vars PROVE CallInStep'
  BY DEF Inv
<1>1. CASE Handle
  BY <1>1, HandleInStep
<1>2. CASE Crash
  BY <1>2, CrashInStep
<1>3. CASE Pump
  BY <1>3, PumpKeeps, CallUntouched DEF Pump, Intact, caller, process
<1>4. CASE HandleQuit \/ ClientExit \/ Daemon \/ PumpEOF
  <2>1. UNCHANGED <<caller, stdin>> /\ Coming' = Coming /\ (Intact' => Intact)
    BY <1>4 DEF HandleQuit, ClientExit, Daemon, Create, Run, NotRun, Removed, PumpEOF, Intact, streams, process, Coming
  <2> QED BY <2>1, CallUntouched
<1>5. ASSUME NEW b \in Batches, Ask(b) \/ AskRefused(b) PROVE CallInStep'
  <2>1. CASE Ask(b)
    BY <2>1, AskInStep
  <2>2. CASE AskRefused(b)
    BY <2>2 DEF AskRefused, Fail, CallInStep
  <2> QED BY <1>5, <2>1, <2>2
<1>6. CASE ReadOK
  BY <1>6, ReadOKInStep
<1>7. CASE ReadBody
  BY <1>7, ReadBodyInStep
<1>8. CASE ReadBlockEnd
  BY <1>8, ReadBlockEndInStep
<1>9. CASE ReadOther \/ NoAnswer
  BY <1>9 DEF ReadOther, NoAnswer, Fail, CallInStep
<1>10. CASE Return \/ CloseQuit
  BY <1>10 DEF Return, CloseQuit, CallInStep, caller
<1>11. CASE Closing \/ Finished
  <2>1. ~Going
    BY <1>11, GoingMeans DEF Closing, Waited, WaitTimeout, RemoveContainer, RemoveFails, Finished
  <2>2. UNCHANGED caller
    BY <1>11 DEF Closing, Waited, WaitTimeout, RemoveContainer, RemoveFails, Finished, vars
  <2> QED BY <2>1, <2>2 DEF Going, CallInStep, caller
<1>12. CASE UNCHANGED vars
  <2>1. UNCHANGED <<caller, stdin>> /\ Coming' = Coming /\ (Intact' => Intact)
    BY <1>12 DEF Intact, vars, streams, process, Coming
  <2> QED BY <2>1, CallUntouched
<1> QED BY <1>1, <1>2, <1>3, <1>4, <1>5, <1>6, <1>7, <1>8, <1>9, <1>10, <1>11, <1>12
        DEF Next, Environment, Reading

LEMMA InvHolds == Spec => [](TypeOK /\ Inv)
<1>1. Init => Inv
  BY FailureInit DEF Init, Inv, InStep, CallInStep
<1>2. TypeOK /\ Inv /\ [Next]_vars => Inv'
  BY FailureKept, QuietKept, CallKept DEF Inv
<1> QED BY <1>1, <1>2, TypeInit, TypeKept, PTL DEF Spec

-----------------------------------------------------------------------------
(* A harness that may be used again has no line of an earlier call left    *)
(* anywhere on the way, whatever the chip answered and whenever it died    *)
(* (begin, fail and the exchanges of harness.go and run.go).               *)
THEOREM HarnessInStep == Spec => []InStep
BY InvHolds, PTL DEF Inv

(* Every step the client can take is a step of the service it promises or  *)
(* changes nothing the caller sees.                                        *)
LEMMA StepImplements ==
  TypeOK /\ Inv /\ [Next]_vars =>
    [Promise!Next]_<<batch, results, closing # "no">>
<1> SUFFICES ASSUME TypeOK, FailureLasts, CallInStep, [Next]_vars
             PROVE  Promise!Next \/ UNCHANGED <<batch, results, closing # "no">>
  BY DEF Inv
<1> USE DEF Promise!Next
<1>1. CASE Environment
  BY <1>1 DEF Environment, Handle, HandleQuit, Crash, ClientExit, Daemon, Create, Run, NotRun, Removed, Pump, PumpEOF, caller, closer
<1>2. ASSUME NEW b \in Batches, Ask(b) \/ AskRefused(b)
      PROVE  Promise!Next
  <2>1. Promise!Ask(b)
    BY <1>2 DEF Ask, AskRefused, Idle, closer, Promise!Ask
  <2> QED BY <2>1
<1>3. CASE ReadOK \/ ReadOther \/ ReadBody \/ ReadBlockEnd \/ NoAnswer
  BY <1>3 DEF ReadOK, ReadOther, ReadBody, ReadBlockEnd, NoAnswer, Receive, closer
<1>4. CASE Return
  <2>1. batch # <<>> /\ batch' = <<>> /\ UNCHANGED closing
    BY <1>4 DEF Return, closer
  <2>2. CASE failing
    <3>1. results' = Append(results, Promise!Failed)
      BY <1>4, <2>2 DEF Return, Failed, Promise!Failed
    <3> QED BY <2>1, <3>1 DEF Promise!Fail
  <2>3. CASE ~failing
    <3>1. Going /\ left = 0
      BY <1>4, <2>3 DEF Return, Going
    <3>2. ~broken /\ closing = "no"
      BY <3>1, GoingMeans
    <3>3. Promise!Usable
      BY <3>2 DEF FailureLasts, Promise!Usable, Failed, Promise!Failed
    <3>4. got = Promise!LinesTo(Len(results) + 1, batch)
      BY <3>1, AnsweredWhole DEF Call
    <3>5. results' = Append(results, Promise!Answered(Promise!LinesTo(Len(results) + 1, batch)))
      BY <1>4, <2>3, <3>4 DEF Return, Answered, Promise!Answered
    <3> QED BY <2>1, <3>3, <3>5 DEF Promise!Answer
  <2> QED BY <2>2, <2>3
<1>5. CASE CloseQuit
  BY <1>5 DEF CloseQuit, caller, Promise!Close
<1>6. CASE Closing
  BY <1>6 DEF Closing, Waited, WaitTimeout, RemoveContainer, RemoveFails, caller
<1>7. CASE Finished \/ UNCHANGED vars
  BY <1>7 DEF Finished, vars, caller, closer
<1> QED BY <1>1, <1>2, <1>3, <1>4, <1>5, <1>6, <1>7 DEF Next, Reading

(* The client of internal/chip implements Exchanges: every call gets the   *)
(* chip's own whole reply to that very call or an error, and after an      *)
(* error nothing but errors.                                               *)
THEOREM HarnessImplements == Spec => Implements
<1>1. Init => Promise!Init
  BY DEF Init, Promise!Init
<1> QED BY <1>1, StepImplements, InvHolds, PTL DEF Spec, Implements, Promise!Spec

=============================================================================
