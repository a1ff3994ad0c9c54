------------------------------ MODULE ChipPool -------------------------------
(***************************************************************************)
(* One chip process shared by the tests of a package (internal/chiptest):  *)
(* started at the first handout, reset at every one, replaced when a test  *)
(* left it out of step, closed after the last test.  A test may hold it in *)
(* several goroutines, and tests may run in parallel that should not.  Of  *)
(* a process is kept what ChipHarness shows of it: an exchange either      *)
(* answers or fails, and after one failure every later one fails.          *)
(***************************************************************************)
EXTENDS Integers, Sequences

CONSTANTS
  Tests,
  Callers,        \* goroutines that ask for the chip
  TestOf,         \* the test each of them belongs to
  MaxStarts       \* bound on the processes started

None == "none"

ASSUME PoolAssumption ==
  TestOf \in [Callers -> Tests] /\ None \notin Tests /\ MaxStarts \in Nat

VARIABLES
  run,        \* test -> "waiting", "running" or "ended"
  owner,      \* checkout.owner
  handout,    \* process.handout: a get is under way
  live,       \* process.live
  harness,    \* process.harness: a position in procs
  procs,      \* the processes started: which are dirty, broken, closed
  at,         \* where each goroutine is
  has,        \* the process each goroutine was handed
  down        \* shutdown has run

pool == <<owner, handout, live, harness>>
poolVars == <<run, pool, procs, at, has, down>>

Fresh == {}

PoolInit ==
  /\ run = [t \in Tests |-> "waiting"]
  /\ owner = None /\ handout = FALSE /\ live = FALSE /\ harness = 0
  /\ procs = <<>>
  /\ at = [c \in Callers |-> "idle"]
  /\ has = [c \in Callers |-> 0]
  /\ down = FALSE

Inside == {"reset", "close", "start", "settle"}     \* the stages of get

-----------------------------------------------------------------------------
(* Tests *)

BeginTest(t) ==
  /\ run[t] = "waiting"
  /\ run' = [run EXCEPT ![t] = "running"]
  /\ UNCHANGED <<pool, procs, at, has, down>>

CallersOf(t) == {c \in Callers : TestOf[c] = t}

\* Seeded fault: whichever test ends, the chip counts as given back.
EndTestFreeing(t) ==
  /\ run[t] = "running"
  /\ \A c \in CallersOf(t) : at[c] \in {"idle", "holds", "stopped"}
  /\ run' = [run EXCEPT ![t] = "ended"]
  /\ at' = [c \in Callers |-> IF c \in CallersOf(t) THEN "gone" ELSE at[c]]
  /\ owner' = None
  /\ UNCHANGED <<handout, live, harness, procs, has, down>>

(* A test ends with its goroutines; the cleanup of its claim runs then.     *)
EndTest(t) ==
  /\ run[t] = "running"
  /\ \A c \in CallersOf(t) : at[c] \in {"idle", "holds", "stopped"}
  /\ run' = [run EXCEPT ![t] = "ended"]
  /\ at' = [c \in Callers |-> IF c \in CallersOf(t) THEN "gone" ELSE at[c]]
  /\ owner' = IF owner = t THEN None ELSE owner
  /\ UNCHANGED <<handout, live, harness, procs, has, down>>

Goes(c, stage) == at' = [at EXCEPT ![c] = stage]

(* claim *)
Claim(c) ==
  /\ at[c] = "idle" /\ run[TestOf[c]] = "running"
  /\ owner \in {None, TestOf[c]}
  /\ owner' = TestOf[c]
  /\ Goes(c, "claimed")
  /\ UNCHANGED <<run, handout, live, harness, procs, has, down>>

(* Fatalf: the goroutine asks for nothing more. *)
ClaimRefused(c) ==
  /\ at[c] = "idle" /\ run[TestOf[c]] = "running"
  /\ owner \notin {None, TestOf[c]}
  /\ Goes(c, "stopped")
  /\ UNCHANGED <<run, pool, procs, has, down>>

-----------------------------------------------------------------------------
(* get *)

\* Seeded fault: a handout under way is not noticed.
EnterUnguarded(c) ==
  /\ at[c] = "claimed"
  /\ handout' = TRUE
  /\ Goes(c, IF live THEN "reset" ELSE "start")
  /\ UNCHANGED <<run, owner, live, harness, procs, has, down>>

(* CompareAndSwap lets one caller in. *)
Enter(c) ==
  /\ at[c] = "claimed"
  /\ ~handout
  /\ handout' = TRUE
  /\ Goes(c, IF live THEN "reset" ELSE "start")
  /\ UNCHANGED <<run, owner, live, harness, procs, has, down>>

EnterRefused(c) ==
  /\ at[c] = "claimed"
  /\ handout
  /\ Goes(c, "stopped")
  /\ UNCHANGED <<run, pool, procs, has, down>>

HandOut(c) ==
  /\ Goes(c, "holds")
  /\ has' = [has EXCEPT ![c] = harness]
  /\ handout' = FALSE

Marked(i, marks) == procs' = [procs EXCEPT ![i] = @ \cup marks]

ResetAnswers ==
  "broken" \notin procs[harness] /\ procs' = [procs EXCEPT ![harness] = @ \ {"dirty"}]

ResetFails == Marked(harness, {"broken"})

Reset(c) ==
  /\ at[c] = "reset"
  /\ ResetAnswers
  /\ HandOut(c)
  /\ UNCHANGED <<run, owner, live, harness, down>>

\* Seeded fault: a process that no longer answers is handed on.
ResetFailedIgnored(c) ==
  /\ at[c] = "reset"
  /\ ResetFails
  /\ HandOut(c)
  /\ UNCHANGED <<run, owner, live, harness, down>>

ResetFailed(c) ==
  /\ at[c] = "reset"
  /\ ResetFails
  /\ live' = FALSE
  /\ Goes(c, "close")
  /\ UNCHANGED <<run, owner, handout, harness, has, down>>

CloseBroken(c) ==
  /\ at[c] = "close"
  /\ Marked(harness, {"closed"})
  /\ Goes(c, "start")
  /\ UNCHANGED <<run, pool, has, down>>

Start(c) ==
  /\ at[c] = "start"
  /\ Len(procs) < MaxStarts
  /\ procs' = Append(procs, Fresh)
  /\ harness' = Len(procs) + 1
  /\ live' = TRUE
  /\ Goes(c, "settle")
  /\ UNCHANGED <<run, owner, handout, has, down>>

Leave(c) == Goes(c, "stopped") /\ handout' = FALSE

(* No chip is built, or it does not start. *)
StartFailed(c) ==
  /\ at[c] = "start"
  /\ Leave(c)
  /\ UNCHANGED <<run, owner, live, harness, procs, has, down>>

Settle(c) ==
  /\ at[c] = "settle"
  /\ ResetAnswers
  /\ HandOut(c)
  /\ UNCHANGED <<run, owner, live, harness, down>>

(* The process stays the live one, for the next handout to find broken.     *)
SettleFailed(c) ==
  /\ at[c] = "settle"
  /\ ResetFails
  /\ Leave(c)
  /\ UNCHANGED <<run, owner, live, harness, has, down>>

-----------------------------------------------------------------------------
(* The test drives the chip, and may ask for it again.                      *)
Drive(c) ==
  /\ at[c] = "holds"
  /\ \E lost \in SUBSET {"broken"} : Marked(has[c], {"dirty"} \cup lost)
  /\ UNCHANGED <<run, pool, at, has, down>>

AskAgain(c) ==
  /\ at[c] = "holds"
  /\ Goes(c, "idle")
  /\ UNCHANGED <<run, pool, procs, has, down>>

(* shutdown, after the last test. *)
Shutdown ==
  /\ \A t \in Tests : run[t] = "ended"
  /\ ~down
  /\ down' = TRUE
  /\ live' = FALSE
  /\ IF live THEN Marked(harness, {"closed"}) ELSE UNCHANGED procs
  /\ UNCHANGED <<run, owner, handout, harness, at, has>>

PoolDone == down /\ UNCHANGED poolVars

PoolNext ==
  \/ \E t \in Tests : BeginTest(t) \/ EndTest(t)
  \/ \E c \in Callers :
       \/ Claim(c) \/ ClaimRefused(c) \/ Enter(c) \/ EnterRefused(c)
       \/ Reset(c) \/ ResetFailed(c) \/ CloseBroken(c)
       \/ Start(c) \/ StartFailed(c) \/ Settle(c) \/ SettleFailed(c)
       \/ Drive(c) \/ AskAgain(c)
  \/ Shutdown \/ PoolDone

PoolSpec == PoolInit /\ [][PoolNext]_poolVars

-----------------------------------------------------------------------------
(* Properties *)

(* While a test holds the chip nobody else's goroutine is past its claim:   *)
(* two tests never share the one command stream.                            *)
HeldAlone ==
  \A c, d \in Callers :
    (at[c] = "holds" /\ TestOf[d] # TestOf[c]) =>
      at[d] \notin Inside \cup {"claimed", "holds"}

(* What is handed out is in step, reset and open, whatever the tests before *)
(* did to it.                                                               *)
FreshWhenHanded ==
  [][\A c \in Callers :
       (at[c] \in Inside /\ at'[c] = "holds") => procs'[has'[c]] = Fresh]_poolVars

(* When the package is done every process it ever started has been closed.  *)
NothingLeft == down => \A i \in DOMAIN procs : "closed" \in procs[i]
=============================================================================
