----------------------------- MODULE ChipHarness -----------------------------
(***************************************************************************)
(* One chip process and the caller talking to it (internal/chip): commands *)
(* go down the docker client's stdin, reply lines come back through its    *)
(* stdout, the goroutine of read and the channel it fills.  The chip may   *)
(* answer late, refuse a command, answer garbage or die, the client may be *)
(* killed by its context, and the daemon creates the container and removes *)
(* it when it likes.                                                       *)
(***************************************************************************)
EXTENDS Integers, Sequences, SequencesExt

CONSTANTS
  Batches,         \* what one call may send: commands, by the reply they get
  BlockLines,      \* lines of a state block before its terminator
  MaxExchanges,    \* bound on the calls considered
  Capacity         \* of the channel lines

ASSUME ConstantsAssumption ==
  /\ \A b \in Batches : b \in Seq({"line", "block"}) /\ b # <<>>
  /\ BlockLines \in Nat \ {0}
  /\ MaxExchanges \in Nat
  /\ Capacity \in Nat \ {0}

VARIABLES
  batch,       \* the commands of the call in progress, or <<>>
  left,        \* how many of them the caller has not read a whole reply to
  body,        \* lines of a block read so far
  got,         \* every line the call in progress has accepted
  results,     \* what the finished calls returned: their lines, or Failed
  failing,     \* the call in progress has met an error
  broken,      \* h.broken is set
  stdin,       \* commands the chip has not handled
  stdout,      \* reply lines the reader has not read
  lines,       \* the channel
  reader,      \* "running", or "done": the channel is closed
  client,      \* the docker client: "running" or "gone"
  container,   \* "asked" for, "made", "running", "removing" (by --rm) or "absent"
  closing,     \* "no", "waiting", "killed", "removing" or "closed"
  problems     \* shutdown met a problem

caller  == <<batch, left, body, got, results, failing, broken>>
streams == <<stdin, stdout, lines, reader>>
process == <<client, container>>
closer  == <<closing, problems>>
vars    == <<caller, streams, process, closer>>

Failed      == [ok |-> FALSE, lines |-> {}]
Answered(a) == [ok |-> TRUE, lines |-> a]

Quit == [id |-> <<0, 0>>, kind |-> "quit"]

Init ==
  /\ batch = <<>> /\ left = 0 /\ body = <<>> /\ got = {} /\ results = <<>>
  /\ failing = FALSE /\ broken = FALSE
  /\ stdin = <<>> /\ stdout = <<>> /\ lines = <<>> /\ reader = "running"
  /\ client = "running" /\ container = "asked"
  /\ closing = "no" /\ problems = FALSE

-----------------------------------------------------------------------------
(* The chip, the docker client and the daemon *)

(* What the client asked for before it was killed may still be done.       *)
Create ==
  /\ container = "asked"
  /\ container' = "made"
  /\ UNCHANGED <<caller, streams, client, closer>>

Run ==
  /\ container = "made"
  /\ container' = "running"
  /\ UNCHANGED <<caller, streams, client, closer>>

(* No such image, or the command does not start.                           *)
NotRun ==
  /\ container \in {"asked", "made"}
  /\ container' = IF container = "asked" THEN "absent" ELSE "removing"
  /\ UNCHANGED <<caller, streams, client, closer>>

(* A reply line: the command it answers, its position, and what it says.   *)
Line(cmd, l, says) == [cmd |-> <<cmd[1], cmd[2], l>>, says |-> says]

Granted(cmd, kind) ==
  IF kind = "line" THEN <<Line(cmd, 1, "ok")>>
  ELSE [l \in 1..BlockLines |-> Line(cmd, l, "body")] \o <<Line(cmd, BlockLines + 1, "end")>>

Refused(cmd) == <<Line(cmd, 1, "err")>>

Handle ==
  /\ container = "running"
  /\ stdin # <<>> /\ Head(stdin) # Quit
  /\ stdin' = Tail(stdin)
  /\ LET cmd == Head(stdin)
     IN  \/ stdout' = stdout \o Granted(cmd.id, cmd.kind)
         \/ stdout' = stdout \o Refused(cmd.id)
  /\ UNCHANGED <<caller, lines, reader, process, closer>>

HandleQuit ==
  /\ container = "running"
  /\ stdin # <<>> /\ Head(stdin) = Quit
  /\ container' = "removing"
  /\ UNCHANGED <<caller, streams, client, closer>>

(* The chip dies: what of its output has not been read may be cut short.   *)
Crash ==
  /\ container = "running"
  /\ container' = "removing"
  /\ \E n \in 0..Len(stdout) : stdout' = SubSeq(stdout, 1, n)
  /\ UNCHANGED <<caller, stdin, lines, reader, client, closer>>

(* The client follows its container, or its context kills it first.        *)
ClientExit ==
  /\ client = "running"
  /\ client' = "gone"
  /\ UNCHANGED <<caller, streams, container, closer>>

Removed ==
  /\ container = "removing"
  /\ container' = "absent"
  /\ UNCHANGED <<caller, streams, client, closer>>

-----------------------------------------------------------------------------
(* The goroutine of read *)

(* A full channel holds the goroutine up.                                  *)
Pump ==
  /\ reader = "running"
  /\ stdout # <<>>
  /\ Len(lines) < Capacity
  /\ lines' = Append(lines, Head(stdout))
  /\ stdout' = Tail(stdout)
  /\ UNCHANGED <<caller, stdin, reader, process, closer>>

PumpEOF ==
  /\ reader = "running"
  /\ stdout = <<>>
  /\ client = "gone"
  /\ reader' = "done"
  /\ UNCHANGED <<caller, stdin, stdout, lines, process, closer>>

-----------------------------------------------------------------------------
(* A call *)

Idle == batch = <<>> /\ closing \in {"no", "closed"}

(* The pipe to a client that is gone, or that Wait has closed, refuses.    *)
Writable == client = "running" /\ closing = "no"

\* begin lets the call through.
Begin == ~broken

\* Seeded fault: the first failure is not remembered.
FailForgotten == failing' = TRUE /\ UNCHANGED broken

(* fail: the call returns an error, and so will every later one.           *)
Fail == failing' = TRUE /\ broken' = TRUE

(* After the first exchanges of start failed the caller never gets the     *)
(* harness; it is only closed.                                             *)
Started   == results # <<>> => results[1] # Failed
HandedOut == results # <<>> /\ results[1] # Failed

Ask(b) ==
  /\ Idle /\ Started
  /\ Len(results) < MaxExchanges
  /\ Begin /\ Writable
  /\ batch' = b
  /\ left' = Len(b)
  /\ body' = <<>> /\ got' = {}
  /\ stdin' = stdin \o [i \in DOMAIN b |-> [id |-> <<Len(results) + 1, i>>, kind |-> b[i]]]
  /\ UNCHANGED <<results, failing, broken, stdout, lines, reader, process, closer>>

(* begin refuses, or the write of send does.                               *)
AskRefused(b) ==
  /\ Idle /\ Started
  /\ Len(results) < MaxExchanges
  /\ ~(Begin /\ Writable)
  /\ batch' = b
  /\ left' = 0
  /\ Fail
  /\ UNCHANGED <<body, got, results, streams, process, closer>>

\* The kind of the command whose reply is read next.
Expected == batch[Len(batch) - left + 1]

Receive ==
  /\ batch # <<>> /\ left > 0 /\ ~failing
  /\ lines # <<>>
  /\ lines' = Tail(lines)
  /\ UNCHANGED <<batch, results, stdin, stdout, reader, process, closer>>

Take(line) == got' = got \cup {line.cmd}

(* expectOK, query and the other one-line readers.                         *)
ReadOK ==
  /\ Receive
  /\ Expected = "line" /\ Head(lines).says = "ok"
  /\ Take(Head(lines))
  /\ left' = left - 1
  /\ UNCHANGED <<body, failing, broken>>

\* Seeded fault: a refusal fails the call and leaves the harness in use.
ReadOtherForgiven ==
  /\ Receive
  /\ Expected = "line" /\ Head(lines).says # "ok"
  /\ failing' = TRUE
  /\ UNCHANGED <<left, body, got, broken>>

ReadOther ==
  /\ Receive
  /\ Expected = "line" /\ Head(lines).says # "ok"
  /\ Fail
  /\ UNCHANGED <<left, body, got>>

(* readBlock keeps what comes up to the cap, whatever it says.             *)
ReadBody ==
  /\ Receive
  /\ Expected = "block" /\ Head(lines).says # "end"
  /\ body' = Append(body, Head(lines).says)
  /\ Take(Head(lines))
  /\ IF Len(body) = BlockLines THEN Fail ELSE UNCHANGED <<failing, broken>>
  /\ UNCHANGED left

(* parseSnapshot wants every key of a state block and nothing else.        *)
Parses(block) == block = [l \in 1..BlockLines |-> "body"]

ReadBlockEnd ==
  /\ Receive
  /\ Expected = "block" /\ Head(lines).says = "end"
  /\ Take(Head(lines))
  /\ IF Parses(body) THEN left' = left - 1 /\ UNCHANGED <<failing, broken>>
                     ELSE Fail /\ UNCHANGED left
  /\ body' = <<>>

\* Seeded fault: a read waits for a line or the end of the output.
NoAnswerUntimed ==
  /\ batch # <<>> /\ left > 0 /\ ~failing
  /\ lines = <<>> /\ reader = "done"
  /\ Fail
  /\ UNCHANGED <<batch, left, body, got, results, streams, process, closer>>

(* The deadline or the call's context, whether a line is there or not; or  *)
(* the channel is closed and empty.                                        *)
NoAnswer ==
  /\ batch # <<>> /\ left > 0 /\ ~failing
  /\ Fail
  /\ UNCHANGED <<batch, left, body, got, results, streams, process, closer>>

Return ==
  /\ batch # <<>>
  /\ failing \/ left = 0
  /\ results' = Append(results, IF failing THEN Failed ELSE Answered(got))
  /\ batch' = <<>> /\ left' = 0 /\ body' = <<>> /\ got' = {} /\ failing' = FALSE
  /\ UNCHANGED <<broken, streams, process, closer>>

-----------------------------------------------------------------------------
(* Close *)

CloseQuit ==
  /\ closing = "no" /\ batch = <<>>
  /\ closing' = "waiting"
  /\ stdin' = IF client = "running" THEN Append(stdin, Quit) ELSE stdin
  /\ UNCHANGED <<caller, stdout, lines, reader, process, problems>>

(* Wait closes the pipe the reader reads from.                             *)
Waited ==
  /\ closing \in {"waiting", "killed"}
  /\ client = "gone"
  /\ closing' = "removing"
  /\ stdout' = <<>>
  /\ UNCHANGED <<caller, stdin, lines, reader, process, problems>>

WaitTimeout ==
  /\ closing = "waiting"
  /\ closing' = "killed"
  /\ client' = "gone"
  /\ problems' = TRUE
  /\ UNCHANGED <<caller, streams, container>>

\* Seeded fault: a removal the daemon is busy with counts as done.
RemoveAny ==
  /\ closing = "removing"
  /\ container' = IF container \in {"made", "running"} THEN "absent" ELSE container
  /\ closing' = "closed"
  /\ UNCHANGED <<caller, streams, client, problems>>

(* docker rm --force, until the daemon no longer answers that a removal is *)
(* in progress.  "No such container" counts as removed, also when it says  *)
(* that there is none yet.                                                 *)
RemoveContainer ==
  /\ closing = "removing"
  /\ container # "removing"
  /\ container' = IF container = "asked" THEN "asked" ELSE "absent"
  /\ closing' = "closed"
  /\ UNCHANGED <<caller, streams, client, problems>>

RemoveFails ==
  /\ closing = "removing"
  /\ closing' = "closed"
  /\ problems' = TRUE
  /\ UNCHANGED <<caller, streams, process>>

-----------------------------------------------------------------------------
Daemon == Create \/ Run \/ NotRun \/ Removed

Environment == Daemon \/ Handle \/ HandleQuit \/ Crash \/ ClientExit \/ Pump \/ PumpEOF

Reading == ReadOK \/ ReadOther \/ ReadBody \/ ReadBlockEnd \/ NoAnswer \/ Return

Closing == Waited \/ WaitTimeout \/ RemoveContainer \/ RemoveFails

Finished ==
  /\ closing = "closed" /\ batch = <<>>
  /\ UNCHANGED vars

Next ==
  \/ Environment
  \/ \E b \in Batches : Ask(b) \/ AskRefused(b)
  \/ Reading
  \/ CloseQuit \/ Closing
  \/ Finished

Spec == Init /\ [][Next]_vars

(* The caller's goroutine runs and its timers fire; nothing is assumed of  *)
(* the chip, the client or the daemon.                                     *)
FairSpec == Spec /\ WF_vars(Reading) /\ WF_vars(Closing)

-----------------------------------------------------------------------------
(* Properties *)

Promise == INSTANCE Exchanges WITH shut <- closing # "no"

(* What callers see is the abstract service: each call gets the chip's own *)
(* reply to it or an error, and errors last.                               *)
Implements == Promise!Spec

(* A harness that may be used again has no line of an earlier call left    *)
(* anywhere on the way: in a pipe, in the channel or still to be written.  *)
InStep ==
  (batch = <<>> /\ ~broken /\ closing = "no") =>
    stdin = <<>> /\ stdout = <<>> /\ lines = <<>>

(* Close of a harness that Start has handed out answers cleanly only once  *)
(* the container is gone: nothing is left on a machine that starts a chip  *)
(* per program.  Where the first exchange failed the container may not     *)
(* have been created yet, and can still appear.                            *)
CleanMeansGone ==
  (closing = "closed" /\ ~problems /\ HandedOut) => container = "absent"

(* Every call returns, though the chip may be wedged, dead or halfway      *)
(* through a block; and so does Close, whatever the client and the daemon  *)
(* do.                                                                     *)
CallsReturn ==
  /\ (batch # <<>>) ~> (batch = <<>>)
  /\ (closing = "waiting") ~> (closing = "closed")
=============================================================================
