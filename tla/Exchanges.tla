------------------------------ MODULE Exchanges ------------------------------
(***************************************************************************)
(* What internal/chip promises its callers: calls are answered one at a    *)
(* time, each by the chip's own reply to that very call or by an error,    *)
(* and after an error, or after Close, by nothing but errors.              *)
(***************************************************************************)
EXTENDS Integers, Sequences

CONSTANTS
  Batches,         \* what one call may send: commands, by the reply they get
  BlockLines,      \* lines of a block before its terminator
  MaxExchanges     \* bound on the calls considered

VARIABLES
  batch,           \* the commands of the call in progress, or <<>>
  results,         \* what the finished calls returned
  shut             \* Close has been called

Failed      == [ok |-> FALSE, lines |-> {}]
Answered(a) == [ok |-> TRUE, lines |-> a]

(* The lines a command is answered with: one, or a block and its end.      *)
LineCount(kind) == IF kind = "block" THEN BlockLines + 1 ELSE 1

LinesTo(n, b) == UNION {{<<n, i, l>> : l \in 1..LineCount(b[i])} : i \in DOMAIN b}

Init == batch = <<>> /\ results = <<>> /\ shut = FALSE

Ask(b) ==
  /\ batch = <<>>
  /\ Len(results) < MaxExchanges
  /\ batch' = b
  /\ UNCHANGED <<results, shut>>

Usable == ~shut /\ \A i \in DOMAIN results : results[i] # Failed

Answer ==
  /\ batch # <<>>
  /\ Usable
  /\ results' = Append(results, Answered(LinesTo(Len(results) + 1, batch)))
  /\ batch' = <<>>
  /\ UNCHANGED shut

Fail ==
  /\ batch # <<>>
  /\ results' = Append(results, Failed)
  /\ batch' = <<>>
  /\ UNCHANGED shut

Close == batch = <<>> /\ shut' = TRUE /\ UNCHANGED <<batch, results>>

Next == (\E b \in Batches : Ask(b)) \/ Answer \/ Fail \/ Close

Spec == Init /\ [][Next]_<<batch, results, shut>>
=============================================================================
