---------------------------- MODULE PromptLedger ----------------------------
(***************************************************************************)
(* What the queue of a session promises for an input: it is queued at most  *)
(* once, it leaves the queue for one turn or is withdrawn, and only one     *)
(* turn runs at a time.  TurnQueue implements this.                         *)
(***************************************************************************)
EXTENDS FiniteSets

CONSTANT Inputs  \* prompts, steers, follow-ups, messages, continuations

VARIABLE fate  \* fate[i]: what has become of the input so far

Fates == {"new", "queued", "running", "settled", "withdrawn", "refused"}
LedgerInit == fate = [i \in Inputs |-> "new"]

Move(S, from, to) ==
  /\ S # {} /\ \A i \in S : fate[i] = from
  /\ fate' = [i \in Inputs |-> IF i \in S THEN to ELSE fate[i]]

Running == {i \in Inputs : fate[i] = "running"}

Refuse(i) == Move({i}, "new", "refused")
Queue(i) == Move({i}, "new", "queued")
Start(S) == Running = {} /\ Move(S, "queued", "running")
Withdraw(S) == Move(S, "queued", "withdrawn")
Settle == Move(Running, "running", "settled")

LedgerNext ==
  \/ \E i \in Inputs : Refuse(i) \/ Queue(i)
  \/ \E S \in SUBSET Inputs : Start(S) \/ Withdraw(S)
  \/ Settle

LedgerSpec == LedgerInit /\ [][LedgerNext]_fate

=============================================================================
