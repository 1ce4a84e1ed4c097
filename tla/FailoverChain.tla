---------------------------- MODULE FailoverChain ----------------------------
(***************************************************************************)
(* The failover chain of claw-agent-models: concurrent calls try the       *)
(* providers in order of priority; one that fails with a retriable error   *)
(* is left alone for a while.  The slots are behind a lock that no call    *)
(* keeps while it waits for a provider or for a cooldown to expire.        *)
(*                                                                         *)
(* Instants are kept as the ticks that are left until them, so that time   *)
(* need not stop.                                                          *)
(***************************************************************************)
EXTENDS Integers, FiniteSets, FiniteSetsExt

CONSTANTS
  ModelCalls,\* chat_completion and chat_completion_stream calls
  Providers, \* 1..n, in order of priority
  Cooldown,  \* cooldown_duration
  RetryAfter,\* the retry_after values a rate limited answer may carry
  MaxWait    \* max_wait

ASSUME FailoverAssumption ==
  /\ Providers \subseteq Nat \ {0} /\ IsFiniteSet(Providers)
  /\ Cooldown \in Nat /\ RetryAfter \subseteq Nat /\ MaxWait \in Nat

NotSet == -1
Shortest == Min({Cooldown} \cup RetryAfter)

VARIABLES
  until,    \* cooldown_until of each provider's slot, or NotSet
  chainPc,   \* where each call stands
  chosen,   \* the provider it tries
  deadline, \* when it stops waiting
  expiry,   \* when it wakes up
  clearedUp,  \* history: calls that another call's success met between their two looks
  awake     \* history: for how long a call was at work since it last slept, up to
            \* the shortest cooldown

failoverVars == <<until, chainPc, chosen, deadline, expiry, clearedUp, awake>>

FailoverInit ==
  /\ until = [p \in Providers |-> NotSet]
  /\ chainPc = [c \in ModelCalls |-> "idle"] /\ chosen = [c \in ModelCalls |-> NotSet]
  /\ deadline = [c \in ModelCalls |-> 0] /\ expiry = [c \in ModelCalls |-> 0] /\ clearedUp = {}
  /\ awake = [c \in ModelCalls |-> 0]

CallGoes(c, label) == chainPc' = [chainPc EXCEPT ![c] = label]

\* Time passes.
Less(ticks) == IF ticks > 0 THEN ticks - 1 ELSE ticks
AtWork(c) == chainPc[c] \in {"choose", "calling", "ok", "retriable", "alldown"}
FailoverTick ==
  /\ until' = [p \in Providers |-> Less(until[p])]
  /\ deadline' = [c \in ModelCalls |-> Less(deadline[c])]
  /\ expiry' = [c \in ModelCalls |-> Less(expiry[c])]
  /\ awake' = [c \in ModelCalls |-> IF AtWork(c) /\ awake[c] < Shortest THEN awake[c] + 1 ELSE awake[c]]
  /\ UNCHANGED <<chainPc, chosen, clearedUp>>

BeginModelCall(c) ==
  /\ chainPc[c] = "idle" /\ CallGoes(c, "choose")
  /\ deadline' = [deadline EXCEPT ![c] = MaxWait]
  /\ UNCHANGED <<until, chosen, expiry, clearedUp, awake>>

\* No cooldown, or one that has expired.
IsAvailable(p) == until[p] <= 0

\* Under the read lock: the first provider that is available.
Choose(c) ==
  /\ chainPc[c] = "choose"
  /\ LET up == {p \in Providers : IsAvailable(p)} IN
     IF up = {} THEN CallGoes(c, "alldown") /\ UNCHANGED chosen
     ELSE CallGoes(c, "calling") /\ chosen' = [chosen EXCEPT ![c] = Min(up)]
  /\ clearedUp' = clearedUp \ {c}
  /\ UNCHANGED <<until, deadline, expiry, awake>>

\* The provider's answer, and what it means for the slot (under the write lock,
\* which is taken after the answer).
Answer(c) ==
  /\ chainPc[c] = "calling"
  /\ \E outcome \in {"ok", "retriable", "failed"} : CallGoes(c, outcome)
  /\ UNCHANGED <<until, chosen, deadline, expiry, clearedUp, awake>>

Succeed(c) ==
  /\ chainPc[c] = "ok" /\ CallGoes(c, "answered")
  /\ until' = [until EXCEPT ![chosen[c]] = NotSet]
  /\ clearedUp' = clearedUp \cup {d \in ModelCalls : chainPc[d] = "alldown"}
  /\ UNCHANGED <<chosen, deadline, expiry, awake>>

\* A rate limited answer may say for how long.
EnterCooldown(c) ==
  /\ chainPc[c] = "retriable" /\ CallGoes(c, "choose")
  /\ \E d \in {Cooldown} \cup RetryAfter :
       until' = [until EXCEPT ![chosen[c]] = d]
  /\ chosen' = [chosen EXCEPT ![c] = NotSet]
  /\ UNCHANGED <<deadline, expiry, clearedUp, awake>>

\* Mutant: the deadline is not looked at.
WaitForEarliestAlways(c) ==
  /\ chainPc[c] = "alldown"
  /\ LET ends == {until[p] : p \in Providers} \ {NotSet} IN
     IF ends = {} THEN CallGoes(c, "unconfigured") /\ UNCHANGED expiry
     ELSE CallGoes(c, "sleeping") /\ expiry' = [expiry EXCEPT ![c] = Min(ends)]
  /\ UNCHANGED <<until, chosen, deadline, clearedUp, awake>>

\* Mutant: only cooldowns that have not expired count.
WaitForUnexpired(c) ==
  /\ chainPc[c] = "alldown"
  /\ LET ends == {until[p] : p \in {q \in Providers : until[q] > 0}} IN
     IF ends = {} THEN CallGoes(c, "unconfigured") /\ UNCHANGED expiry
     ELSE IF deadline[c] = 0 THEN CallGoes(c, "exhausted") /\ UNCHANGED expiry
     ELSE CallGoes(c, "sleeping") /\ expiry' = [expiry EXCEPT ![c] = Min(ends)]
  /\ UNCHANGED <<until, chosen, deadline, clearedUp, awake>>

\* A second look at the slots: the earliest end of a cooldown, also one that has
\* expired or has been extended since Choose; no cooldown at all is taken for an
\* empty chain.
WaitForEarliest(c) ==
  /\ chainPc[c] = "alldown"
  /\ LET ends == {until[p] : p \in Providers} \ {NotSet} IN
     IF ends = {} THEN CallGoes(c, "unconfigured") /\ UNCHANGED expiry
     ELSE IF deadline[c] = 0 THEN CallGoes(c, "exhausted") /\ UNCHANGED expiry
     ELSE CallGoes(c, "sleeping") /\ expiry' = [expiry EXCEPT ![c] = Min(ends)]
  /\ UNCHANGED <<until, chosen, deadline, clearedUp, awake>>

Wake(c) ==
  /\ chainPc[c] = "sleeping" /\ expiry[c] = 0 /\ CallGoes(c, "choose")
  /\ awake' = [awake EXCEPT ![c] = 0]
  /\ UNCHANGED <<until, chosen, deadline, expiry, clearedUp>>

CallStep(c) ==
  Choose(c) \/ Answer(c) \/ Succeed(c) \/ EnterCooldown(c) \/ WaitForEarliest(c) \/ Wake(c)
FailoverNext == FailoverTick \/ \E c \in ModelCalls : BeginModelCall(c) \/ CallStep(c)

FailoverFairness ==
  WF_failoverVars(FailoverTick) /\ \A c \in ModelCalls : WF_failoverVars(CallStep(c))
FailoverSpec == FailoverInit /\ [][FailoverNext]_failoverVars /\ FailoverFairness

-----------------------------------------------------------------------------

\* "If all providers are in cooldown, waits for the earliest one to expire":
\* the chain that has providers never says it has none.
NeverUnconfigured == \A c \in ModelCalls : chainPc[c] # "unconfigured"

\* That is so unless another call's success ends the only cooldown between the
\* two looks at the slots: expired and extended cooldowns do not confuse it.
UnconfiguredOnlyIfCleared ==
  \A c \in ModelCalls : chainPc[c] = "unconfigured" => c \in clearedUp

\* Every call ends, though providers fail for ever and other calls move the
\* cooldowns, if going once through the providers takes it less time than the
\* shortest cooldown.  (The deadline is looked at only where all are down: a call
\* whose providers take longer to fail may never find them so.)
Asking(c) == chainPc[c] = "choose"
Answered(c) == chainPc[c] \in {"answered", "failed", "exhausted", "unconfigured"}
TakesLong(c) == awake[c] >= Shortest
CallEnds == \A c \in ModelCalls : Asking(c) ~> Answered(c) \/ TakesLong(c)
=============================================================================
