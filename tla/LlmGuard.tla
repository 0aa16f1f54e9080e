------------------------------ MODULE LlmGuard ------------------------------
(***************************************************************************)
(* What stands between the program and its LLM (llm/guard.py): a budget    *)
(* over a usage ledger every process shares, retries, and one circuit      *)
(* breaker per process.  The callers are the decision agent and the code   *)
(* writing adapter (decision/agent.py, adaptation/llm_adapter.py), each a  *)
(* loop of calls: an answer that is not good enough is one more call, a    *)
(* call that fails ends the loop and the deterministic rules apply.        *)
(*                                                                         *)
(* A request costs Input tokens when it is sent and up to MaxOutput more   *)
(* when it is answered, with a text or without one.  The budget window     *)
(* does not roll over here.                                                *)
(***************************************************************************)
EXTENDS Integers, FiniteSets

CONSTANTS
    Callers,        \* threads of one process
    LlmSteps,       \* DECISION_AGENT_MAX_STEPS, ADAPTATION_AGENT_MAX_ATTEMPTS
    LlmRetries,     \* LLM_MAX_RETRIES
    Threshold,      \* LLM_BREAKER_FAILURE_THRESHOLD
    Input, MaxOutput,
    Budget,         \* LLM_TOKEN_BUDGET
    MaxLost         \* ledger rows that may fail to be written

ASSUME LlmGuardConstants ==
    /\ IsFiniteSet(Callers)
    /\ {LlmSteps, Threshold, Input} \subseteq Nat \ {0}
    /\ {LlmRetries, MaxOutput, Budget, MaxLost} \subseteq Nat
    /\ Budget >= Input + MaxOutput

VARIABLES
    circuit,    \* [state, failures, waited]: waited once the reset time has passed
    ledger,     \* tokens the ledger knows of
    used,       \* tokens really used
    lost,       \* ledger rows that could not be written
    call        \* caller -> [pc, step, attempt]

guardVars == <<circuit, ledger, used, lost, call>>

Worst == Input + MaxOutput

GuardInit ==
    /\ circuit = [state |-> "closed", failures |-> 0, waited |-> FALSE]
    /\ ledger = 0 /\ used = 0 /\ lost = 0
    /\ call = [c \in Callers |-> [pc |-> "start", step |-> 0, attempt |-> 0]]

Moves(c, pc) == call' = [call EXCEPT ![c].pc = pc]

BreakerFirst == <<"breaker", "budget", "sent">>

\* What a call passes before it is sent: the budget, then the breaker.
Gates == <<"budget", "breaker", "sent">>
After(gate) == Gates[CHOOSE i \in 2 .. 3 : Gates[i - 1] = gate]

\* The next step of the caller's loop, or its end when the steps are used up.
Ask(c) ==
    /\ call[c].pc = "start"
    /\ call' = [call EXCEPT ![c] = IF @.step < LlmSteps
                                   THEN [pc |-> Gates[1], step |-> @.step + 1, attempt |-> 0]
                                   ELSE [@ EXCEPT !.pc = "fallback"]]
    /\ UNCHANGED <<circuit, ledger, used, lost>>

\* The thread runs another job.
AnotherJob(c) ==
    /\ call[c].pc \in {"done", "fallback"}
    /\ call' = [call EXCEPT ![c] = [pc |-> "start", step |-> 0, attempt |-> 0]]
    /\ UNCHANGED <<circuit, ledger, used, lost>>

\* The ledger can be read and leaves room for the worst case of one request.
Affordable == ledger + Worst <= Budget

CheckBudget(c, readable) ==
    /\ call[c].pc = "budget"
    /\ Moves(c, IF readable /\ Affordable THEN After("budget") ELSE "fallback")
    /\ UNCHANGED <<circuit, ledger, used, lost>>

\* A closed circuit lets everyone through, an open one whose time has passed lets one caller try.
Acquire(c) ==
    LET tries == circuit.state = "open" /\ circuit.waited IN
    /\ call[c].pc = "breaker"
    /\ Moves(c, IF circuit.state = "closed" \/ tries THEN After("breaker") ELSE "fallback")
    /\ circuit' = IF tries THEN [circuit EXCEPT !.state = "half_open"] ELSE circuit
    /\ UNCHANGED <<ledger, used, lost>>

ResetTimePasses ==
    /\ circuit.state = "open" /\ ~circuit.waited
    /\ circuit' = [circuit EXCEPT !.waited = TRUE]
    /\ UNCHANGED <<ledger, used, lost, call>>

\* The ledger row of a request; a row that cannot be written is lost.
Settle(tokens) ==
    /\ used' = used + tokens
    /\ \/ ledger' = ledger + tokens /\ lost' = lost
       \/ lost < MaxLost /\ lost' = lost + 1 /\ ledger' = ledger

Success == circuit' = [circuit EXCEPT !.state = "closed", !.failures = 0]

Failure ==
    circuit' = IF circuit.state = "half_open" \/ circuit.failures + 1 >= Threshold
               THEN [state |-> "open", failures |-> circuit.failures + 1, waited |-> FALSE]
               ELSE [circuit EXCEPT !.failures = @ + 1]

\* What a provider's adapter makes of one request: a text, or LlmUnavailableError.  The usage is
\* reported before an answer turns out to hold no text; a request that was refused, timed out or
\* was answered in another shape reports none, and its input is counted.
Complete ==
    {[text |-> FALSE, tokens |-> Input]} \cup [text : BOOLEAN, tokens : {Input, Worst}]

\* The request fails: it is settled, then retried, or the breaker is told and the caller falls
\* back.
RequestFails(c) ==
    /\ call[c].pc = "sent"
    /\ \E answer \in Complete : ~answer.text /\ Settle(answer.tokens)
    /\ IF call[c].attempt < LlmRetries
       THEN call' = [call EXCEPT ![c].attempt = @ + 1] /\ UNCHANGED circuit
       ELSE Moves(c, "fallback") /\ Failure

\* The request is answered: the breaker is told before the answer is settled.
RequestAnswered(c) ==
    /\ call[c].pc = "sent"
    /\ Success
    /\ Moves(c, "settle")
    /\ UNCHANGED <<ledger, used, lost>>

\* What the decision agent's model may reply: a call of one of the read-only tools, a strategy the
\* constraints allow or rule out, an action there is none of, or no JSON object at all.
Tools == {"get_drift_summary", "get_feature_shifts", "get_version_evaluations",
          "get_constraints", "estimate_strategy", "get_rule_recommendation"}
Replies == Tools \cup {"submit_allowed", "submit_ruled_out", "unknown_action", "malformed"}

\* Only a strategy inside the allowed set is accepted; everything else becomes an observation.
Accepted(reply) == reply = "submit_allowed"

\* The answer is settled and judged: an accepted one ends the loop, any other is another step.
\* The code writing adapter judges its answers the same way: code that ran, or one more attempt.
Answer(c, reply) ==
    /\ call[c].pc = "settle"
    /\ \E answer \in Complete : answer.text /\ Settle(answer.tokens)
    /\ Moves(c, IF Accepted(reply) THEN "done" ELSE "start")
    /\ UNCHANGED circuit

GuardNext ==
    \/ ResetTimePasses
    \/ \E c \in Callers :
         \/ AnotherJob(c) \/ Ask(c) \/ Acquire(c) \/ RequestFails(c) \/ RequestAnswered(c)
         \/ \E r \in BOOLEAN : CheckBudget(c, r)
         \/ \E reply \in Replies : Answer(c, reply)

GuardSpec == GuardInit /\ [][GuardNext]_guardVars

-----------------------------------------------------------------------------
\* The circuit is half open only while a call is under way that will close or open it: a refusal
\* never leaves it half open, which would refuse every later call.
TrialIsUnderWay ==
    circuit.state = "half_open" => \E c \in Callers : call[c].pc = "sent"

\* The budget is checked without reserving, so calls that were checked together overshoot it, by
\* no more than one call with its retries each, every try at its worst, and the rows the ledger
\* lost.
OvershootIsBounded ==
    used <= Budget - Worst + Cardinality(Callers) * (LlmRetries + 1) * Worst + lost * Worst

\* The circuit recovers and the budget is kept (llm/guard.py).
GuardHolds == TrialIsUnderWay /\ OvershootIsBounded
=============================================================================
