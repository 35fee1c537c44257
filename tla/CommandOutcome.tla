--------------------------- MODULE CommandOutcome ---------------------------
(***************************************************************************)
(* What the command path promises an operator about each command, whatever *)
(* fails in between: it is accepted once, drives the vehicle in at most    *)
(* one run of at most MaxAttempts attempts, none after the one that was    *)
(* applied or rejected, and gets at most one outcome, which agrees with    *)
(* what the vehicle answered.  A command may stay without an outcome (a    *)
(* crash, a lost record): the promise is about safety.                     *)
(***************************************************************************)
EXTENDS Integers

CONSTANTS Commands, MaxAttempts

VARIABLES phase, attempts, applied, rejected

vars == <<phase, attempts, applied, rejected>>

Init ==
    /\ phase = [c \in Commands |-> "new"]
    /\ attempts = [c \in Commands |-> 0]
    /\ applied = {} /\ rejected = {}

Accept(c) ==
    /\ phase[c] = "new"
    /\ phase' = [phase EXCEPT ![c] = "accepted"]
    /\ UNCHANGED <<attempts, applied, rejected>>

Start(c) ==
    /\ phase[c] = "accepted"
    /\ phase' = [phase EXCEPT ![c] = "running"]
    /\ UNCHANGED <<attempts, applied, rejected>>

\* One request to the vehicle; none follows a request that was applied or rejected.
Attempt(c) ==
    /\ phase[c] = "running"
    /\ attempts[c] < MaxAttempts
    /\ c \notin applied \union rejected
    /\ attempts' = [attempts EXCEPT ![c] = @ + 1]
    /\ \/ UNCHANGED <<applied, rejected>>
       \/ applied' = applied \union {c} /\ UNCHANGED rejected
       \/ rejected' = rejected \union {c} /\ UNCHANGED applied
    /\ UNCHANGED phase

Complete(c) ==
    /\ phase[c] = "running"
    /\ c \in applied
    /\ phase' = [phase EXCEPT ![c] = "completed"]
    /\ UNCHANGED <<attempts, applied, rejected>>

Fail(c) ==
    /\ phase[c] = "running"
    /\ c \notin applied
    /\ attempts[c] = MaxAttempts \/ c \in rejected
    /\ phase' = [phase EXCEPT ![c] = "failed"]
    /\ UNCHANGED <<attempts, applied, rejected>>

Next == \E c \in Commands : Accept(c) \/ Start(c) \/ Attempt(c) \/ Complete(c) \/ Fail(c)

Spec == Init /\ [][Next]_vars
=============================================================================
