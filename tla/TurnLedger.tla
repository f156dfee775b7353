----------------------------- MODULE TurnLedger -----------------------------
(***************************************************************************)
(* What the conversation tables promise the owner, without leases, daemons  *)
(* and Pi processes: the messages of a conversation are worked off in the   *)
(* order they were sent, one at a time; a message is worked on at most      *)
(* once; and when it is unknown what became of one, the conversation stops  *)
(* there and nothing is replayed.                                           *)
(***************************************************************************)
EXTENDS Naturals, Sequences

CONSTANT Conversation

VARIABLE ledger \* every owner message in the order of submission

TurnStates == {"queued", "running", "settled", "unknown"}

LedgerType ==
    ledger \in Seq([conversation : Conversation, state : TurnStates])

Init == ledger = << >>

Submit(c) == ledger' = Append(ledger, [conversation |-> c, state |-> "queued"])

\* Every earlier message of the conversation is settled, none is unknown.
Start(t) ==
    /\ ledger[t].state = "queued"
    /\ \A u \in 1..(t - 1) :
          ledger[u].conversation = ledger[t].conversation
             => ledger[u].state = "settled"
    /\ ledger' = [ledger EXCEPT ![t].state = "running"]

Settle(t) ==
    /\ ledger[t].state = "running"
    /\ ledger' = [ledger EXCEPT ![t].state = "settled"]

\* Messages of several conversations may be under way when whoever works on
\* them disappears: what became of them is unknown from one moment to the next.
Interrupt(T) ==
    /\ \A t \in T : ledger[t].state = "running"
    /\ ledger' = [t \in DOMAIN ledger |->
          IF t \in T THEN [ledger[t] EXCEPT !.state = "unknown"] ELSE ledger[t]]

Next ==
    \/ \E c \in Conversation : Submit(c)
    \/ \E t \in DOMAIN ledger : Start(t) \/ Settle(t)
    \/ \E T \in SUBSET DOMAIN ledger : Interrupt(T)

Spec == Init /\ [][Next]_ledger
=============================================================================
