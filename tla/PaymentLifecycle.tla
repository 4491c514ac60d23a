-------------------------- MODULE PaymentLifecycle --------------------------
(***************************************************************************)
(* What the two contracts promise a treasury owner, without enclaves,      *)
(* results, instructions or verifiers: a request moves one way through its *)
(* phases, its amount is reserved exactly while it may still be paid, a    *)
(* published payment keeps its reservation until its deadline has passed,  *)
(* and one XRPL transaction settles at most one request, ever.             *)
(***************************************************************************)
EXTENDS Naturals

CONSTANTS Treasury, Request, Transaction, NoTreasury,
    Amount,     \* drops a payment may be of
    Instant     \* seconds a deadline may fall on

VARIABLES
    phase,      \* of each request
    payer,      \* the treasury a request pays from, or NoTreasury
    amount,     \* drops, 0 until reserved
    deadline,   \* last second a published payment may still be included
    reserved,   \* drops reserved by each treasury
    spent,      \* transactions that have settled a request
    clock

vars == <<phase, payer, amount, deadline, reserved, spent, clock>>

Init ==
    /\ phase = [r \in Request |-> "unopened"]
    /\ payer = [r \in Request |-> NoTreasury]
    /\ amount = [r \in Request |-> 0]
    /\ deadline = [r \in Request |-> 0]
    /\ reserved = [t \in Treasury |-> 0]
    /\ spent = {}
    /\ clock = 0

Open(r) ==
    /\ phase[r] = "unopened"
    /\ \E t \in Treasury : payer' = [payer EXCEPT ![r] = t]
    /\ \E d \in Instant : d > clock /\ deadline' = [deadline EXCEPT ![r] = d]
    /\ phase' = [phase EXCEPT ![r] = "open"]
    /\ UNCHANGED <<amount, reserved, spent, clock>>

Reserve(r) ==
    /\ phase[r] = "open"
    /\ clock <= deadline[r]
    /\ phase' = [phase EXCEPT ![r] = "reserved"]
    /\ \E a \in Amount :
          /\ amount' = [amount EXCEPT ![r] = a]
          /\ reserved' = [reserved EXCEPT ![payer[r]] = @ + a]
    /\ UNCHANGED <<payer, deadline, spent, clock>>

Publish(r) ==
    /\ phase[r] = "reserved"
    /\ clock <= deadline[r]
    /\ phase' = [phase EXCEPT ![r] = "published"]
    /\ UNCHANGED <<payer, amount, deadline, reserved, spent, clock>>

Settle(r) ==
    /\ phase[r] = "published"
    /\ \E tx \in Transaction \ spent : spent' = spent \cup {tx}
    /\ phase' = [phase EXCEPT ![r] = "settled"]
    /\ UNCHANGED <<payer, amount, deadline, reserved, clock>>

\* Cancelled or refused while unpublished, or expired.
Close(r) ==
    /\ \/ phase[r] \in {"open", "reserved"}
       \/ phase[r] = "published" /\ clock > deadline[r]
    /\ phase' = [phase EXCEPT ![r] = "closed"]
    /\ reserved' = IF phase[r] = "open" THEN reserved
                   ELSE [reserved EXCEPT ![payer[r]] = @ - amount[r]]
    /\ UNCHANGED <<payer, amount, deadline, spent, clock>>

Pass ==
    /\ clock' = clock + 1
    /\ UNCHANGED <<phase, payer, amount, deadline, reserved, spent>>

Next == Pass \/ \E r \in Request : Open(r) \/ Reserve(r) \/ Publish(r) \/ Settle(r) \/ Close(r)

Spec == Init /\ [][Next]_vars
=============================================================================
