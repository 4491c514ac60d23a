-------------------------------- MODULE Xrpl --------------------------------
(***************************************************************************)
(* External: the XRP Ledger as services/internal/xrplsubmit meets it.  It  *)
(* follows one account, the treasury's.  A transaction has a sequence and  *)
(* a LastLedgerSequence; the engine answers a submission provisionally     *)
(* from the open ledger, and only a later ledger makes it final.           *)
(***************************************************************************)
EXTENDS Integers, FiniteSetsExt

CONSTANT MaxLedger       \* bound: last ledger closed

VARIABLES
    ledger,        \* index of the last validated ledger
    sequence,      \* the account's sequence in it
    candidates,    \* transactions the network holds for a later ledger
    validated      \* transactions in a validated ledger: [tx, ledger, success]

xrplVars == <<ledger, sequence, candidates, validated>>

XrplInit ==
    /\ ledger = 0
    /\ sequence = 1
    /\ candidates = {}
    /\ validated = {}

InLedger(tx) == \E v \in validated : v.tx = tx
Paid(tx) == \E v \in validated : v.tx = tx /\ v.success

\* The account's next sequence in the open ledger.
openSequence ==
    Min({s \in sequence..(sequence + Cardinality(candidates)) :
           \A c \in candidates : c.sequence # s})

\* engine_result, as far as Submit tells the codes apart.
engineResults(tx) ==
    IF tx.sequence < openSequence
    THEN IF tx \in candidates \/ InLedger(tx) THEN {"tefALREADY"} ELSE {"tefPAST_SEQ"}
    ELSE IF tx.lastLedger <= ledger THEN {"tefMAX_LEDGER"}
    ELSE IF tx \in candidates THEN {"tefALREADY"}
    ELSE IF tx.sequence > openSequence THEN {"terPRE_SEQ"}
    ELSE {"tesSUCCESS", "tecUNFUNDED_PAYMENT", "telINSUF_FEE_P"}

\* The network takes the transaction, for all that it may still fail or be dropped.
taken(code) == code \in {"tesSUCCESS", "tecUNFUNDED_PAYMENT", "terPRE_SEQ"}

\* A submission answered with this code.
receiveSubmission(tx, code) ==
    /\ code \in engineResults(tx)
    /\ candidates' = IF taken(code) THEN candidates \cup {tx} ELSE candidates
    /\ UNCHANGED <<ledger, sequence, validated>>

\* What no later ledger than this can include is dropped.
stillPossible(txs, seq, index) == {c \in txs : c.sequence >= seq /\ c.lastLedger > index}

\* A ledger closes, with the account's next transaction or without.
CloseLedger ==
    /\ ledger < MaxLedger
    /\ ledger' = ledger + 1
    /\ \/ \E tx \in candidates, success \in BOOLEAN :
             /\ tx.sequence = sequence
             /\ tx.lastLedger >= ledger + 1
             /\ sequence' = sequence + 1
             /\ validated' = validated \cup {[tx |-> tx, ledger |-> ledger + 1, success |-> success]}
             /\ candidates' = stillPossible(candidates, sequence + 1, ledger + 1)
       \/ /\ UNCHANGED <<sequence, validated>>
          /\ candidates' = stillPossible(candidates, sequence, ledger + 1)
=============================================================================
