----------------------------- MODULE PortalLedger -----------------------------
(***************************************************************************)
(* PortalTraffic with a history: for every instance, and every sample the  *)
(* account has taken of it, the bytes by which the total has really grown  *)
(* for the run the sample belongs to.  A run is what an instance counts    *)
(* between two restarts the account has noticed.  Bytes of other Portals   *)
(* and of other runs are booked elsewhere, so that they cannot stand in    *)
(* for those a row gives up.                                               *)
(*                                                                         *)
(* The history follows the account step by step, in a transaction's copy   *)
(* too, and no step of PortalTraffic looks at it.                          *)
(***************************************************************************)
EXTENDS PortalTraffic

VARIABLES
    ledger,         \* of the committed account
    draft           \* of the copy of the transaction under way

history == <<ledger, draft>>

\* What is booked when the cursors move, and the total grows by bytes.
Booked(book, from, to, bytes) ==
    [i \in Insts |->
        IF to[i] = from[i] THEN book[i]
        ELSE [book[i] EXCEPT ![to[i].at] =
                 bytes + IF from[i].at = Nil \/ to[i].count < from[i].count
                         THEN 0 ELSE book[i][from[i].at]]]

\* A commit publishes the draft, with the sample it ends with.
Commits ==
    IF UNCHANGED <<usage, cursors>> THEN ledger
    ELSE Booked(draft, tx.cursors, cursors', usage'.total - tx.usage.total)

Drafts ==
    IF T!NoTx \in {tx, tx'} THEN ledger'
    ELSE Booked(draft, tx.cursors, tx'.cursors, tx'.usage.total - tx.usage.total)

LedgerInit ==
    /\ Init
    /\ ledger = [i \in Insts |-> [t \in T!Time |-> 0]]
    /\ draft = ledger

LedgerNext == Next /\ ledger' = Commits /\ draft' = Drafts

LedgerSpec == LedgerInit /\ [][LedgerNext]_<<vars, history>>

-----------------------------------------------------------------------------
\* endpointtraffic/service.go:253: counters are accounted before Portal state
\* is overwritten or deleted.  When a row goes, or is overwritten with less,
\* the total has grown by the bytes it shows, for its instance and in its run
\* - as long as no two reports of an instance bear one time: the account
\* passes the second one over, the row does not.
NothingLost ==
    [][\A i \in Insts :
          /\ told[i] # Nil /\ rows[i] # Nil
          /\ rows'[i] = Nil \/ rows'[i].count < rows[i].count
          => ledger'[i][asof[i]] >= rows[i].count]_<<vars, history>>
=============================================================================
