------------------------- MODULE CheckoutRefinement -------------------------
(* Checkout implements StockLedger.  The status of the order and the        *)
(* released flag of its commit row tell together what became of its units.  *)
EXTENDS Checkout

HoldOf(o) ==
  IF reservation[o] = "none" THEN "none"
  ELSE IF reservation[o] = "released" THEN "returned"
  ELSE IF status[o] = "done" THEN "sold"
  ELSE "held"

Ledger ==
  INSTANCE StockLedger WITH
    Units <- Cart, InitialShelf <- InitialStock, MaxShelf <- MaxStock,
    shelf <- stock, hold <- [o \in Order |-> HoldOf(o)]

\* Whatever webhook, job, office and handlers do in which order, the shelf
\* changes only the way the ledger allows (commit, release, write_content).
RefinesLedger == Ledger!LedgerSpec
=============================================================================
