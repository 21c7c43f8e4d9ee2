---------------------------- MODULE StockLedger -----------------------------
(***************************************************************************)
(* What the checkout promises about the warehouse: units are either on the *)
(* shelf or held by an order; a hold is taken in full or not at all, and   *)
(* ends exactly once, by a sale or by a return.  How many units there are  *)
(* changes only while nobody holds any.                                    *)
(***************************************************************************)
EXTENDS Integers

CONSTANTS
  Order,
  Product,
  Units,         \* Units[o][q]: units of q that order o takes
  InitialShelf,
  MaxShelf       \* the largest stock an office types in (a bound)

VARIABLES
  shelf,         \* units on sale
  hold           \* none, held, sold or returned

ledger == <<shelf, hold>>

LedgerInit ==
  /\ shelf = InitialShelf
  /\ hold = [o \in Order |-> "none"]

Take(o) ==
  /\ hold[o] = "none"
  /\ \A q \in Product : Units[o][q] <= shelf[q]
  /\ hold' = [hold EXCEPT ![o] = "held"]
  /\ shelf' = [q \in Product |-> shelf[q] - Units[o][q]]

Return(o) ==
  /\ hold[o] = "held"
  /\ hold' = [hold EXCEPT ![o] = "returned"]
  /\ shelf' = [q \in Product |-> shelf[q] + Units[o][q]]

Sell(o) ==
  /\ hold[o] = "held"
  /\ hold' = [hold EXCEPT ![o] = "sold"]
  /\ UNCHANGED shelf

Restock(q, n) ==
  /\ \A o \in Order : hold[o] = "held" => Units[o][q] = 0
  /\ shelf' = [shelf EXCEPT ![q] = n]
  /\ UNCHANGED hold

LedgerNext ==
  \/ \E o \in Order : Take(o) \/ Return(o) \/ Sell(o)
  \/ \E q \in Product, n \in 0..MaxShelf : Restock(q, n)

LedgerSpec == LedgerInit /\ [][LedgerNext]_ledger
=============================================================================
