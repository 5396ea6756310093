--------------------------- MODULE InventoryMaster ---------------------------
(***************************************************************************)
(* The inventory_master row of one product and the pure part of the        *)
(* functions of packages/db/src/inventory.ts that compute its next value.  *)
(* Every state module that writes the row takes its arithmetic from here,  *)
(* so a sale, a BASE stock report and a repair are described once.         *)
(*                                                                         *)
(* A row is a record                                                       *)
(*   quantity  units this platform believes are left                       *)
(*   soldOut   the stored flag, not recomputed on read                     *)
(*   version   the compare-and-swap counter                                *)
(*   ebaySold  ebaySoldSinceBaseSync, the eBay units BASE has not reported *)
(*   baseSeq   lastBaseSeq, BASE's logical clock (0 stands for NULL)       *)
(***************************************************************************)
EXTENDS Integers

Row == [quantity : Nat, soldOut : BOOLEAN, version : Nat,
        ebaySold : Nat, baseSeq : Nat]

\* An off-by-one in the check for stock. An operator named Bug... is a plausible
\* mistake that some property must rule out.
BugAlreadyZero(row) == row.quantity < 0

\* Math.max(0, x) of an integer, written out in every function of inventory.ts.
AtLeastZero(x) == IF x \in Nat THEN x ELSE 0

\* applySale answers alreadyZero on this condition, before any write.
AlreadyZero(row) == row.soldOut \/ row.quantity <= 0

\* The accumulator forgotten, then never reset, then the version not advanced.
BugAfterSale(row, channel, sold) ==
  LET left == AtLeastZero(row.quantity - sold)
  IN  [row EXCEPT !.quantity = left, !.soldOut = (left = 0), !.version = @ + 1]

BugAfterBaseReport(row, reported, seq) ==
  LET left == AtLeastZero(reported - row.ebaySold)
  IN  [row EXCEPT !.quantity = left, !.soldOut = (left = 0),
                  !.version = @ + 1, !.baseSeq = seq]

BugAfterRepair(row, quantity) ==
  [row EXCEPT !.quantity = quantity, !.soldOut = (quantity = 0)]

\* The SET clause of applySale's update. The eBay accumulator grows by the
\* units sold, not by the units the clamped decrement really removed.
AfterSale(row, channel, sold) ==
  LET left == AtLeastZero(row.quantity - sold)
  IN  [row EXCEPT !.quantity = left,
                  !.soldOut  = (left = 0),
                  !.version  = @ + 1,
                  !.ebaySold = IF channel = "ebay" THEN @ + sold ELSE @]

\* A report is refused unless BASE's own timestamp is strictly newer.
StaleReport(row, seq) == row.baseSeq # 0 /\ seq <= row.baseSeq

\* The SET clause of applyBaseStockReport's update.
AfterBaseReport(row, reported, seq) ==
  LET left == AtLeastZero(reported - row.ebaySold)
  IN  [row EXCEPT !.quantity = left,
                  !.soldOut  = (left = 0),
                  !.version  = @ + 1,
                  !.ebaySold = 0,
                  !.baseSeq  = seq]

\* The SET clause of applyReconstructedInventory's update.
AfterRepair(row, quantity) ==
  [row EXCEPT !.quantity = quantity, !.soldOut = (quantity = 0),
              !.version  = @ + 1]

\* What a channel is told it may sell: the source channel sees true stock,
\* every other channel has the safety-stock buffer withheld.
AvailableQuantity(quantity, buffer, channel, source) ==
  IF channel = source THEN quantity ELSE AtLeastZero(quantity - buffer)

=============================================================================
