------------------------------ MODULE StockRow ------------------------------
(***************************************************************************)
(* What the compare-and-swap on inventory_master.version promises          *)
(* (packages/db/src/inventory.ts): a sale, a BASE stock report and a       *)
(* repair each read and write the row in one step, in some order, and a    *)
(* sale is decided once, by the stock there is at that moment. Copies of   *)
(* the row, retries, queues and the ledger are invisible here.             *)
(***************************************************************************)
EXTENDS InventoryMaster

CONSTANTS Sales, SoldOn, Units, Pollers, FirstRow, FirstItem

VARIABLES
  row,      \* the inventory_master row
  decided,  \* the sales that were taken off it or found it sold out
  item,     \* BASE's own stock and when it changed last
  fetched   \* per poll, what it carries from BASE: one item, or none

vars == <<row, decided, item, fetched>>

Item == [stock : Nat, modified : Nat]

Init ==
  /\ row = FirstRow
  /\ decided = {}
  /\ item = FirstItem
  /\ fetched = [p \in Pollers |-> {}]

\* A sale, a restock or an edit on BASE.
Change ==
  /\ item' \in Item
  /\ item'.modified >= item.modified
  /\ UNCHANGED <<row, decided, fetched>>

Decide(s) ==
  /\ s \notin decided
  /\ decided' = decided \cup {s}
  /\ row' = IF AlreadyZero(row) THEN row ELSE AfterSale(row, SoldOn[s], Units[s])
  /\ UNCHANGED <<item, fetched>>

Fetch(p) ==
  /\ fetched' = [fetched EXCEPT ![p] = {item}]
  /\ UNCHANGED <<row, decided, item>>

\* The report is applied, if it is newer than the last one.
Report(p, i) ==
  /\ i \in fetched[p]
  /\ ~StaleReport(row, i.modified)
  /\ row' = AfterBaseReport(row, i.stock, i.modified)
  /\ fetched' = [fetched EXCEPT ![p] = {}]
  /\ UNCHANGED <<decided, item>>

\* It is not applied: it is stale, the attempts are used up, or the poll dies.
Drop(p) ==
  /\ fetched' = [fetched EXCEPT ![p] = {}]
  /\ UNCHANGED <<row, decided, item>>

Repair ==
  /\ row' = AfterRepair(row, row'.quantity)
  /\ row' \in Row
  /\ UNCHANGED <<decided, item, fetched>>

Next ==
  \/ Change \/ Repair
  \/ \E s \in Sales : Decide(s)
  \/ \E p \in Pollers :
       Fetch(p) \/ Drop(p) \/ \E i \in fetched[p] : Report(p, i)

Spec == Init /\ [][Next]_vars

=============================================================================
