------------------------------ MODULE MCFinance ------------------------------
(***************************************************************************)
(* Payment receipts, receivables and quotations share one run but no       *)
(* state: a behavior is one of the three, and the others stay as they are. *)
(***************************************************************************)
EXTENDS PaymentReceipts, Receivables, Quotations, TLC

VARIABLE part

financeVars == <<part, receiptVars, receivableVars, quotationVars>>

FinanceInit ==
  /\ ReceiptsInit /\ ReceivablesInit /\ QuotationsInit
  /\ part \in {"receipts", "receivables", "quotations"}
  /\ part # "receivables" => \A r \in Receipts : balance[r].designated = 0
                                           /\ balance[r].collectedFor = NoInvoice
  /\ part # "receipts" => receipt.kind = "cash"
  /\ part # "quotations" => customer.active

FinanceNext ==
  /\ UNCHANGED part
  /\ \/ part = "receipts" /\ ReceiptsNext /\ UNCHANGED <<receivableVars, quotationVars>>
     \/ part = "receivables" /\ ReceivablesNext /\ UNCHANGED <<receiptVars, quotationVars>>
     \/ part = "quotations" /\ QuotationsNext /\ UNCHANGED <<receiptVars, receivableVars>>

FinanceSpec == FinanceInit /\ [][FinanceNext]_financeVars

Symmetries == Permutations(Requests) \cup Permutations(Tasks) \cup Permutations(Invoices)
=============================================================================
