\* Two requests at a time; two invoices of two units and one receipt of two;
\* one quotation, four commands of two users, two of them unanswered at a time.
CONSTANTS
  Requests = {p, q}
  Tasks = {p, q}
  Amount = 2
  Required = 1
  Invoices = {i, j}
  Receipts = {r}
  Notes = {n}
  OrderTotal = 2
  Value = 2
  Limit = 4
  Users = {u, v}
  Authorized = {v}
  MaxCommands = 4
  MaxWaiting = 2
  MaxCreates = 1
  MaxCustomer = 2
  MaxDays = 1
SPECIFICATION FinanceSpec
SYMMETRY Symmetries
INVARIANTS ClearedOnce CollectionFollows ExposureReconciles DocumentsReconcile AnswersTrue ConvertedAsApproved
\* A settled receipt and a settled customer have nothing left to do.
CHECK_DEADLOCK FALSE
