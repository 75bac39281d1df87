------------------------------- MODULE Ledger -------------------------------
(***************************************************************************)
(* The books of one tenant: chart of accounts, tax rates, journal entries, *)
(* bills and invoices (modules/erp).  Amounts that clients send are in     *)
(* tenths of a cent, stored ones in cents: the columns are DECIMAL(15,2).  *)
(* The seeds of the chart and of the rates write one row after the other.  *)
(***************************************************************************)
EXTENDS Integers, FiniteSets, FiniteSetsExt

CONSTANTS Codes, Defaults,   \* accounts and rates, and those among them that seeding adds
          Dates, Amounts,    \* dates and amounts that clients send
          Rates,             \* withholding rates that clients send, in percent
          MaxLines           \* lines posted in a behaviour (bound)

ASSUME LedgerAssumption ==
  /\ Defaults \subseteq Codes
  /\ Dates \subseteq Nat /\ Amounts \subseteq Int /\ Rates \subseteq 0..100
  /\ MaxLines \in Nat

Tables == {"accounts", "rates"}

VARIABLES
  row,      \* row[b][x], a row of a table: "none", "default" or "custom"
  seed,     \* a call that seeds a table
  hadRow,   \* history: the rows there before this seed, and whether an insert failed
  book,     \* book[d], the totals of the lines dated d
  posted,   \* posted[d], how many entries and lines they are
  paper     \* the last bill or invoice

ledgerVars == <<row, seed, hadRow, book, posted, paper>>

Resting == [pc |-> "idle", table |-> "accounts", left |-> {}]
Blank == [subtotal |-> 0, tax |-> 0, wht |-> 0, total |-> 0]

LedgerInit ==
  /\ row = [b \in Tables |-> [x \in Codes |-> "none"]]
  /\ seed = Resting
  /\ hadRow = [was |-> row, failed |-> FALSE]
  /\ book = [d \in Dates |-> [debit |-> 0, credit |-> 0]]
  /\ posted = [d \in Dates |-> [entries |-> 0, lines |-> 0]]
  /\ paper = Blank

-----------------------------------------------------------------------------
(* Accounts and rates *)

\* create: an account is unique by its code, a rate by its type and date.
CreateRow(b, x) ==
  /\ row[b][x] = "none"
  /\ row' = [row EXCEPT ![b][x] = "custom"]
  /\ UNCHANGED <<seed, hadRow>>

StartSeed(b) ==
  /\ seed.pc # "seeding"
  /\ seed' = [pc |-> "seeding", table |-> b, left |-> Defaults]
  /\ hadRow' = [was |-> row, failed |-> FALSE]
  /\ UNCHANGED row

\* Mutant of Upserted: the row that is there becomes the default one.
Overwriting(b, x) == "default"

\* The upsert of an account changes nothing of one that is there, and the
\* insertion of a rate that is there fails.
Upserted(b, x) == IF row[b][x] = "none" THEN "default" ELSE row[b][x]

SeedRow(x) ==
  /\ seed.pc = "seeding" /\ x \in seed.left
  /\ row' = [row EXCEPT ![seed.table][x] = Upserted(seed.table, x)]
  /\ seed' = [seed EXCEPT !.left = @ \ {x}]
  /\ UNCHANGED hadRow

\* Another failure of one insertion: the seed of the chart stops, that of the
\* rates takes it for a duplicate and goes on.
SeedRowFails(x) ==
  /\ seed.pc = "seeding" /\ x \in seed.left
  /\ seed' = IF seed.table = "accounts" THEN Resting ELSE [seed EXCEPT !.left = @ \ {x}]
  /\ hadRow' = [hadRow EXCEPT !.failed = TRUE]
  /\ UNCHANGED row

EndSeed ==
  /\ seed.pc = "seeding" /\ seed.left = {}
  /\ seed' = [seed EXCEPT !.pc = "done"]
  /\ UNCHANGED <<row, hadRow>>

-----------------------------------------------------------------------------
(* Journal *)

\* What a column keeps of so many parts of a cent: half a cent goes away from 0.
Rounded(parts, cent) ==
  IF parts >= 0 THEN (2 * parts + cent) \div (2 * cent) ELSE -((cent - 2 * parts) \div (2 * cent))

Cents(tenths) == Rounded(tenths, 10)

\* Mutant of Balanced: more credit than debit passes.
OneSided(debit, credit) == {debit - credit < 10}

\* A sum of doubles may come out on either side of the hundredth.
Balanced(debit, credit) ==
  LET difference == Max({debit - credit, credit - debit})
  IN IF difference = 10 THEN BOOLEAN ELSE {difference < 10}

\* Two lines in one insertion; a line may have a debit, a credit or both. The
\* fiscal periods are not looked at, open or closed.
CreateEntry(d) ==
  \E debit, credit \in [1..2 -> Amounts] :
    /\ TRUE \in Balanced(debit[1] + debit[2], credit[1] + credit[2])
    /\ posted[d].lines + 2 <= MaxLines
    /\ book' = [book EXCEPT ![d] =
         [debit |-> @.debit + Cents(debit[1]) + Cents(debit[2]),
          credit |-> @.credit + Cents(credit[1]) + Cents(credit[2])]]
    /\ posted' = [posted EXCEPT ![d] = [entries |-> @.entries + 1, lines |-> @.lines + 2]]

\* trialBalance: the totals of the lines of a range, both ends included.
TrialBalance(from, to) ==
  LET Sum(column) == MapThenSumSet(LAMBDA d : column[d], {d \in Dates : from <= d /\ d <= to})
  IN [debit |-> Sum([d \in Dates |-> book[d].debit]), credit |-> Sum([d \in Dates |-> book[d].credit]),
      entries |-> Sum([d \in Dates |-> posted[d].entries]), lines |-> Sum([d \in Dates |-> posted[d].lines])]

-----------------------------------------------------------------------------
(* Bills and invoices. Figures are kept apart, each rounded by its column:  *)
(* in hundredths of a tenth of a cent, so that a percentage is exact.       *)

StoredFigures(subtotal, tax, wht) ==
  LET Round(hundredths) == Rounded(hundredths, 1000)
  IN [subtotal |-> Round(100 * subtotal), tax |-> Round(tax), wht |-> Round(wht),
      total |-> Round(100 * subtotal + tax - wht)]

\* A rate of 0 is the default one.
Withheld(rate) == IF rate = 0 THEN 3 ELSE rate

CreateBill == \E s \in Amounts, r \in Rates : paper' = StoredFigures(s, 7 * s, Withheld(r) * s)

CreateInvoice == \E s \in Amounts : paper' = StoredFigures(s, 7 * s, 0)

-----------------------------------------------------------------------------
(* The three parts of the books touch no variable of one another.          *)

Seeding ==
  /\ \/ \E b \in Tables : StartSeed(b) \/ \E x \in Codes : CreateRow(b, x)
     \/ \E x \in Defaults : SeedRow(x) \/ SeedRowFails(x)
     \/ EndSeed
  /\ UNCHANGED <<book, posted, paper>>

Posting == (\E d \in Dates : CreateEntry(d)) /\ UNCHANGED <<row, seed, hadRow, paper>>

Billing == (CreateBill \/ CreateInvoice) /\ UNCHANGED <<row, seed, hadRow, book, posted>>

LedgerNext == Seeding \/ Posting \/ Billing

LedgerSpec == LedgerInit /\ [][LedgerNext]_ledgerVars

-----------------------------------------------------------------------------
(* Properties *)

LedgerTypeOK ==
  /\ row \in [Tables -> [Codes -> {"none", "default", "custom"}]]
  /\ seed \in [pc : {"idle", "seeding", "done"}, table : Tables, left : SUBSET Defaults]
  /\ book \in [Dates -> [debit : Int, credit : Int]]
  /\ posted \in [Dates -> [entries : Nat, lines : Nat]]
  /\ paper \in [subtotal : Int, tax : Int, wht : Int, total : Int]

\* A seed that was answered and met no error but duplicates leaves every default
\* row there, and rows that were there before, clients' own ones above all, as
\* they were, although others create rows between its insertions.
SeedsAdd ==
  \A x \in Codes :
    LET old == hadRow.was[seed.table][x] IN
      /\ seed.pc = "done" /\ ~hadRow.failed /\ x \in Defaults => row[seed.table][x] # "none"
      /\ old # "none" => row[seed.table][x] = old

\* The debits and the credits of a range differ by no more than a cent per
\* entry, which create lets pass, and the rounding of each amount to a cent.
TrialBalanceAdds ==
  \A from, to \in Dates :
    LET t == TrialBalance(from, to)
        difference == Max({t.debit - t.credit, t.credit - t.debit})
    IN difference <= t.entries + t.lines

\* The figures of a bill or an invoice add up, to a cent for their rounding.
FiguresAdd ==
  Max({paper.subtotal + paper.tax - paper.wht - paper.total,
       paper.total - (paper.subtotal + paper.tax - paper.wht)}) <= 1
=============================================================================
