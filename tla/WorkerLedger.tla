---------------------------- MODULE WorkerLedger ----------------------------
(***************************************************************************)
(* What the company owes each worker: the append-only                      *)
(* worker_ledger_transactions, the balance kept on worker_profiles, and    *)
(* the one global price of a 9 m kit (pay_rate_changes).  Every entry is   *)
(* written under the worker's row lock, so each operation is one step.     *)
(***************************************************************************)
EXTENDS Integers, Sequences, Functions, Workers

CONSTANTS Rate,         \* prices the administrator may set, in whole sums
          Amount,       \* amounts of a cash payout
          BonusKey,     \* idempotency keys of the monthly quality bonus
          BonusSum,     \* what one bonus pays
          KitCm,        \* centimetres of ribbon in one kit: 900
          MaxRows,      \* bound: ledger rows per worker
          MaxChanges    \* bound: price changes

ASSUME LedgerAssumption == /\ Rate \subseteq Nat \ {0} /\ Rate # {}
                           /\ Amount \subseteq Nat \ {0}
                           /\ BonusSum \in Nat \ {0}
                           /\ KitCm \in Nat \ {0}
                           /\ MaxRows \in Nat /\ MaxChanges \in Nat
                           /\ BonusKey \cap (Asg \cup {"cash", "forced"}) = {}

VARIABLES owed,         \* worker_profiles.balance
          rows,         \* worker_ledger_transactions, oldest first
          rates         \* pay_rate_changes.ratePerKit, oldest first

ledgerVars == <<owed, rows, rates>>

LedgerInit == /\ owed = [w \in Worker |-> 0]
              /\ rows = [w \in Worker |-> <<>>]
              /\ \E rate \in Rate : rates = <<rate>>

CurrentRate == rates[Len(rates)]

(* round_half_up(rate * cm / 900): divRoundHalfUp of a non-negative numerator. *)
EarningFor(rate, cm) == (2 * rate * cm + KitCm) \div (2 * KitCm)

(* applyEntry: one row, and the balance that it leaves.  Its cause is the  *)
(* assignment, the bonus key or the cash payment it was written for.       *)
Entry(w, type, amount, cause) ==
  [type |-> type, amount |-> amount, after |-> owed[w] + amount, cause |-> cause]
ApplyBeforeBalance(w, type, amount, cause) ==   \* mutant: the row keeps the balance before it
  /\ Len(rows[w]) < MaxRows
  /\ rows' = [rows EXCEPT ![w] = Append(@, [Entry(w, type, amount, cause) EXCEPT !.after = owed[w]])]
  /\ owed' = [owed EXCEPT ![w] = owed[w] + amount]
ApplyEntry(w, type, amount, cause) ==
  /\ Len(rows[w]) < MaxRows
  /\ rows' = [rows EXCEPT ![w] = Append(@, Entry(w, type, amount, cause))]
  /\ owed' = [owed EXCEPT ![w] = owed[w] + amount]

(* earnFor, inside the acceptance of assignment a: nothing accepted, or an *)
(* amount that rounds to zero, writes no row.                              *)
EarnAtFirstRate(w, a, cm) ==            \* mutant: a price read once and cached
  IF EarningFor(rates[1], cm) > 0
    THEN ApplyEntry(w, "EARNING", EarningFor(rates[1], cm), a) /\ UNCHANGED rates
    ELSE UNCHANGED ledgerVars
EarnFor(w, a, cm) ==
  IF EarningFor(CurrentRate, cm) > 0
    THEN ApplyEntry(w, "EARNING", EarningFor(CurrentRate, cm), a) /\ UNCHANGED rates
    ELSE UNCHANGED ledgerVars

CanPay(w, amount, forced) == forced \/ amount <= owed[w]

Payout(w, amount, forced) ==
  /\ CanPay(w, amount, forced)
  /\ ApplyEntry(w, "PAYOUT_CASH", -amount, IF forced THEN "forced" ELSE "cash")
  /\ UNCHANGED rates

AllRows == UNION {{rows[w][i] : i \in DOMAIN rows[w]} : w \in Worker}

FreshKey(w, key) == \A row \in AllRows : row.cause # key

Bonus(w, key) ==
  /\ FreshKey(w, key)
  /\ ApplyEntry(w, "BONUS", BonusSum, key)
  /\ UNCHANGED rates

(* PayRateService.change: serialised by an advisory lock; setting the same *)
(* price again changes nothing.                                            *)
ChangeRate(rate) ==
  /\ Len(rates) <= MaxChanges
  /\ rate # CurrentRate
  /\ rates' = Append(rates, rate)
  /\ UNCHANGED <<owed, rows>>

LedgerNext ==
  \/ \E w \in Worker : \/ \E amount \in Amount, forced \in BOOLEAN : Payout(w, amount, forced)
                       \/ \E key \in BonusKey : Bonus(w, key)
  \/ \E rate \in Rate : ChangeRate(rate)

LedgerSpec == LedgerInit /\ [][LedgerNext]_ledgerVars

-----------------------------------------------------------------------------
LedgerRow == [type : {"EARNING", "BONUS", "PAYOUT_CASH"}, amount : Int, after : Int,
              cause : Asg \cup BonusKey \cup {"cash", "forced"}]

LedgerTypeOK ==
  /\ owed \in [Worker -> Int]
  /\ rows \in [Worker -> Seq(LedgerRow)]
  /\ rates \in Seq(Rate) /\ rates # <<>>

RowBefore(w, i) == IF i = 1 THEN 0 ELSE rows[w][i - 1].after

(* Balance = sum of the ledger, told row by row: every balanceAfter is the *)
(* one before plus the row's amount, and the profile shows the last one.   *)
LedgerChain ==
  \A w \in Worker :
    /\ \A i \in DOMAIN rows[w] : rows[w][i].after = RowBefore(w, i) + rows[w][i].amount
    /\ owed[w] = RowBefore(w, Len(rows[w]) + 1)

(* The view ledger_balance_mismatches stays empty: the balance on the      *)
(* profile is the sum of all amounts of her ledger.                        *)
BalanceIsSum ==
  \A w \in Worker : owed[w] = SumFunction([i \in DOMAIN rows[w] |-> rows[w][i].amount])

(* A worker owes the company only because of a payout an administrator     *)
(* forced: without one her balance never goes below zero.                  *)
DebtIsForced ==
  \A w \in Worker : owed[w] < 0 =>
    \E i \in DOMAIN rows[w] : rows[w][i].cause = "forced"

(* One bonus per key, over all workers: a second worker process or a       *)
(* restart in between pays nothing twice.                                  *)
BonusPaidOnce ==
  \A v, w \in Worker : \A i \in DOMAIN rows[v], j \in DOMAIN rows[w] :
    rows[v][i].cause \in BonusKey /\ rows[v][i].cause = rows[w][j].cause
      => v = w /\ i = j
=============================================================================
