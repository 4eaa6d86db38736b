------------------------- MODULE AssignmentsProofs -------------------------
(***************************************************************************)
(* What holds of Assignments for any number of workers, works, materials,  *)
(* request slots, handoffs and pickups, however the handlers overlap.      *)
(*                                                                         *)
(* The inductive invariant Inv joins four things: the types of the tables  *)
(* and of what each handler remembers (TypeInv); the money ledger          *)
(* (LedgerInv, proved of the ledger by itself first); what is true of      *)
(* each work at rest (Sound); and what a handler that is still in flight   *)
(* will find when it commits (LateOK).  The last part is what the          *)
(* overlapping needs: a handler checks the status, then commits without    *)
(* checking again, so every step must leave behind it what the late        *)
(* handler relies on (Forward).                                            *)
(*                                                                         *)
(* KitInv, beside it, says what the movements of a kit can be (one of      *)
(* Trails, each movement the whole kit); from it every step is a step of   *)
(* MaterialCustody or none (CustodyIsKept).  The money ledger and the      *)
(* shelf are proved to stay sound under all of this as well.               *)
(***************************************************************************)
EXTENDS Assignments, WarehouseProofs, TLAPS

-----------------------------------------------------------------------------
(***************************************************************************)
(* The money ledger for any workers, prices, payouts and bonus keys: its   *)
(* rows form one unbroken chain, debt is forced, a bonus is paid once.     *)
(* The step lemmas speak of ApplyEntry and EarnFor, through which          *)
(* acceptance pays.                                                        *)
(***************************************************************************)
LedgerInv == LedgerTypeOK /\ LedgerChain /\ DebtIsForced /\ BonusPaidOnce

(* divRoundHalfUp never turns a non-negative earning into a debt. *)
LEMMA EarningIsNat ==
  ASSUME NEW rate \in Nat, NEW cm \in Nat
  PROVE  EarningFor(rate, cm) \in Nat
<1>1. 2 * KitCm \in Nat \ {0} BY LedgerAssumption
<1>2. rate * cm \in Nat OBVIOUS
<1>3. 2 * rate * cm + KitCm \in Nat BY <1>2, LedgerAssumption
<1>4. \A n \in Nat, d \in Nat \ {0} : n \div d \in Nat OBVIOUS
<1> QED BY <1>1, <1>3, <1>4 DEF EarningFor

(* The current price is one of the prices that were set. *)
LEMMA CurrentRateIsRate ==
  ASSUME LedgerTypeOK
  PROVE  CurrentRate \in Rate /\ CurrentRate \in Nat
<1>1. rates \in Seq(Rate) /\ rates # <<>> BY DEF LedgerTypeOK
<1>2. Len(rates) \in 1..Len(rates) BY <1>1
<1>3. rates[Len(rates)] \in Rate BY <1>1, <1>2
<1> QED BY <1>3, LedgerAssumption DEF CurrentRate

(* applyEntry keeps the ledger sound for every amount that is written for  *)
(* a new bonus key or no bonus at all, and takes a balance below zero only *)
(* when it is forced.                                                      *)
LEMMA ApplyEntryKeepsLedger ==
  ASSUME LedgerInv,
         NEW w \in Worker, NEW type \in {"EARNING", "BONUS", "PAYOUT_CASH"}, NEW amount \in Int,
         NEW cause \in Asg \cup BonusKey \cup {"cash", "forced"},
         cause \in BonusKey => FreshKey(w, cause),
         amount >= 0 \/ owed[w] + amount >= 0 \/ cause = "forced",
         ApplyEntry(w, type, amount, cause), UNCHANGED rates
  PROVE  LedgerInv'
<1> DEFINE row == Entry(w, type, amount, cause)
<1>1. /\ rows \in [Worker -> Seq(LedgerRow)] /\ owed \in [Worker -> Int]
      /\ rates \in Seq(Rate) /\ rates # <<>>
  BY DEF LedgerInv, LedgerTypeOK
<1>2. row \in LedgerRow /\ row.after = owed[w] + amount /\ row.amount = amount /\ row.cause = cause
  BY <1>1 DEF Entry, LedgerRow
<1>3. /\ rows' = [rows EXCEPT ![w] = Append(rows[w], row)]
      /\ owed' = [owed EXCEPT ![w] = owed[w] + amount]
  BY DEF ApplyEntry
<1> HIDE DEF row
<1>4. LedgerTypeOK'
  <2>1. Append(rows[w], row) \in Seq(LedgerRow) BY <1>1, <1>2
  <2>2. rows' \in [Worker -> Seq(LedgerRow)] BY <1>1, <1>3, <2>1
  <2>3. owed' \in [Worker -> Int] BY <1>1, <1>3
  <2> QED BY <1>1, <2>2, <2>3 DEF LedgerTypeOK
<1>5. /\ Len(rows'[w]) = Len(rows[w]) + 1
      /\ DOMAIN rows'[w] = 1..(Len(rows[w]) + 1)
      /\ DOMAIN rows[w] = 1..Len(rows[w])
      /\ Len(rows[w]) \in Nat
      /\ rows'[w][Len(rows[w]) + 1] = row
      /\ \A i \in DOMAIN rows[w] : rows'[w][i] = rows[w][i]
      /\ owed'[w] = owed[w] + amount
      /\ \A v \in Worker \ {w} : rows'[v] = rows[v] /\ owed'[v] = owed[v]
  BY <1>1, <1>2, <1>3
<1>6. LedgerChain'
  <2> SUFFICES ASSUME NEW v \in Worker
               PROVE  /\ \A i \in DOMAIN rows'[v] :
                           rows'[v][i].after = RowBefore(v, i)' + rows'[v][i].amount
                      /\ owed'[v] = RowBefore(v, Len(rows[v]) + 1)'
    BY DEF LedgerChain
  <2>0. /\ \A i \in DOMAIN rows[v] : rows[v][i].after = RowBefore(v, i) + rows[v][i].amount
        /\ owed[v] = RowBefore(v, Len(rows[v]) + 1)
    BY DEF LedgerInv, LedgerChain
  <2>1. CASE v # w
    BY <1>5, <2>0, <2>1 DEF RowBefore
  <2>2. CASE v = w
    <3>0. PICK n \in Nat : n = Len(rows[w]) BY <1>5
    <3>1. ASSUME NEW i \in 1..(n + 1) PROVE RowBefore(w, i)' = RowBefore(w, i)
      <4>1. i # 1 => i - 1 \in DOMAIN rows[w] BY <1>5, <3>0
      <4>2. i # 1 => rows'[w][i - 1] = rows[w][i - 1] BY <1>5, <4>1
      <4> QED BY <4>2 DEF RowBefore
    <3>2. owed[w] = RowBefore(w, n + 1) BY <2>0, <2>2, <3>0
    <3>3. ASSUME NEW i \in DOMAIN rows'[w]
          PROVE  rows'[w][i].after = RowBefore(w, i)' + rows'[w][i].amount
      <4>1. CASE i \in 1..n BY <1>5, <2>0, <2>2, <3>0, <3>1, <4>1
      <4>2. CASE i = n + 1 BY <1>2, <1>5, <3>0, <3>1, <3>2, <4>2
      <4> QED BY <1>5, <3>0, <4>1, <4>2
    <3>4. owed'[w] = RowBefore(w, Len(rows[w]) + 1)' BY <1>2, <1>5, <3>0 DEF RowBefore
    <3> QED BY <2>2, <3>3, <3>4
  <2> QED BY <2>1, <2>2
<1>7. DebtIsForced'
  <2> SUFFICES ASSUME NEW v \in Worker, owed'[v] < 0
               PROVE  \E i \in DOMAIN rows'[v] : rows'[v][i].cause = "forced"
    BY DEF DebtIsForced
  <2>0. owed[v] < 0 => \E i \in DOMAIN rows[v] : rows[v][i].cause = "forced"
    BY DEF LedgerInv, DebtIsForced
  <2>1. CASE v # w BY <1>5, <2>0, <2>1
  <2>2. CASE v = w /\ owed[w] < 0 BY <1>5, <2>0, <2>2
  <2>3. CASE v = w /\ owed[w] >= 0
    <3>1. cause = "forced" BY <1>1, <1>5, <2>3
    <3> QED BY <1>2, <1>5, <2>3, <3>1
  <2> QED BY <1>1, <2>1, <2>2, <2>3
<1>8. BonusPaidOnce'
  <2> SUFFICES ASSUME NEW u \in Worker, NEW v \in Worker,
                      NEW i \in DOMAIN rows'[u], NEW j \in DOMAIN rows'[v],
                      rows'[u][i].cause \in BonusKey, rows'[u][i].cause = rows'[v][j].cause
               PROVE  u = v /\ i = j
    BY DEF BonusPaidOnce
  <2> DEFINE New(x, k) == x = w /\ k = Len(rows[w]) + 1
  <2>1. ASSUME NEW x \in Worker, NEW k \in DOMAIN rows'[x], ~New(x, k)
        PROVE  k \in DOMAIN rows[x] /\ rows'[x][k] = rows[x][k]
    BY <1>5, <2>1
  <2>2. ASSUME NEW x \in Worker, NEW k \in DOMAIN rows'[x], New(x, k) PROVE rows'[x][k].cause = cause
    BY <1>2, <1>5, <2>2
  <2>3. ASSUME NEW x \in Worker, NEW k \in DOMAIN rows[x], cause \in BonusKey
        PROVE  rows[x][k].cause # cause
    BY <2>3 DEF FreshKey, AllRows
  <2>4. CASE New(u, i) /\ New(v, j) BY <2>4
  <2>5. CASE New(u, i) /\ ~New(v, j)
    <3>1. cause \in BonusKey /\ rows[v][j].cause = cause /\ j \in DOMAIN rows[v] BY <2>1, <2>2, <2>5
    <3> QED BY <2>3, <3>1
  <2>6. CASE ~New(u, i) /\ New(v, j)
    <3>1. cause \in BonusKey /\ rows[u][i].cause = cause /\ i \in DOMAIN rows[u] BY <2>1, <2>2, <2>6
    <3> QED BY <2>3, <3>1
  <2>7. CASE ~New(u, i) /\ ~New(v, j)
    <3>1. /\ i \in DOMAIN rows[u] /\ j \in DOMAIN rows[v]
          /\ rows[u][i].cause \in BonusKey /\ rows[u][i].cause = rows[v][j].cause
      BY <2>1, <2>7
    <3> QED BY <3>1 DEF LedgerInv, BonusPaidOnce
  <2> QED BY <2>4, <2>5, <2>6, <2>7
<1> QED BY <1>4, <1>6, <1>7, <1>8 DEF LedgerInv

(* The earning of an acceptance, whatever its length, keeps the ledger sound. *)
LEMMA EarnForKeepsLedger ==
  ASSUME LedgerInv, NEW w \in Worker, NEW a \in Asg, NEW cm \in Nat, EarnFor(w, a, cm)
  PROVE  LedgerInv'
<1> DEFINE earned == EarningFor(CurrentRate, cm)
<1>1. earned \in Nat BY CurrentRateIsRate, EarningIsNat DEF LedgerInv
<1>2. CASE earned > 0
  <2>1. ApplyEntry(w, "EARNING", earned, a) /\ UNCHANGED rates BY <1>2 DEF EarnFor
  <2>2. a \notin BonusKey BY LedgerAssumption
  <2> HIDE DEF earned
  <2> QED BY <1>1, <2>1, <2>2, ApplyEntryKeepsLedger
<1>3. CASE ~(earned > 0)
  <2>1. UNCHANGED <<owed, rows, rates>> BY <1>3 DEF EarnFor, ledgerVars
  <2> QED BY <2>1 DEF LedgerInv, LedgerTypeOK, LedgerChain, DebtIsForced, BonusPaidOnce, RowBefore
<1> QED BY <1>2, <1>3

(* So does everything the ledger does by itself. *)
LEMMA LedgerStep ==
  ASSUME LedgerInv, [LedgerNext]_ledgerVars
  PROVE  LedgerInv'
<1>1. ASSUME NEW w \in Worker, NEW amount \in Amount, NEW forced \in BOOLEAN, Payout(w, amount, forced)
      PROVE  LedgerInv'
  <2> DEFINE cause == IF forced THEN "forced" ELSE "cash"
  <2>1. amount \in Nat /\ -amount \in Int BY LedgerAssumption
  <2>2. owed[w] \in Int BY DEF LedgerInv, LedgerTypeOK
  <2>3. owed[w] + (-amount) >= 0 \/ cause = "forced" BY <1>1, <2>1, <2>2 DEF Payout, CanPay
  <2>4. cause \in {"cash", "forced"} OBVIOUS
  <2>5. cause \notin BonusKey BY <2>4, LedgerAssumption
  <2>6. ApplyEntry(w, "PAYOUT_CASH", -amount, cause) /\ UNCHANGED rates BY <1>1 DEF Payout
  <2> HIDE DEF cause
  <2> QED BY <2>1, <2>3, <2>4, <2>5, <2>6, ApplyEntryKeepsLedger
<1>2. ASSUME NEW w \in Worker, NEW key \in BonusKey, Bonus(w, key) PROVE LedgerInv'
  <2>1. BonusSum \in Int /\ BonusSum >= 0 BY LedgerAssumption
  <2>2. FreshKey(w, key) /\ ApplyEntry(w, "BONUS", BonusSum, key) /\ UNCHANGED rates BY <1>2 DEF Bonus
  <2> QED BY <2>1, <2>2, ApplyEntryKeepsLedger
<1>3. ASSUME NEW rate \in Rate, ChangeRate(rate) PROVE LedgerInv'
  <2>0. rates \in Seq(Rate) /\ rates' = Append(rates, rate) BY <1>3 DEF ChangeRate, LedgerInv, LedgerTypeOK
  <2>1. rates' \in Seq(Rate) /\ rates' # <<>> BY <2>0
  <2>2. UNCHANGED <<owed, rows>> BY <1>3 DEF ChangeRate
  <2> QED BY <2>1, <2>2 DEF LedgerInv, LedgerTypeOK, LedgerChain, DebtIsForced, BonusPaidOnce, RowBefore
<1>4. CASE UNCHANGED ledgerVars
  BY <1>4 DEF ledgerVars, LedgerInv, LedgerTypeOK, LedgerChain, DebtIsForced, BonusPaidOnce, RowBefore
<1> QED BY <1>1, <1>2, <1>3, <1>4 DEF LedgerNext

(* An empty ledger owes nobody anything. *)
LEMMA LedgerStart == LedgerInit => LedgerInv
<1> SUFFICES ASSUME LedgerInit PROVE LedgerInv OBVIOUS
<1>1. owed = [w \in Worker |-> 0] /\ rows = [w \in Worker |-> <<>>] BY DEF LedgerInit
<1>2. rates \in Seq(Rate) /\ rates # <<>> BY DEF LedgerInit
<1>3. ASSUME NEW w \in Worker
      PROVE  /\ owed[w] = 0
             /\ rows[w] = <<>> /\ Len(rows[w]) = 0 /\ DOMAIN rows[w] = {}
  <2>1. rows[w] = <<>> /\ owed[w] = 0 BY <1>1
  <2>2. Len(<<>>) = 0 /\ DOMAIN <<>> = {} OBVIOUS
  <2> QED BY <2>1, <2>2
<1>4. LedgerTypeOK BY <1>1, <1>2 DEF LedgerTypeOK
<1>5. LedgerChain
  <2>1. ASSUME NEW w \in Worker
        PROVE  owed[w] = RowBefore(w, Len(rows[w]) + 1)
    BY <1>3 DEF RowBefore
  <2> QED BY <1>3, <2>1 DEF LedgerChain
<1>6. DebtIsForced /\ BonusPaidOnce BY <1>3 DEF DebtIsForced, BonusPaidOnce
<1> QED BY <1>4, <1>5, <1>6 DEF LedgerInv

(* worker_ledger_transactions and worker_profiles.balance never disagree,  *)
(* debt comes from forced payouts alone, and no bonus key pays twice.      *)
THEOREM LedgerIsSound ==
  LedgerSpec => [](LedgerTypeOK /\ LedgerChain /\ DebtIsForced /\ BonusPaidOnce)
<1>1. LedgerInit => LedgerInv BY LedgerStart
<1>2. LedgerInv /\ [LedgerNext]_ledgerVars => LedgerInv' BY LedgerStep
<1>3. LedgerInv => LedgerTypeOK /\ LedgerChain /\ DebtIsForced /\ BonusPaidOnce BY DEF LedgerInv
<1> QED BY <1>1, <1>2, <1>3, PTL DEF LedgerSpec

(* An unbroken chain of rows ends in their sum.                            *)
LEMMA ChainIsSum ==
  ASSUME LedgerTypeOK, LedgerChain
  PROVE  BalanceIsSum
<1> SUFFICES ASSUME NEW w \in Worker
             PROVE  owed[w] = SumFunction([i \in DOMAIN rows[w] |-> rows[w][i].amount])
  BY DEF BalanceIsSum
<1>1. PICK n, f : n = Len(rows[w]) /\ f = [i \in DOMAIN rows[w] |-> rows[w][i].amount] OBVIOUS
<1>2. rows[w] \in Seq(LedgerRow) BY DEF LedgerTypeOK
<1>3. n \in Nat /\ DOMAIN rows[w] = 1..n BY <1>1, <1>2
<1>b. \A i \in 1..n : rows[w][i].amount \in Int
  <2>1. \A i \in 1..n : rows[w][i] \in LedgerRow BY <1>2, <1>3
  <2>2. \A row \in LedgerRow : row.amount \in Int BY DEF LedgerRow
  <2> QED BY <2>1, <2>2
<1>c. f = [i \in 1..n |-> rows[w][i].amount] BY <1>1, <1>3
<1>4. f \in [1..n -> Int] /\ DOMAIN f = 1..n /\ \A i \in 1..n : f[i] = rows[w][i].amount
  BY <1>b, <1>c
<1>5. IsFiniteSet(1..n) BY <1>3, FS_Interval
<1>6. PICK F : AddsUp(f, F, SUBSET (1..n)) /\ SumFunction(f) = F[1..n] BY <1>4, <1>5, SumAddsUp
<1>7. \A s \in SUBSET (1..n) : F[s] \in Int /\ \A x \in s : F[s] = f[x] + F[s \ {x}]
  <2>1. PICK S : S = 1..n OBVIOUS
  <2>2. IsFiniteSet(S) /\ f \in [S -> Int] /\ AddsUp(f, F, SUBSET S) BY <1>4, <1>5, <1>6, <2>1
  <2>3. \A s \in SUBSET S : F[s] \in Int /\ \A x \in s : F[s] = f[x] + F[s \ {x}]
    BY <2>2, TakeAny
  <2> QED BY <2>1, <2>3
<1> DEFINE Bad == {k \in 0..n : F[1..k] # RowBefore(w, k + 1)}
<1>8. Bad = {}
  <2> SUFFICES ASSUME Bad # {} PROVE FALSE OBVIOUS
  <2>1. Bad \in SUBSET Nat OBVIOUS
  <2>a. PICK k \in Bad : \A y \in Bad : k <= y BY <2>1, LeastNatural
  <2>2. k - 1 \notin Bad BY <2>1, <2>a
  <2>3. k \in 0..n /\ F[1..k] # RowBefore(w, k + 1) OBVIOUS
  <2>4. CASE k = 0
    <3>1. 1..k = {} /\ {} \in SUBSET (1..n) BY <2>4
    <3>a. \A s \in SUBSET (1..n) : F[s] = IF s = {} THEN 0 ELSE f[AnyOf(s)] + F[s \ {AnyOf(s)}]
      BY <1>6 DEF AddsUp
    <3>2. F[{}] = 0 BY <3>1, <3>a
    <3>3. RowBefore(w, k + 1) = 0 BY <2>4 DEF RowBefore
    <3> QED BY <2>3, <3>1, <3>2, <3>3
  <2>5. CASE k # 0
    <3>1. k \in 1..n /\ k - 1 \in 0..n /\ (k - 1) + 1 = k BY <1>3, <2>3, <2>5
    <3>2. F[1..(k - 1)] = RowBefore(w, k) BY <2>2, <3>1
    <3>3. 1..k \in SUBSET (1..n) /\ k \in 1..k /\ (1..k) \ {k} = 1..(k - 1) BY <1>3, <3>1
    <3>b. PICK t, u : t = 1..k /\ u = 1..(k - 1) OBVIOUS
    <3>c. t \in SUBSET (1..n) /\ k \in t /\ t \ {k} = u BY <3>3, <3>b
    <3>4. F[t] = f[k] + F[u] BY <1>7, <3>c
    <3>5. /\ rows[w][k].after = RowBefore(w, k) + rows[w][k].amount
          /\ F[1..(k - 1)] \in Int
      BY <1>3, <1>7, <3>1 DEF LedgerChain
    <3>6. RowBefore(w, k + 1) = rows[w][k].after BY <3>1 DEF RowBefore
    <3>7. f[k] = rows[w][k].amount /\ f[k] \in Int BY <1>4, <3>1
    <3> QED BY <2>3, <3>2, <3>4, <3>5, <3>6, <3>7, <3>b
  <2> QED BY <2>4, <2>5
<1>9. owed[w] = RowBefore(w, n + 1) BY <1>1 DEF LedgerChain
<1>10. n \in 0..n BY <1>3
<1>11. F[1..n] = RowBefore(w, n + 1) BY <1>8, <1>10
<1> QED BY <1>1, <1>6, <1>9, <1>11

(* The balance on the profile is the sum of the ledger, whatever is earned *)
(* and paid, in whatever order: ledger_balance_mismatches stays empty.     *)
THEOREM BalanceIsTheSum == LedgerSpec => []BalanceIsSum
<1>1. LedgerTypeOK /\ LedgerChain => BalanceIsSum BY ChainIsSum
<1> QED BY <1>1, LedgerIsSound, PTL

-----------------------------------------------------------------------------
(* The assignments. *)

(* What a handler remembers between its two steps. *)
HandlerOK(h) ==
  /\ h.op = "create" => /\ h.worker \in Worker /\ h.req \in Request \cup {NoRequest}
                        /\ h.kits \in KitCounts
  /\ h.op \in {"scan", "progress", "ready", "pickup", "accept"} => h.asg \in Asg
  /\ h.op \in {"progress", "ready", "pickup"} => h.cm \in Nat
  /\ h.op = "progress" => h.id \in ReportId
  /\ h.op = "accept" => /\ h.accepted \in Nat /\ h.defective \in Nat
                        /\ h.verdict \in {"COMPLETED", "PARTIALLY_ACCEPTED", "REWORK_REQUIRED"}
  /\ h.op = "setStatus" => h.worker \in Worker /\ h.status \in WorkerStatus
  /\ h.op \in {"request", "withdraw", "reject"} => h.req \in Request

HandlersOK == DOMAIN inflight = Client /\ \A c \in Client : HandlerOK(inflight[c])

(* The types of the tables and of the handlers in flight. *)
TypeInv == AssignmentTypeOK /\ HandlersOK

(* Start and Finish touch one slot. *)
LEMMA StartKeepsHandlers ==
  ASSUME HandlersOK, NEW c \in Client, NEW h, HandlerOK(h), Start(c, h)
  PROVE  HandlersOK'
BY DEF HandlersOK, Start

(* A handler that ends, by commit or by failure, leaves the other slots. *)
LEMMA FinishKeepsHandlers ==
  ASSUME HandlersOK, NEW c \in Client, Finish(c)
  PROVE  HandlersOK'
<1>1. HandlerOK(NoHandler) BY DEF HandlerOK, NoHandler
<1> QED BY <1>1 DEF HandlersOK, Finish

-----------------------------------------------------------------------------
(* A well-formed stock movement. *)
Move == [type : MovementType, quantity : Nat, warehouse : Int, worker : Int]

(* One transaction's movements, whichever they are, leave a typed stock    *)
(* and add to one total per material.                                      *)
LEMMA RecordMovementsType ==
  ASSUME StockTypeOK, NEW s \in Source, NEW w \in Worker, NEW moves \in [Material -> Move],
         RecordMovements(s, w, moves)
  PROVE  /\ shelf' \in [Material -> Nat]
         /\ home' \in [Worker -> [Material -> Nat]]
         /\ moved' \in [Source -> [Material -> [MovementType -> Nat]]]
         /\ \A x \in Source, m \in Material, t \in MovementType :
              moved'[x][m][t] = IF x = s /\ t = moves[m].type
                                  THEN moved[x][m][t] + moves[m].quantity ELSE moved[x][m][t]
<1>0. \A m \in Material : /\ moves[m].type \in MovementType /\ moves[m].quantity \in Nat
                          /\ moves[m].warehouse \in Int /\ moves[m].worker \in Int
  BY DEF Move
<1>1. \A m \in Material : /\ shelf[m] \in Nat /\ home[w][m] \in Nat
                          /\ shelf[m] + moves[m].warehouse \in Nat
                          /\ home[w][m] + moves[m].worker \in Nat
  BY <1>0 DEF RecordMovements, Enough, StockTypeOK
<1>2. shelf' \in [Material -> Nat] BY <1>1 DEF RecordMovements
<1>3. home' \in [Worker -> [Material -> Nat]] BY <1>1 DEF RecordMovements, StockTypeOK
<1> DEFINE new == [m \in Material |-> [moved[s][m] EXCEPT ![moves[m].type] = @ + moves[m].quantity]]
<1>4. moved' = [moved EXCEPT ![s] = new] BY DEF RecordMovements
<1>5. \A x \in Source, m \in Material : moved[x][m] \in [MovementType -> Nat] BY DEF StockTypeOK
<1>6. ASSUME NEW m \in Material
      PROVE  /\ new[m] \in [MovementType -> Nat]
             /\ \A t \in MovementType :
                  new[m][t] = IF t = moves[m].type THEN moved[s][m][t] + moves[m].quantity
                                                   ELSE moved[s][m][t]
  BY <1>0, <1>5
<1>7. new \in [Material -> [MovementType -> Nat]] BY <1>6
<1> HIDE DEF new
<1>8. /\ moved' \in [Source -> [Material -> [MovementType -> Nat]]]
      /\ \A x \in Source : moved'[x] = IF x = s THEN new ELSE moved[x]
  BY <1>4, <1>7 DEF StockTypeOK
<1> QED BY <1>2, <1>3, <1>6, <1>8

(* A movement staff enters by hand belongs to no work. *)
LEMMA ManualType ==
  ASSUME StockTypeOK, NEW m \in Material, NEW movement \in Move, RecordManual(m, movement)
  PROVE  /\ shelf' \in [Material -> Nat]
         /\ home' \in [Worker -> [Material -> Nat]]
         /\ moved' \in [Source -> [Material -> [MovementType -> Nat]]]
         /\ \A a \in Asg : moved'[a] = moved[a]
<1>1. NoMovement \in Move BY DEF NoMovement, Movement, Move, MovementType
<1> DEFINE moves == [x \in Material |-> IF x = m THEN movement ELSE NoMovement]
<1>2. moves \in [Material -> Move] BY <1>1
<1>3. PICK w \in Worker : RecordMovements(NoAsg, w, moves) BY DEF RecordManual
<1>4. NoAsg \in Source /\ NoAsg \notin Asg BY StockAssumption DEF Source
<1>5. \A a \in Asg : moved'[a] = moved[a] BY <1>3, <1>4 DEF RecordMovements, StockTypeOK, Source
<1> HIDE DEF moves
<1> QED BY <1>2, <1>3, <1>4, <1>5, RecordMovementsType

(* Whatever the stock does on its own - receipts, adjustments, write-offs, *)
(* assembling - it keeps its types and moves nothing in the name of a work. *)
LEMMA StockStep ==
  ASSUME StockTypeOK, HandlersOK, StockNext
  PROVE  /\ StockTypeOK' /\ HandlersOK'
         /\ \A a \in Asg : moved'[a] = moved[a]
<1>0. /\ MovementType = {"RECEIPT", "ISSUE_TO_KIT", "ISSUE_TO_WORKER", "RETURN_FROM_WORKER",
                 "CONSUMPTION", "WRITE_OFF", "ADJUSTMENT_IN", "ADJUSTMENT_OUT"}
      /\ MaxManual \in Nat
  BY StockAssumption DEF MovementType
<1>1. ASSUME NEW m \in Material, NEW q \in 1..MaxManual,
             Receipt(m, q) \/ AdjustIn(m, q) \/ AdjustOut(m, q) \/ WriteOff(m, q)
      PROVE  /\ StockTypeOK' /\ HandlersOK' /\ \A a \in Asg : moved'[a] = moved[a]
  <2>1. /\ Movement("RECEIPT", q, q, 0) \in Move /\ Movement("ADJUSTMENT_IN", q, q, 0) \in Move
        /\ Movement("ADJUSTMENT_OUT", q, -q, 0) \in Move /\ Movement("WRITE_OFF", q, -q, 0) \in Move
    BY <1>0 DEF Move, Movement
  <2>2. PICK movement \in Move : RecordManual(m, movement)
    BY <1>1, <2>1 DEF Receipt, AdjustIn, AdjustOut, WriteOff
  <2>3. UNCHANGED <<material, inflight>> BY <1>1 DEF Receipt, AdjustIn, AdjustOut, WriteOff
  <2>4. HandlersOK' BY <2>3 DEF HandlersOK
  <2> QED BY <2>2, <2>3, <2>4, ManualType DEF StockTypeOK
<1>2. CASE Assemble(1)
  <2>1. IssueToKit(1) \in [Material -> Move]
    BY <1>0, StockAssumption DEF IssueToKit, Move, Movement, NoMovement
  <2>2. PICK w \in Worker : RecordMovements(NoAsg, w, IssueToKit(1)) BY <1>2 DEF Assemble
  <2>3. NoAsg \in Source /\ NoAsg \notin Asg BY StockAssumption DEF Source
  <2>4. \A a \in Asg : moved'[a] = moved[a] BY <2>2, <2>3 DEF RecordMovements, StockTypeOK, Source
  <2>5. HandlersOK' /\ material' = material BY <1>2 DEF Assemble, HandlersOK
  <2> QED BY <2>1, <2>2, <2>3, <2>4, <2>5, RecordMovementsType DEF StockTypeOK
<1>3. ASSUME NEW c \in Client, AbandonStock(c)
      PROVE  StockTypeOK' /\ HandlersOK' /\ \A a \in Asg : moved'[a] = moved[a]
  <2>1. HandlersOK' BY <1>3, FinishKeepsHandlers DEF AbandonStock, Abandon
  <2> QED BY <1>3, <2>1 DEF AbandonStock, stockVars, StockTypeOK
<1> QED BY <1>1, <1>2, <1>3 DEF StockNext

(* Job requests and worker statuses keep their types, whoever answers      *)
(* first.                                                                  *)
LEMMA JobStepTypes ==
  ASSUME JobTypeOK, HandlersOK, NEW c \in Client, JobStep(c)
  PROVE  JobTypeOK' /\ HandlersOK'
<1>1. ASSUME NEW r \in Request, RequestBegin(c, r) \/ WithdrawBegin(c, r) \/ RejectBegin(c, r)
      PROVE  JobTypeOK' /\ HandlersOK'
  <2>1. PICK op \in {"request", "withdraw", "reject"} : Start(c, [op |-> op, req |-> r])
    BY <1>1 DEF RequestBegin, WithdrawBegin, RejectBegin
  <2>2. HandlerOK([op |-> op, req |-> r]) BY DEF HandlerOK
  <2>3. UNCHANGED jobVars BY <1>1 DEF RequestBegin, WithdrawBegin, RejectBegin
  <2> QED BY <2>1, <2>2, <2>3, StartKeepsHandlers DEF jobVars, JobTypeOK
<1>2. ASSUME NEW w \in Managed, NEW s \in WorkerStatus, SetStatusBegin(c, w, s)
      PROVE  JobTypeOK' /\ HandlersOK'
  <2>1. HandlerOK([op |-> "setStatus", worker |-> w, status |-> s])
    BY JobRequestAssumption DEF HandlerOK
  <2> QED BY <1>2, <2>1, StartKeepsHandlers DEF SetStatusBegin, jobVars, JobTypeOK
<1>3. CASE RequestCommit(c) \/ WithdrawCommit(c) \/ RejectCommit(c)
  <2>1. HandlersOK' BY <1>3, FinishKeepsHandlers DEF RequestCommit, WithdrawCommit, RejectCommit
  <2>2. UNCHANGED workerStatus BY <1>3 DEF RequestCommit, WithdrawCommit, RejectCommit
  <2>3. \E s \in RequestStatus : request' = [request EXCEPT ![inflight[c].req] = s]
    BY <1>3 DEF RequestCommit, WithdrawCommit, RejectCommit, RequestStatus
  <2> QED BY <2>1, <2>2, <2>3 DEF JobTypeOK
<1>4. CASE SetStatusCommit(c)
  <2>1. HandlersOK' BY <1>4, FinishKeepsHandlers DEF SetStatusCommit
  <2>2. inflight[c].status \in WorkerStatus BY <1>4 DEF SetStatusCommit, Running, HandlersOK, HandlerOK
  <2> QED BY <1>4, <2>1, <2>2 DEF SetStatusCommit, JobTypeOK
<1> QED BY <1>1, <1>2, <1>3, <1>4 DEF JobStep

-----------------------------------------------------------------------------
(* Custody has moved to the worker, or the work is over. *)
Begun(a) == Status(a) \notin {"NONE", "READY_TO_DELIVER"}

(* Handoffs and the delivery of one work. *)
HandoffSound(a) ==
  /\ \A i \in Awaiting(a) : Status(a) = "READY_TO_DELIVER" /\ qrLive[a] /\ i = Len(handoffs[a])
  /\ \A i, j \in Confirmed(a) : i = j
  /\ Confirmed(a) # {} => Begun(a) /\ dropoff[a] = "COMPLETED"
  /\ Status(a) = "READY_TO_DELIVER" => dropoff[a] = "PENDING"

(* What the movements of one work say is at the worker's home. *)
CustodySound(a) ==
  \A m \in Material :
    /\ Status(a) = "IN_PROGRESS" => HeldFor(a, m) = KitQuantity(a, m)
    /\ Status(a) = "READY_FOR_PICKUP" => HeldFor(a, m) \in {0, KitQuantity(a, m)}
    /\ Status(a) \notin {"IN_PROGRESS", "READY_FOR_PICKUP"} => HeldFor(a, m) = 0
    /\ moved[a][m]["ISSUE_TO_WORKER"] = IF Confirmed(a) = {} THEN 0 ELSE KitQuantity(a, m)

(* Pickups of a waiting work and of a cancelled one. *)
ClosingSound(a) ==
  /\ Status(a) = "READY_FOR_PICKUP" => \E i \in DOMAIN pickups[a] : pickups[a][i] = "PENDING"
  /\ Status(a) = "CANCELLED" => /\ ~qrLive[a] /\ dropoff[a] # "PENDING"
                                /\ \A i \in DOMAIN pickups[a] : pickups[a][i] # "PENDING"

(* The metres of one work. *)
MetersSound(a) ==
  /\ work[a].accepted + work[a].defective <= work[a].delivered
  /\ work[a].delivered <= PlannedCm(a)
  /\ work[a].reported <= PlannedCm(a)

(* One work at rest. *)
Sound(a) == HandoffSound(a) /\ CustodySound(a) /\ ClosingSound(a) /\ MetersSound(a)

(* A handler that comes late finds work that has begun, of the size it     *)
(* checked; a late acceptance finds the worker's hands empty.              *)
LateOK(h) ==
  /\ h.op \in {"progress", "ready", "pickup"} => Begun(h.asg) /\ h.cm <= PlannedCm(h.asg)
  /\ h.op = "accept" => /\ Begun(h.asg) /\ Status(h.asg) # "IN_PROGRESS"
                        /\ \A m \in Material : HeldFor(h.asg, m) = 0

AllLateOK == \A c \in Client : LateOK(inflight[c])

(* What no step takes back. *)
Forward(a) ==
  Begun(a) =>
    /\ Begun(a)' /\ work'[a].kits = work[a].kits
    /\ Status(a) # "IN_PROGRESS" =>
         /\ Status(a)' # "IN_PROGRESS"
         /\ \A m \in Material : HeldFor(a, m) = 0 => HeldFor(a, m)' = 0

(* No step touched this work. *)
Same(a) == /\ work'[a] = work[a] /\ qrLive'[a] = qrLive[a] /\ dropoff'[a] = dropoff[a]
           /\ pickups'[a] = pickups[a] /\ handoffs'[a] = handoffs[a] /\ moved'[a] = moved[a]

(* A step that takes nothing back leaves a late handler what it relies on. *)
LEMMA ForwardKeepsLate ==
  ASSUME NEW h, HandlerOK(h), LateOK(h), \A a \in Asg : Forward(a)
  PROVE  LateOK(h)'
<1>1. CASE h.op \in {"progress", "ready", "pickup"}
  BY <1>1 DEF HandlerOK, LateOK, Forward, PlannedCm
<1>2. CASE h.op = "accept"
  BY <1>2 DEF HandlerOK, LateOK, Forward
<1>3. CASE h.op \notin {"progress", "ready", "pickup", "accept"} BY <1>3 DEF LateOK
<1> QED BY <1>1, <1>2, <1>3

(* A work no column of which changes stays sound. *)
LEMMA SameKeepsSound ==
  ASSUME NEW a \in Asg, Sound(a), Same(a)
  PROVE  Sound(a)' /\ Forward(a)
<1>1. /\ Status(a)' = Status(a) /\ Begun(a)' = Begun(a) /\ PlannedCm(a)' = PlannedCm(a)
      /\ Awaiting(a)' = Awaiting(a) /\ Confirmed(a)' = Confirmed(a)
      /\ \A m \in Material : HeldFor(a, m)' = HeldFor(a, m) /\ KitQuantity(a, m)' = KitQuantity(a, m)
  BY DEF Same, Status, Begun, PlannedCm, Awaiting, Confirmed, HeldFor, KitQuantity
<1>2. HandoffSound(a)' BY <1>1 DEF Same, Sound, HandoffSound
<1>3. CustodySound(a)' BY <1>1 DEF Same, Sound, CustodySound
<1>4. ClosingSound(a)' BY <1>1 DEF Same, Sound, ClosingSound
<1>5. MetersSound(a)' BY <1>1 DEF Same, Sound, MetersSound
<1> QED BY <1>1, <1>2, <1>3, <1>4, <1>5 DEF Sound, Forward, Same

(* The inductive invariant. *)
Inv == TypeInv /\ LedgerInv /\ AllLateOK /\ \A a \in Asg : Sound(a)

(* A request that starts changes no work. *)
LEMMA BeginKeepsInv ==
  ASSUME Inv,
         NEW c \in Client, NEW h, HandlerOK(h), LateOK(h), AsgBegin(c, h)
  PROVE  Inv'
<1>1. UNCHANGED <<work, qrLive, dropoff, pickups, handoffs, progressed, stockVars, ledgerVars, jobVars>>
  BY DEF AsgBegin, workVars
<1>2. \A a \in Asg : Same(a) BY <1>1 DEF Same, stockVars
<1>3. HandlersOK' BY StartKeepsHandlers DEF AsgBegin, Inv, TypeInv
<1>4. AssignmentTypeOK'
  BY <1>1 DEF Inv, TypeInv, AssignmentTypeOK, stockVars, StockTypeOK, ledgerVars, LedgerTypeOK,
              jobVars, JobTypeOK
<1>5. \A a \in Asg : Sound(a)' /\ Forward(a) BY <1>2, SameKeepsSound DEF Inv
<1>6. \A d \in Client : inflight'[d] = IF d = c THEN h ELSE inflight[d]
  BY DEF AsgBegin, Start, Inv, TypeInv, HandlersOK
<1>7. \A d \in Client : HandlerOK(inflight'[d]) /\ LateOK(inflight'[d])
  BY <1>6 DEF Inv, TypeInv, HandlersOK, AllLateOK
<1>8. AllLateOK' BY <1>5, <1>6, <1>7, ForwardKeepsLate DEF AllLateOK, Inv, TypeInv, HandlersOK
<1>9. LedgerInv' BY <1>1, LedgerStep DEF Inv
<1> QED BY <1>3, <1>4, <1>5, <1>8, <1>9 DEF Inv, TypeInv

(* A step that changes one work only is judged by that work. *)
LEMMA OneWorkChanges ==
  ASSUME \A b \in Asg : Sound(b), NEW a \in Asg, Sound(a)', Forward(a),
         \A b \in Asg \ {a} : Same(b)
  PROVE  \A b \in Asg : Sound(b)' /\ Forward(b)
BY SameKeepsSound

(* The frame of every commit: the slot becomes free, and the works are     *)
(* sound and have moved forward.                                           *)
LEMMA CommitKeepsInv ==
  ASSUME Inv, NEW c \in Client, Finish(c), AssignmentTypeOK', LedgerInv' \/ UNCHANGED ledgerVars,
         \A a \in Asg : Sound(a)' /\ Forward(a)
  PROVE  Inv'
<1>1. HandlersOK' BY FinishKeepsHandlers DEF Inv, TypeInv
<1>2. \A d \in Client : inflight'[d] = IF d = c THEN NoHandler ELSE inflight[d]
  BY DEF Finish, Inv, TypeInv, HandlersOK
<1>3. AllLateOK'
  <2> SUFFICES ASSUME NEW d \in Client PROVE LateOK(inflight[d])' BY DEF AllLateOK
  <2>1. CASE d = c BY <1>2, <2>1 DEF LateOK, NoHandler
  <2>2. CASE d # c
    <3>1. PICK h : h = inflight[d] OBVIOUS
    <3>2. LateOK(h)' BY <3>1, ForwardKeepsLate DEF Inv, TypeInv, HandlersOK, AllLateOK
    <3> QED BY <1>2, <2>2, <3>1, <3>2
  <2> QED BY <2>1, <2>2
<1>4. LedgerInv' BY LedgerStep DEF Inv
<1> QED BY <1>1, <1>3, <1>4 DEF Inv, TypeInv

(* The frame of every handler that is one transaction under the row lock. *)
LEMMA LockedKeepsInv ==
  ASSUME Inv, UNCHANGED inflight, AssignmentTypeOK', LedgerInv' \/ UNCHANGED ledgerVars,
         \A a \in Asg : Sound(a)' /\ Forward(a)
  PROVE  Inv'
<1>1. HandlersOK' BY DEF HandlersOK, Inv, TypeInv
<1>3. AllLateOK'
  <2> SUFFICES ASSUME NEW d \in Client PROVE LateOK(inflight[d])' BY DEF AllLateOK
  <2>1. PICK h : h = inflight[d] OBVIOUS
  <2>2. LateOK(h)' BY <2>1, ForwardKeepsLate DEF Inv, TypeInv, HandlersOK, AllLateOK
  <2> QED BY <2>1, <2>2
<1>4. LedgerInv' BY LedgerStep DEF Inv
<1> QED BY <1>1, <1>3, <1>4 DEF Inv, TypeInv

(* A row of work_assignments, and one of assignment_handoffs. *)
Row == [status : AssignmentStatus, req : Request \cup {NoRequest},
        kits : Nat, reported : Nat, delivered : Nat,
        accepted : Nat, defective : Nat, rate : Nat, pay : Nat]
Handoff == [state : HandoffState, lapsed : BOOLEAN, scanned : BOOLEAN]

(* What the type invariant says of one assignment. *)
LEMMA WorkTypes ==
  ASSUME AssignmentTypeOK, NEW a \in Asg
  PROVE  /\ work[a] \in Row
         /\ work[a].status \in AssignmentStatus /\ work[a].req \in Request \cup {NoRequest}
         /\ work[a].kits \in Nat /\ work[a].reported \in Nat /\ work[a].delivered \in Nat
         /\ work[a].accepted \in Nat /\ work[a].defective \in Nat
         /\ work[a].rate \in Nat /\ work[a].pay \in Nat
         /\ PlannedCm(a) \in Nat
         /\ pickups[a] \in Seq(DeliveryStatus)
         /\ handoffs[a] \in Seq(Handoff)
         /\ \A m \in Material : KitQuantity(a, m) \in Nat /\ HeldFor(a, m) \in Int
         /\ \A m \in Material, t \in MovementType : moved[a][m][t] \in Nat
<1>1. /\ work[a].kits \in Nat /\ \A m \in Material : Recipe[m] \in Nat
      /\ KitCm \in Nat
  BY StockAssumption, LedgerAssumption DEF AssignmentTypeOK
<1>2. PlannedCm(a) \in Nat /\ \A m \in Material : KitQuantity(a, m) \in Nat
  BY <1>1 DEF PlannedCm, KitQuantity
<1>3. a \in Source BY DEF Source
<1>4. \A m \in Material, t \in MovementType : moved[a][m][t] \in Nat
  BY <1>3 DEF AssignmentTypeOK, StockTypeOK
<1>5. \A m \in Material : HeldFor(a, m) \in Int BY <1>4 DEF HeldFor, MovementType
<1> QED BY <1>2, <1>4, <1>5 DEF AssignmentTypeOK, Handoff, Row

(* Rows and deliveries that change keep the tables typed. *)
LEMMA TypesAfter ==
  ASSUME AssignmentTypeOK, NEW a \in Asg, NEW row \in Row, NEW hs \in Seq(Handoff),
         NEW ds \in Seq(DeliveryStatus), NEW qr \in BOOLEAN, NEW drop \in DeliveryStatus,
         work' = [work EXCEPT ![a] = row],
         handoffs' = handoffs \/ handoffs' = [handoffs EXCEPT ![a] = hs],
         pickups' = pickups \/ pickups' = [pickups EXCEPT ![a] = ds],
         qrLive' = qrLive \/ qrLive' = [qrLive EXCEPT ![a] = qr],
         dropoff' = dropoff \/ dropoff' = [dropoff EXCEPT ![a] = drop],
         progressed' \in [Asg -> SUBSET ReportId],
         StockTypeOK', LedgerTypeOK', JobTypeOK'
  PROVE  AssignmentTypeOK'
<1>1. work' \in [Asg -> Row]
  BY DEF AssignmentTypeOK, Row
<1>2. handoffs' \in [Asg -> Seq(Handoff)] BY DEF AssignmentTypeOK, Handoff
<1>3. pickups' \in [Asg -> Seq(DeliveryStatus)] BY DEF AssignmentTypeOK
<1>4. qrLive' \in [Asg -> BOOLEAN]
  <2>1. qrLive \in [Asg -> BOOLEAN] BY DEF AssignmentTypeOK
  <2>2. qrLive' = qrLive \/ qrLive' = [qrLive EXCEPT ![a] = qr] OBVIOUS
  <2>3. CASE qrLive' = qrLive BY <2>1, <2>3
  <2>4. CASE qrLive' = [qrLive EXCEPT ![a] = qr] BY <2>1, <2>4
  <2> QED BY <2>2, <2>3, <2>4
<1>5. dropoff' \in [Asg -> DeliveryStatus \cup {"NONE"}] BY DEF AssignmentTypeOK
<1> QED BY <1>1, <1>2, <1>3, <1>4, <1>5 DEF AssignmentTypeOK, Handoff, Row

-----------------------------------------------------------------------------
(* A movement of a known type with integer deltas is well formed. *)
LEMMA MovementIsMove ==
  ASSUME NEW type \in MovementType, NEW q \in Nat, NEW d \in Int, NEW e \in Int
  PROVE  /\ Movement(type, q, d, e) \in Move
         /\ Movement(type, q, d, e).type = type /\ Movement(type, q, d, e).quantity = q
BY DEF Movement, Move

(* The absent movement counts as an empty receipt. *)
LEMMA NoMovementIsMove ==
  NoMovement \in Move /\ NoMovement.type = "RECEIPT" /\ NoMovement.quantity = 0
BY MovementIsMove DEF NoMovement, MovementType

(* Kits are counted in natural numbers. *)
LEMMA KitCountIsNat == \A n \in KitCounts : n \in Nat
BY AssignmentAssumption

(* A product of natural numbers is one. *)
LEMMA NatTimesNat == \A n, k \in Nat : n * k \in Nat
OBVIOUS

(* Preparing a kit writes ISSUE_TO_KIT movements and no other. *)
LEMMA IssueToKitMoves ==
  ASSUME NEW count \in Nat
  PROVE  /\ IssueToKit(count) \in [Material -> Move]
         /\ \A m \in Material : IssueToKit(count)[m].type \in {"ISSUE_TO_KIT", "RECEIPT"}
<1>1. NoMovement \in Move /\ NoMovement.type = "RECEIPT"
  BY DEF NoMovement, Movement, Move, MovementType
<1>2. ASSUME NEW m \in Material
      PROVE  LET taken == Recipe[m] * count
             IN Movement("ISSUE_TO_KIT", taken, -taken, 0) \in Move
  <2>1. PICK taken : taken = Recipe[m] * count OBVIOUS
  <2>2. taken \in Nat BY <2>1, StockAssumption
  <2>3. Movement("ISSUE_TO_KIT", taken, -taken, 0) \in Move BY <2>2 DEF Movement, Move, MovementType
  <2> QED BY <2>1, <2>3
<1>3. \A m \in Material :
        IssueToKit(count)[m] = IF Recipe[m] = 0 THEN NoMovement
                               ELSE Movement("ISSUE_TO_KIT", Recipe[m] * count, -(Recipe[m] * count), 0)
  BY DEF IssueToKit
<1>4. \A m \in Material : IssueToKit(count)[m] \in Move BY <1>1, <1>2, <1>3
<1>5. \A q, d : Movement("ISSUE_TO_KIT", q, d, 0).type = "ISSUE_TO_KIT" BY DEF Movement
<1>6. \A m \in Material : IssueToKit(count)[m].type \in {"ISSUE_TO_KIT", "RECEIPT"}
  BY <1>1, <1>3, <1>5
<1>7. IssueToKit(count) = [m \in Material |-> IssueToKit(count)[m]] BY DEF IssueToKit
<1> QED BY <1>4, <1>6, <1>7

(* create: a fresh work, nothing of it at the worker's home yet. *)
LEMMA CreateKeepsInv ==
  ASSUME Inv, NEW c \in Client, CreateCommit(c)
  PROVE  Inv'
<1>0. AssignmentTypeOK /\ StockTypeOK BY DEF Inv, TypeInv, AssignmentTypeOK
<1> DEFINE made == inflight[c]
<1>1. made.op = "create" /\ made.worker \in Worker /\ made.kits \in KitCounts
      /\ made.req \in Request \cup {NoRequest}
  BY DEF CreateCommit, Running, Inv, TypeInv, HandlersOK, HandlerOK
<1> DEFINE row == [NoWork EXCEPT !.status = "READY_TO_DELIVER", !.req = made.req, !.kits = made.kits]
<1>2. PICK a \in Asg :
        /\ Status(a) = "NONE"
        /\ IF made.req = NoRequest THEN UNCHANGED jobVars ELSE Fulfil(made.req)
        /\ RecordMovements(a, made.worker, IssueToKit(made.kits))
        /\ qrLive' = [qrLive EXCEPT ![a] = TRUE]
        /\ dropoff' = [dropoff EXCEPT ![a] = "PENDING"]
        /\ work' = [work EXCEPT ![a] = row]
  BY DEF CreateCommit
<1>3. Finish(c) /\ UNCHANGED <<pickups, handoffs, progressed, material, ledgerVars>>
  BY DEF CreateCommit
<1>4. row \in Row /\ row.status = "READY_TO_DELIVER" /\ row.kits = made.kits
      /\ row.reported = 0 /\ row.delivered = 0 /\ row.accepted = 0 /\ row.defective = 0
  <2>1. PICK r1 : r1 = [NoWork EXCEPT !.status = "READY_TO_DELIVER"] OBVIOUS
  <2>2. r1 = [NoWork EXCEPT !.status = "READY_TO_DELIVER"] BY <2>1
  <2>3. /\ r1 \in Row /\ r1.status = "READY_TO_DELIVER" /\ r1.reported = 0 /\ r1.delivered = 0
        /\ r1.accepted = 0 /\ r1.defective = 0
    BY <2>2 DEF NoWork, Row, AssignmentStatus
  <2>4. PICK r2 : r2 = [r1 EXCEPT !.req = made.req] OBVIOUS
  <2>5. /\ r2 \in Row /\ r2.status = "READY_TO_DELIVER" /\ r2.reported = 0 /\ r2.delivered = 0
        /\ r2.accepted = 0 /\ r2.defective = 0
    BY <1>1, <2>3, <2>4 DEF Row
  <2>6. PICK r3 : r3 = [r2 EXCEPT !.kits = made.kits] OBVIOUS
  <2>7. made.kits \in Nat BY <1>1, KitCountIsNat
  <2>8. /\ r3 \in Row /\ r3.status = "READY_TO_DELIVER" /\ r3.kits = made.kits
        /\ r3.reported = 0 /\ r3.delivered = 0 /\ r3.accepted = 0 /\ r3.defective = 0
    BY <2>5, <2>6, <2>7 DEF Row
  <2>9. row = r3 BY <2>2, <2>4, <2>6, Zenon
  <2> QED BY <2>8, <2>9
<1>5. made.kits \in Nat BY <1>1, KitCountIsNat
<1>6. JobTypeOK'
  <2>1. CASE made.req = NoRequest BY <1>0, <1>2, <2>1 DEF AssignmentTypeOK, JobTypeOK, jobVars
  <2>2. CASE made.req # NoRequest
    BY <1>0, <1>1, <1>2, <2>2 DEF AssignmentTypeOK, JobTypeOK, Fulfil, RequestStatus
  <2> QED BY <2>1, <2>2
<1> DEFINE moves == IssueToKit(made.kits)
<1>7. moves \in [Material -> Move] /\ \A m \in Material : moves[m].type \in {"ISSUE_TO_KIT", "RECEIPT"}
  BY <1>5, IssueToKitMoves
<1>8. a \in Source BY DEF Source
<1> HIDE DEF made, row, moves
<1>9. /\ StockTypeOK'
      /\ \A b \in Asg, m \in Material, t \in MovementType :
           moved'[b][m][t] = IF b = a /\ t = moves[m].type
                               THEN moved[b][m][t] + moves[m].quantity ELSE moved[b][m][t]
  BY <1>0, <1>1, <1>2, <1>3, <1>7, <1>8, RecordMovementsType DEF StockTypeOK, Source, moves
<1>10. \A b \in Asg \ {a} : moved'[b] = moved[b]
  BY <1>0, <1>2, <1>8 DEF RecordMovements, StockTypeOK, Source
<1>11. AssignmentTypeOK'
  <2>1. LedgerTypeOK' BY <1>0, <1>3 DEF AssignmentTypeOK, LedgerTypeOK, ledgerVars
  <2>2. /\ TRUE \in BOOLEAN /\ "PENDING" \in DeliveryStatus
        /\ <<>> \in Seq(Handoff) /\ <<>> \in Seq(DeliveryStatus)
    BY DEF DeliveryStatus
  <2>3. progressed' \in [Asg -> SUBSET ReportId] BY <1>0, <1>3 DEF AssignmentTypeOK
  <2> QED BY <1>0, <1>2, <1>3, <1>4, <1>6, <1>9, <2>1, <2>2, <2>3, TypesAfter
<1>12. \A b \in Asg \ {a} : Same(b)
  BY <1>0, <1>2, <1>3, <1>10 DEF Same, AssignmentTypeOK
<1>13. Sound(a)' /\ Forward(a)
  <2>1. Sound(a) /\ Status(a)' = "READY_TO_DELIVER" /\ work'[a] = row
    BY <1>0, <1>2, <1>4 DEF Inv, Status, AssignmentTypeOK
  <2>2. /\ Awaiting(a) = {} /\ Confirmed(a) = {} /\ Awaiting(a)' = {} /\ Confirmed(a)' = {}
    BY <1>2, <1>3, <2>1 DEF Sound, HandoffSound, Begun, Awaiting, Confirmed
  <2>3. HandoffSound(a)' BY <1>0, <1>2, <2>1, <2>2 DEF HandoffSound, AssignmentTypeOK
  <2>4. \A m \in Material : HeldFor(a, m)' = HeldFor(a, m)
                            /\ moved'[a][m]["ISSUE_TO_WORKER"] = moved[a][m]["ISSUE_TO_WORKER"]
    BY <1>7, <1>9 DEF HeldFor, MovementType
  <2>5. CustodySound(a)' BY <1>2, <2>1, <2>2, <2>4 DEF Sound, CustodySound
  <2>6. ClosingSound(a)' BY <2>1 DEF ClosingSound
  <2>7. MetersSound(a)'
    <3>1. PlannedCm(a)' \in Nat BY <1>4, <1>5, <2>1, LedgerAssumption, NatTimesNat DEF PlannedCm
    <3> QED BY <1>4, <2>1, <3>1 DEF MetersSound
  <2>8. Forward(a) BY <1>2 DEF Forward, Begun
  <2> QED BY <2>3, <2>5, <2>6, <2>7, <2>8 DEF Sound
<1>14. \A b \in Asg : Sound(b)' /\ Forward(b)
  BY <1>12, <1>13, OneWorkChanges DEF Inv
<1> QED BY <1>3, <1>11, <1>14, CommitKeepsInv

-----------------------------------------------------------------------------
(* Editing one handoff of one assignment. *)
Edited(hs, t, a, i) ==
  /\ t \in [Asg -> Seq(Handoff)]
  /\ \A b \in Asg \ {a} : t[b] = hs[b]
  /\ Len(t[a]) = Len(hs[a]) /\ DOMAIN t[a] = DOMAIN hs[a]
  /\ \A j \in DOMAIN hs[a] \ {i} : t[a][j] = hs[a][j]

(* Replacing one handoff leaves every other handoff as it was. *)
LEMMA EditHandoff ==
  ASSUME NEW hs \in [Asg -> Seq(Handoff)], NEW a \in Asg, NEW i \in DOMAIN hs[a],
         NEW h \in Handoff, NEW t, t = [hs EXCEPT ![a] = [hs[a] EXCEPT ![i] = h]]
  PROVE  Edited(hs, t, a, i) /\ t[a][i] = h
<1>1. /\ [hs[a] EXCEPT ![i] = h] \in Seq(Handoff)
      /\ Len([hs[a] EXCEPT ![i] = h]) = Len(hs[a])
      /\ DOMAIN [hs[a] EXCEPT ![i] = h] = DOMAIN hs[a]
      /\ [hs[a] EXCEPT ![i] = h][i] = h
      /\ \A j \in DOMAIN hs[a] \ {i} : [hs[a] EXCEPT ![i] = h][j] = hs[a][j]
  OBVIOUS
<1>2. PICK s : s = [hs[a] EXCEPT ![i] = h] OBVIOUS
<1>3. t = [hs EXCEPT ![a] = s] BY <1>2
<1> QED BY <1>1, <1>2, <1>3 DEF Edited

(* The row as scanHandoff leaves it. *)
Scanned(hs, a, i) == [hs EXCEPT ![a][i].scanned = TRUE]

(* scanHandoff stamps the scan and keeps the state. *)
LEMMA SetScanned ==
  ASSUME NEW hs \in [Asg -> Seq(Handoff)], NEW a \in Asg, NEW i \in DOMAIN hs[a],
         NEW t, t = Scanned(hs, a, i)
  PROVE  Edited(hs, t, a, i) /\ t[a][i].state = hs[a][i].state
<1>1. hs[a][i] \in Handoff OBVIOUS
<1>2. PICK h : h = [hs[a][i] EXCEPT !.scanned = TRUE] OBVIOUS
<1>3. h \in Handoff /\ h.state = hs[a][i].state BY <1>1, <1>2 DEF Handoff
<1>4. t = [hs EXCEPT ![a] = [hs[a] EXCEPT ![i] = h]] BY <1>2, Zenon DEF Scanned
<1>5. Edited(hs, t, a, i) /\ t[a][i] = h BY <1>3, <1>4, EditHandoff
<1> QED BY <1>3, <1>5

(* The row once its time limit has passed. *)
Lapsed(hs, a, i) == [hs EXCEPT ![a][i].lapsed = TRUE]

(* Time that passes keeps the state: expiry is written by the next         *)
(* handler.                                                                *)
LEMMA SetLapsed ==
  ASSUME NEW hs \in [Asg -> Seq(Handoff)], NEW a \in Asg, NEW i \in DOMAIN hs[a],
         NEW t, t = Lapsed(hs, a, i)
  PROVE  Edited(hs, t, a, i) /\ t[a][i].state = hs[a][i].state
<1>1. hs[a][i] \in Handoff OBVIOUS
<1>2. PICK h : h = [hs[a][i] EXCEPT !.lapsed = TRUE] OBVIOUS
<1>3. h \in Handoff /\ h.state = hs[a][i].state BY <1>1, <1>2 DEF Handoff
<1>4. t = [hs EXCEPT ![a] = [hs[a] EXCEPT ![i] = h]] BY <1>2, Zenon DEF Lapsed
<1>5. Edited(hs, t, a, i) /\ t[a][i] = h BY <1>3, <1>4, EditHandoff
<1> QED BY <1>3, <1>5

(* The row as confirmHandoff and reportHandoffProblem leave it. *)
Closed(hs, a, i, s) == [hs EXCEPT ![a][i].state = s, ![a][i].scanned = TRUE]

(* Confirming or reporting a problem closes the handoff and stamps the     *)
(* scan.                                                                   *)
LEMMA SetClosed ==
  ASSUME NEW hs \in [Asg -> Seq(Handoff)], NEW a \in Asg, NEW i \in DOMAIN hs[a],
         NEW s \in HandoffState,
         NEW t, t = Closed(hs, a, i, s)
  PROVE  Edited(hs, t, a, i) /\ t[a][i].state = s
<1>1. PICK h : h = [hs[a][i] EXCEPT !.state = s] OBVIOUS
<1>2. h \in Handoff /\ h.state = s
  <2>1. hs[a][i] \in Handoff OBVIOUS
  <2> QED BY <1>1, <2>1 DEF Handoff
<1>3. PICK u : u = [hs EXCEPT ![a] = [hs[a] EXCEPT ![i] = h]] OBVIOUS
<1>4. Edited(hs, u, a, i) /\ u[a][i] = h BY <1>2, <1>3, EditHandoff
<1>5. PICK g : g = [u[a][i] EXCEPT !.scanned = TRUE] OBVIOUS
<1>6. g \in Handoff /\ g.state = s BY <1>2, <1>4, <1>5 DEF Handoff
<1>7. t = [u EXCEPT ![a] = [u[a] EXCEPT ![i] = g]] BY <1>1, <1>3, <1>5, Zenon DEF Closed
<1>8. u \in [Asg -> Seq(Handoff)] /\ i \in DOMAIN u[a] BY <1>4 DEF Edited
<1>9. PICK v : v = [u EXCEPT ![a] = [u[a] EXCEPT ![i] = g]] OBVIOUS
<1>10. Edited(u, v, a, i) /\ v[a][i] = g BY <1>6, <1>8, <1>9, EditHandoff
<1>11. t = v BY <1>7, <1>9
<1> QED BY <1>4, <1>6, <1>10, <1>11 DEF Edited

(* A lapsed or superseded handoff is expired, the others stay. *)
LEMMA ExpiringOpen ==
  ASSUME AssignmentTypeOK, NEW a \in Asg
  PROVE  /\ OpenExpired(a) \in Seq(Handoff)
         /\ Len(OpenExpired(a)) = Len(handoffs[a]) /\ DOMAIN OpenExpired(a) = DOMAIN handoffs[a]
         /\ \A i \in DOMAIN handoffs[a] :
              OpenExpired(a)[i].state = IF i \in Awaiting(a) THEN "EXPIRED" ELSE handoffs[a][i].state
<1>0. handoffs[a] \in Seq(Handoff) BY WorkTypes
<1>1. ASSUME NEW i \in DOMAIN handoffs[a]
      PROVE  /\ [handoffs[a][i] EXCEPT !.state = "EXPIRED"] \in Handoff
             /\ [handoffs[a][i] EXCEPT !.state = "EXPIRED"].state = "EXPIRED"
             /\ handoffs[a][i] \in Handoff
  <2>1. handoffs[a][i] \in Handoff BY <1>0
  <2>2. "EXPIRED" \in HandoffState BY DEF HandoffState
  <2> QED BY <2>1, <2>2 DEF Handoff
<1>2. \A i \in DOMAIN handoffs[a] :
         OpenExpired(a)[i] = IF i \in Awaiting(a) THEN [handoffs[a][i] EXCEPT !.state = "EXPIRED"]
                             ELSE handoffs[a][i]
  BY DEF OpenExpired
<1>3. OpenExpired(a) \in [DOMAIN handoffs[a] -> Handoff] BY <1>1 DEF OpenExpired
<1>4. /\ OpenExpired(a) \in Seq(Handoff) /\ Len(OpenExpired(a)) = Len(handoffs[a])
      /\ DOMAIN OpenExpired(a) = DOMAIN handoffs[a]
  BY <1>0, <1>3
<1> QED BY <1>1, <1>2, <1>4

(* What changes the handoffs of one assignment alone, confirms none and    *)
(* leaves only the last one of a waiting kit open.                         *)
LEMMA HandoffOnly ==
  ASSUME Inv, NEW a \in Asg,
         UNCHANGED <<work, qrLive, dropoff, pickups, progressed, stockVars, ledgerVars, jobVars>>,
         handoffs' \in [Asg -> Seq(Handoff)],
         \A b \in Asg \ {a} : handoffs'[b] = handoffs[b],
         Confirmed(a)' = Confirmed(a),
         \A i \in Awaiting(a)' :
           Status(a) = "READY_TO_DELIVER" /\ qrLive[a] /\ i = Len(handoffs'[a])
  PROVE  AssignmentTypeOK' /\ \A b \in Asg : Sound(b)' /\ Forward(b)
<1>1. AssignmentTypeOK'
  BY DEF Inv, TypeInv, AssignmentTypeOK, stockVars, StockTypeOK, ledgerVars, LedgerTypeOK,
         jobVars, JobTypeOK, Handoff
<1>2. \A b \in Asg \ {a} : Same(b) BY DEF Same, stockVars
<1>3. /\ Status(a)' = Status(a) /\ Begun(a)' = Begun(a) /\ PlannedCm(a)' = PlannedCm(a)
      /\ \A m \in Material : HeldFor(a, m)' = HeldFor(a, m) /\ KitQuantity(a, m)' = KitQuantity(a, m)
      /\ work'[a] = work[a] /\ qrLive'[a] = qrLive[a] /\ dropoff'[a] = dropoff[a]
      /\ pickups'[a] = pickups[a] /\ moved'[a] = moved[a]
  BY DEF stockVars, Status, Begun, PlannedCm, HeldFor, KitQuantity
<1>4. Sound(a) BY DEF Inv
<1>5. HandoffSound(a)' BY <1>3, <1>4 DEF Sound, HandoffSound
<1>6. CustodySound(a)' BY <1>3, <1>4 DEF Sound, CustodySound
<1>7. ClosingSound(a)' BY <1>3, <1>4 DEF Sound, ClosingSound
<1>8. MetersSound(a)' BY <1>3, <1>4 DEF Sound, MetersSound
<1>9. Forward(a) BY <1>3 DEF Forward
<1> QED BY <1>1, <1>2, <1>5, <1>6, <1>7, <1>8, <1>9, OneWorkChanges DEF Sound, Inv

(* startHandoff: the old open handoff is expired, the new one is the last. *)
LEMMA StartHandoffKeepsInv ==
  ASSUME Inv, NEW a \in Asg, StartHandoff(a)
  PROVE  Inv'
<1>0. AssignmentTypeOK /\ Sound(a) BY DEF Inv, TypeInv
<1>1. /\ Status(a) = "READY_TO_DELIVER" /\ qrLive[a]
      /\ handoffs' = [handoffs EXCEPT ![a] = Append(OpenExpired(a), NewHandoff)]
      /\ UNCHANGED <<work, qrLive, dropoff, pickups, progressed, stockVars, ledgerVars, jobVars, inflight>>
  BY DEF StartHandoff
<1> DEFINE old == OpenExpired(a)
           new == Append(OpenExpired(a), NewHandoff)
<1>2. /\ old \in Seq(Handoff) /\ Len(old) = Len(handoffs[a]) /\ DOMAIN old = DOMAIN handoffs[a]
      /\ \A i \in DOMAIN handoffs[a] :
           old[i].state = IF i \in Awaiting(a) THEN "EXPIRED" ELSE handoffs[a][i].state
  BY <1>0, ExpiringOpen
<1>3. NewHandoff \in Handoff /\ NewHandoff.state = "AWAITING_WORKER"
  BY DEF NewHandoff, Handoff, HandoffState
<1> HIDE DEF old
<1>4. /\ new \in Seq(Handoff) /\ Len(new) = Len(handoffs[a]) + 1
      /\ DOMAIN new = DOMAIN handoffs[a] \cup {Len(handoffs[a]) + 1}
      /\ Len(handoffs[a]) + 1 \notin DOMAIN handoffs[a]
      /\ new[Len(handoffs[a]) + 1] = NewHandoff
      /\ \A i \in DOMAIN handoffs[a] : new[i] = old[i]
  BY <1>2, <1>3 DEF old
<1> HIDE DEF new
<1>5. handoffs' = [handoffs EXCEPT ![a] = new] BY <1>1 DEF new
<1>6. /\ handoffs' \in [Asg -> Seq(Handoff)] /\ handoffs'[a] = new
      /\ \A b \in Asg \ {a} : handoffs'[b] = handoffs[b]
  BY <1>0, <1>4, <1>5 DEF AssignmentTypeOK, Handoff
<1>7. PICK n : n = Len(handoffs[a]) + 1 OBVIOUS
<1>8. Awaiting(a)' \subseteq {n}
  <2> SUFFICES ASSUME NEW i \in DOMAIN new, new[i].state = "AWAITING_WORKER" PROVE i = n
    BY <1>6 DEF Awaiting
  <2>1. CASE i \in DOMAIN handoffs[a] BY <1>2, <1>4, <2>1 DEF Awaiting
  <2> QED BY <1>4, <1>7, <2>1
<1>9. Confirmed(a)' = Confirmed(a)
  <2>1. \A i \in DOMAIN handoffs[a] : new[i].state = "CONFIRMED" <=> handoffs[a][i].state = "CONFIRMED"
    BY <1>2, <1>4 DEF Awaiting
  <2>2. \A i \in DOMAIN new \ DOMAIN handoffs[a] : new[i].state # "CONFIRMED" BY <1>3, <1>4
  <2> QED BY <1>4, <1>6, <2>1, <2>2 DEF Confirmed
<1>10. AssignmentTypeOK' /\ \A b \in Asg : Sound(b)' /\ Forward(b)
  BY <1>1, <1>4, <1>6, <1>7, <1>8, <1>9, HandoffOnly
<1> QED BY <1>1, <1>10, LockedKeepsInv

(* An edit that keeps every state. *)
LEMMA StatesKept ==
  ASSUME Inv, NEW a \in Asg, NEW i \in DOMAIN handoffs[a], Edited(handoffs, handoffs', a, i),
         handoffs'[a][i].state = handoffs[a][i].state,
         UNCHANGED <<work, qrLive, dropoff, pickups, progressed, stockVars, ledgerVars, jobVars>>
  PROVE  AssignmentTypeOK' /\ \A b \in Asg : Sound(b)' /\ Forward(b)
<1>1. Sound(a) BY DEF Inv
<1>2. Awaiting(a)' = Awaiting(a) /\ Confirmed(a)' = Confirmed(a)
  BY DEF Edited, Awaiting, Confirmed
<1>3. \A j \in Awaiting(a)' :
           Status(a) = "READY_TO_DELIVER" /\ qrLive[a] /\ j = Len(handoffs'[a])
  BY <1>1, <1>2 DEF Sound, HandoffSound, Edited
<1> QED BY <1>2, <1>3, HandoffOnly DEF Edited

(* The time limit of a handoff passes. *)
LEMMA HandoffLapsesKeepsInv ==
  ASSUME Inv, NEW a \in Asg, HandoffLapses(a)
  PROVE  Inv'
<1>1. PICK i \in DOMAIN handoffs[a] : handoffs' = Lapsed(handoffs, a, i)
  BY DEF HandoffLapses, Awaiting, Lapsed
<1>2. UNCHANGED <<work, qrLive, dropoff, pickups, progressed, stockVars, ledgerVars, jobVars, inflight>>
  BY DEF HandoffLapses
<1>3. handoffs \in [Asg -> Seq(Handoff)] BY DEF Inv, TypeInv, AssignmentTypeOK, Handoff
<1>4. Edited(handoffs, handoffs', a, i) /\ handoffs'[a][i].state = handoffs[a][i].state
  BY <1>1, <1>3, SetLapsed
<1> QED BY <1>2, <1>4, StatesKept, LockedKeepsInv

(* scanHandoff, however late its stamp is written. *)
LEMMA ScanKeepsInv ==
  ASSUME Inv, NEW c \in Client, ScanCommit(c)
  PROVE  Inv'
<1> DEFINE a == inflight[c].asg
           i == inflight[c].handoff
<1>1. a \in Asg BY DEF ScanCommit, Running, Inv, TypeInv, HandlersOK, HandlerOK
<1>2. /\ handoffs' = Scanned(handoffs, a, i) /\ Finish(c)
      /\ UNCHANGED <<work, qrLive, dropoff, pickups, progressed, stockVars, ledgerVars, jobVars>>
  BY DEF ScanCommit, Scanned
<1>3. handoffs \in [Asg -> Seq(Handoff)] BY DEF Inv, TypeInv, AssignmentTypeOK, Handoff
<1> HIDE DEF a, i
<1>4. CASE i \in DOMAIN handoffs[a]
  <2>1. Edited(handoffs, handoffs', a, i) /\ handoffs'[a][i].state = handoffs[a][i].state
    BY <1>1, <1>2, <1>3, <1>4, SetScanned
  <2> QED BY <1>1, <1>2, <1>4, <2>1, StatesKept, CommitKeepsInv
<1>5. CASE i \notin DOMAIN handoffs[a]
  <2>1. handoffs' = handoffs BY <1>1, <1>2, <1>3, <1>5 DEF Scanned
  <2>2. \A b \in Asg : Same(b) BY <1>2, <2>1 DEF Same, stockVars
  <2>3. AssignmentTypeOK'
    BY <1>2, <2>1 DEF Inv, TypeInv, AssignmentTypeOK, stockVars, StockTypeOK, ledgerVars,
                      LedgerTypeOK, jobVars, JobTypeOK
  <2> QED BY <1>2, <2>2, <2>3, SameKeepsSound, CommitKeepsInv DEF Inv
<1> QED BY <1>4, <1>5

(* reportHandoffProblem: the handoff closes, custody stays with the        *)
(* studio.                                                                 *)
LEMMA ProblemKeepsInv ==
  ASSUME Inv, NEW a \in Asg, NEW i \in DOMAIN handoffs[a], HandoffProblem(a, i)
  PROVE  Inv'
<1>1. /\ i \in Awaiting(a)
      /\ handoffs' = Closed(handoffs, a, i, "PROBLEM")
      /\ UNCHANGED <<work, qrLive, dropoff, pickups, progressed, stockVars, ledgerVars, jobVars, inflight>>
  BY Zenon DEF HandoffProblem, Closed
<1>2. handoffs \in [Asg -> Seq(Handoff)] /\ Sound(a) BY DEF Inv, TypeInv, AssignmentTypeOK, Handoff
<1>3. "PROBLEM" \in HandoffState BY DEF HandoffState
<1>4. Edited(handoffs, handoffs', a, i) /\ handoffs'[a][i].state = "PROBLEM"
  BY <1>1, <1>2, <1>3, SetClosed
<1>5. Awaiting(a) = {i} BY <1>1, <1>2 DEF Sound, HandoffSound
<1>6. Awaiting(a)' = {} BY <1>4, <1>5 DEF Awaiting, Edited
<1>7. Confirmed(a)' = Confirmed(a) BY <1>1, <1>4 DEF Awaiting, Confirmed, Edited
<1>8. AssignmentTypeOK' /\ \A b \in Asg : Sound(b)' /\ Forward(b)
  BY <1>1, <1>4, <1>6, <1>7, HandoffOnly DEF Edited
<1> QED BY <1>1, <1>8, LockedKeepsInv

-----------------------------------------------------------------------------
(* The movements of one work add up in that work's trail and in no other. *)
LEMMA StockAfter ==
  ASSUME StockTypeOK, NEW a \in Asg, NEW w \in Worker, NEW moves \in [Material -> Move],
         RecordMovements(a, w, moves), UNCHANGED material
  PROVE  /\ StockTypeOK'
         /\ \A m \in Material, t \in MovementType :
              moved'[a][m][t] = IF t = moves[m].type THEN moved[a][m][t] + moves[m].quantity
                                                     ELSE moved[a][m][t]
         /\ \A b \in Asg \ {a} : moved'[b] = moved[b]
<1>1. a \in Source BY DEF Source
<1>2. \A b \in Asg \ {a} : moved'[b] = moved[b]
  BY <1>1 DEF RecordMovements, StockTypeOK, Source
<1> QED BY <1>1, <1>2, RecordMovementsType DEF StockTypeOK

(* Multiplying by the direction of a movement. *)
LEMMA TimesUnits == \A n \in Int : 0 * n = 0 /\ 1 * n = n /\ (-1) * n = -n
OBVIOUS

(* confirmHandoff: custody of the whole kit moves to the worker, once. *)
LEMMA ConfirmKeepsInv ==
  ASSUME Inv, NEW a \in Asg, NEW i \in DOMAIN handoffs[a], ConfirmHandoff(a, i)
  PROVE  Inv'
<1>0. AssignmentTypeOK /\ StockTypeOK /\ Sound(a) BY DEF Inv, TypeInv, AssignmentTypeOK
<1> DEFINE moves == MoveKit("ISSUE_TO_WORKER", LAMBDA m : KitQuantity(a, m), 0, 1)
<1>1. /\ i \in Awaiting(a) /\ Status(a) = "READY_TO_DELIVER"
      /\ RecordMovements(a, AssignedTo[a], moves)
      /\ handoffs' = Closed(handoffs, a, i, "CONFIRMED")
  BY Zenon DEF ConfirmHandoff, CanReceive, Closed
<1>2. /\ dropoff' = [dropoff EXCEPT ![a] = IF @ = "PENDING" THEN "COMPLETED" ELSE @]
      /\ work' = [work EXCEPT ![a].status = "IN_PROGRESS"]
      /\ UNCHANGED <<qrLive, pickups, progressed, material, ledgerVars, jobVars, inflight>>
  BY DEF ConfirmHandoff
<1>3. \A m \in Material : KitQuantity(a, m) \in Nat BY <1>0, WorkTypes
<1>4. /\ moves \in [Material -> Move]
      /\ \A m \in Material :
           IF KitQuantity(a, m) > 0
             THEN moves[m].type = "ISSUE_TO_WORKER" /\ moves[m].quantity = KitQuantity(a, m)
             ELSE moves[m].type = "RECEIPT" /\ moves[m].quantity = 0
  <2>1. \A m \in Material :
          moves[m] = IF KitQuantity(a, m) > 0
                       THEN Movement("ISSUE_TO_WORKER", KitQuantity(a, m), 0, KitQuantity(a, m))
                       ELSE NoMovement
    BY <1>3, TimesUnits DEF MoveKit
  <2>2. moves = [m \in Material |-> moves[m]] BY DEF MoveKit
  <2> HIDE DEF moves
  <2>3. "ISSUE_TO_WORKER" \in MovementType BY DEF MovementType
  <2>4. ASSUME NEW m \in Material
        PROVE  /\ moves[m] \in Move
               /\ IF KitQuantity(a, m) > 0
                    THEN moves[m].type = "ISSUE_TO_WORKER" /\ moves[m].quantity = KitQuantity(a, m)
                    ELSE moves[m].type = "RECEIPT" /\ moves[m].quantity = 0
    BY <1>3, <2>1, <2>3, MovementIsMove, NoMovementIsMove
  <2> QED BY <2>2, <2>4
<1>5. AssignedTo[a] \in Worker BY AssignmentAssumption
<1> HIDE DEF moves
<1>6. /\ StockTypeOK'
      /\ \A m \in Material, t \in MovementType :
           moved'[a][m][t] = IF t = moves[m].type THEN moved[a][m][t] + moves[m].quantity
                                                  ELSE moved[a][m][t]
      /\ \A b \in Asg \ {a} : moved'[b] = moved[b]
  BY <1>0, <1>1, <1>2, <1>4, <1>5, StockAfter
<1>7. \A m \in Material :
        /\ moved'[a][m]["ISSUE_TO_WORKER"] = moved[a][m]["ISSUE_TO_WORKER"] + KitQuantity(a, m)
        /\ HeldFor(a, m)' = HeldFor(a, m) + KitQuantity(a, m)
  <2> SUFFICES ASSUME NEW m \in Material
               PROVE  /\ moved'[a][m]["ISSUE_TO_WORKER"] = moved[a][m]["ISSUE_TO_WORKER"] + KitQuantity(a, m)
                      /\ HeldFor(a, m)' = HeldFor(a, m) + KitQuantity(a, m)
    OBVIOUS
  <2>1. \A t \in MovementType : moved[a][m][t] \in Nat BY <1>0, WorkTypes
  <2>2. \A t \in MovementType \ {"RECEIPT"} :
          moved'[a][m][t] = IF t = "ISSUE_TO_WORKER" THEN moved[a][m][t] + KitQuantity(a, m)
                                                     ELSE moved[a][m][t]
    BY <1>3, <1>4, <1>6, <2>1
  <2>3. {"ISSUE_TO_WORKER", "CONSUMPTION", "RETURN_FROM_WORKER", "WRITE_OFF"}
          \subseteq MovementType \ {"RECEIPT"}
    BY DEF MovementType
  <2> QED BY <1>3, <2>1, <2>2, <2>3 DEF HeldFor
<1>8. handoffs \in [Asg -> Seq(Handoff)] BY <1>0 DEF AssignmentTypeOK, Handoff
<1>9. "CONFIRMED" \in HandoffState BY DEF HandoffState
<1>10. Edited(handoffs, handoffs', a, i) /\ handoffs'[a][i].state = "CONFIRMED"
  BY <1>1, <1>8, <1>9, SetClosed
<1>11. Awaiting(a) = {i} /\ Confirmed(a) = {} BY <1>0, <1>1 DEF Sound, HandoffSound, Begun
<1>12. Awaiting(a)' = {} /\ Confirmed(a)' = {i}
  BY <1>10, <1>11 DEF Edited, Awaiting, Confirmed
<1>13. PICK row : row = [work[a] EXCEPT !.status = "IN_PROGRESS"] OBVIOUS
<1>14. /\ row \in Row /\ row.status = "IN_PROGRESS" /\ row.kits = work[a].kits
       /\ row.accepted = work[a].accepted /\ row.defective = work[a].defective
       /\ row.delivered = work[a].delivered /\ row.reported = work[a].reported
  BY <1>0, <1>13, WorkTypes DEF Row, AssignmentStatus
<1>15. work' = [work EXCEPT ![a] = row] BY <1>2, <1>13
<1>16. /\ work'[a] = row /\ \A b \in Asg \ {a} : work'[b] = work[b]
  BY <1>0, <1>15 DEF AssignmentTypeOK
<1>17. dropoff[a] = "PENDING" BY <1>0, <1>1 DEF Sound, HandoffSound
<1>18. dropoff' = [dropoff EXCEPT ![a] = "COMPLETED"] /\ dropoff'[a] = "COMPLETED"
  BY <1>0, <1>2, <1>17 DEF AssignmentTypeOK
<1>19. AssignmentTypeOK'
  <2>1. LedgerTypeOK' /\ JobTypeOK'
    BY <1>0, <1>2 DEF AssignmentTypeOK, LedgerTypeOK, ledgerVars, JobTypeOK, jobVars
  <2>2. "COMPLETED" \in DeliveryStatus BY DEF DeliveryStatus
  <2>3. progressed' \in [Asg -> SUBSET ReportId] BY <1>0, <1>2 DEF AssignmentTypeOK
  <2>4. handoffs' \in [Asg -> Seq(Handoff)] BY <1>10 DEF Edited
  <2>5. work' \in [Asg -> Row] BY <1>0, <1>14, <1>15 DEF AssignmentTypeOK, Row
  <2>6. dropoff' \in [Asg -> DeliveryStatus \cup {"NONE"}] BY <1>0, <1>18, <2>2 DEF AssignmentTypeOK
  <2> QED BY <1>0, <1>2, <1>6, <2>1, <2>3, <2>4, <2>5, <2>6 DEF AssignmentTypeOK, Handoff, Row
<1>20. \A b \in Asg \ {a} : Same(b)
  BY <1>0, <1>2, <1>6, <1>10, <1>16 DEF Same, AssignmentTypeOK, Edited
<1>21. \A m \in Material : KitQuantity(a, m)' = KitQuantity(a, m)
  BY <1>14, <1>16 DEF KitQuantity
<1>22. Status(a)' = "IN_PROGRESS" BY <1>14, <1>16 DEF Status
<1>23. HandoffSound(a)' BY <1>12, <1>18, <1>22 DEF HandoffSound, Begun
<1>24. CustodySound(a)'
  BY <1>0, <1>1, <1>3, <1>7, <1>11, <1>12, <1>21, <1>22 DEF Sound, CustodySound
<1>25. ClosingSound(a)' BY <1>22 DEF ClosingSound
<1>26. MetersSound(a)' BY <1>0, <1>14, <1>16 DEF Sound, MetersSound, PlannedCm
<1>27. Forward(a) BY <1>1 DEF Forward, Begun
<1> QED BY <1>2, <1>19, <1>20, <1>23, <1>24, <1>25, <1>26, <1>27,
           OneWorkChanges, LockedKeepsInv DEF Sound, Inv

(* A row of work_assignments written back whole. *)
LEMMA RowWritten ==
  ASSUME AssignmentTypeOK, NEW a \in Asg, NEW row \in Row, work' = [work EXCEPT ![a] = row]
  PROVE  /\ work' \in [Asg -> Row] /\ work'[a] = row
         /\ \A b \in Asg \ {a} : work'[b] = work[b]
BY DEF AssignmentTypeOK, Row

(* reportProgress: a late report may land in any later status; it stays    *)
(* within the plan all the same.                                           *)
LEMMA ProgressKeepsInv ==
  ASSUME Inv, NEW c \in Client, ProgressCommit(c)
  PROVE  Inv'
<1>0. AssignmentTypeOK /\ \A b \in Asg : Sound(b) BY DEF Inv, TypeInv
<1>a. PICK a, cm, id : a = inflight[c].asg /\ cm = inflight[c].cm /\ id = inflight[c].id OBVIOUS
<1>1. a \in Asg /\ cm \in Nat /\ id \in ReportId /\ cm <= PlannedCm(a)
  BY <1>a DEF ProgressCommit, Running, Inv, TypeInv, HandlersOK, HandlerOK, AllLateOK, LateOK
<1>2. /\ progressed' = [progressed EXCEPT ![a] = @ \cup {id}]
      /\ work' = [work EXCEPT ![a].reported = cm]
      /\ Finish(c)
      /\ UNCHANGED <<qrLive, dropoff, pickups, handoffs, stockVars, ledgerVars, jobVars>>
  BY <1>a DEF ProgressCommit
<1>3. PICK row : row = [work[a] EXCEPT !.reported = cm] OBVIOUS
<1>4. /\ row \in Row /\ row.reported = cm /\ row.status = work[a].status /\ row.kits = work[a].kits
      /\ row.accepted = work[a].accepted /\ row.defective = work[a].defective
      /\ row.delivered = work[a].delivered
  BY <1>0, <1>1, <1>3, WorkTypes DEF Row
<1>5. work' = [work EXCEPT ![a] = row] BY <1>2, <1>3
<1>6. /\ work' \in [Asg -> Row] /\ work'[a] = row
      /\ \A b \in Asg \ {a} : work'[b] = work[b]
  BY <1>0, <1>1, <1>4, <1>5, RowWritten
<1>7. AssignmentTypeOK'
  <2>1. progressed' \in [Asg -> SUBSET ReportId] BY <1>0, <1>1, <1>2 DEF AssignmentTypeOK
  <2> QED BY <1>0, <1>2, <1>6, <2>1
       DEF AssignmentTypeOK, Row, stockVars, StockTypeOK, ledgerVars, LedgerTypeOK, jobVars, JobTypeOK
<1>8. \A b \in Asg \ {a} : Same(b) BY <1>2, <1>6 DEF Same, stockVars
<1>9. /\ Status(a)' = Status(a) /\ Begun(a)' = Begun(a) /\ PlannedCm(a)' = PlannedCm(a)
      /\ Awaiting(a)' = Awaiting(a) /\ Confirmed(a)' = Confirmed(a)
      /\ \A m \in Material : HeldFor(a, m)' = HeldFor(a, m) /\ KitQuantity(a, m)' = KitQuantity(a, m)
      /\ UNCHANGED <<qrLive, dropoff, pickups, handoffs, moved>>
  BY <1>2, <1>4, <1>6
     DEF Status, Begun, PlannedCm, Awaiting, Confirmed, HeldFor, KitQuantity, stockVars
<1>10. Sound(a) BY <1>0, <1>1
<1>11. HandoffSound(a)' BY <1>9, <1>10 DEF Sound, HandoffSound
<1>12. CustodySound(a)' BY <1>9, <1>10 DEF Sound, CustodySound
<1>13. ClosingSound(a)' BY <1>9, <1>10 DEF Sound, ClosingSound
<1>14. MetersSound(a)' BY <1>1, <1>4, <1>6, <1>9, <1>10 DEF Sound, MetersSound
<1>15. Forward(a) BY <1>4, <1>6, <1>9 DEF Forward
<1> QED BY <1>0, <1>1, <1>2, <1>7, <1>8, <1>11, <1>12, <1>13, <1>14, <1>15,
           OneWorkChanges, CommitKeepsInv DEF Sound

(* readyForPickup: it writes its status whatever the work has become, and  *)
(* leaves a pending pickup behind.                                         *)
LEMMA ReadyKeepsInv ==
  ASSUME Inv, NEW c \in Client, ReadyCommit(c)
  PROVE  Inv'
<1>0. AssignmentTypeOK /\ \A b \in Asg : Sound(b) BY DEF Inv, TypeInv
<1>a. PICK a, cm : a = inflight[c].asg /\ cm = inflight[c].cm OBVIOUS
<1>1. a \in Asg /\ cm \in Nat /\ cm <= PlannedCm(a) /\ Begun(a)
  BY <1>a DEF ReadyCommit, Running, Inv, TypeInv, HandlersOK, HandlerOK, AllLateOK, LateOK
<1>2. /\ work' = [work EXCEPT ![a].status = "READY_FOR_PICKUP", ![a].reported = cm]
      /\ pickups' = [pickups EXCEPT ![a] = Append(pickups[a], "PENDING")]
      /\ Finish(c)
      /\ UNCHANGED <<qrLive, dropoff, handoffs, progressed, stockVars, ledgerVars, jobVars>>
  BY <1>a, Zenon DEF ReadyCommit, PickupRequested
<1>3. PICK r1 : r1 = [work[a] EXCEPT !.status = "READY_FOR_PICKUP"] OBVIOUS
<1>4. PICK row : row = [r1 EXCEPT !.reported = cm] OBVIOUS
<1>5. /\ row \in Row /\ row.reported = cm /\ row.status = "READY_FOR_PICKUP" /\ row.kits = work[a].kits
      /\ row.accepted = work[a].accepted /\ row.defective = work[a].defective
      /\ row.delivered = work[a].delivered
  <2>1. work[a] \in Row BY <1>0, <1>1, WorkTypes
  <2>2. "READY_FOR_PICKUP" \in AssignmentStatus BY DEF AssignmentStatus
  <2>3. /\ r1 \in Row /\ r1.status = "READY_FOR_PICKUP" /\ r1.kits = work[a].kits
        /\ r1.accepted = work[a].accepted /\ r1.defective = work[a].defective
        /\ r1.delivered = work[a].delivered
    BY <1>3, <2>1, <2>2 DEF Row
  <2> QED BY <1>1, <1>4, <2>3 DEF Row
<1>6. work' = [work EXCEPT ![a] = row]
  <2>1. PICK w1 : w1 = [work EXCEPT ![a] = r1] OBVIOUS
  <2>2. w1[a] = r1 BY <1>0, <1>1, <2>1 DEF AssignmentTypeOK
  <2>3. w1 = [work EXCEPT ![a].status = "READY_FOR_PICKUP"] BY <1>3, <2>1
  <2>4. work' = [w1 EXCEPT ![a].reported = cm] BY <1>2, <2>3, Zenon
  <2>5. work' = [w1 EXCEPT ![a] = row] BY <1>4, <2>2, <2>4
  <2> QED BY <1>0, <1>1, <2>1, <2>5 DEF AssignmentTypeOK
<1>7. /\ work' \in [Asg -> Row] /\ work'[a] = row
      /\ \A b \in Asg \ {a} : work'[b] = work[b]
  BY <1>0, <1>1, <1>5, <1>6, RowWritten
<1>8. PICK ds : ds = Append(pickups[a], "PENDING") OBVIOUS
<1>9. /\ ds \in Seq(DeliveryStatus) /\ \E i \in DOMAIN ds : ds[i] = "PENDING"
  <2>1. pickups[a] \in Seq(DeliveryStatus) BY <1>0, <1>1, WorkTypes
  <2>2. "PENDING" \in DeliveryStatus BY DEF DeliveryStatus
  <2>3. ds \in Seq(DeliveryStatus) /\ DOMAIN ds = 1..(Len(pickups[a]) + 1)
        /\ ds[Len(pickups[a]) + 1] = "PENDING"
    BY <1>8, <2>1, <2>2
  <2>4. Len(pickups[a]) + 1 \in DOMAIN ds BY <2>1, <2>3
  <2> QED BY <2>3, <2>4
<1>10. /\ pickups' \in [Asg -> Seq(DeliveryStatus)] /\ pickups'[a] = ds
       /\ \A b \in Asg \ {a} : pickups'[b] = pickups[b]
  BY <1>0, <1>1, <1>2, <1>8, <1>9 DEF AssignmentTypeOK
<1>11. AssignmentTypeOK'
  BY <1>0, <1>2, <1>7, <1>10
     DEF AssignmentTypeOK, Row, stockVars, StockTypeOK, ledgerVars, LedgerTypeOK, jobVars, JobTypeOK
<1>12. \A b \in Asg \ {a} : Same(b) BY <1>2, <1>7, <1>10 DEF Same, stockVars
<1>13. /\ Status(a)' = "READY_FOR_PICKUP" /\ Begun(a)' /\ PlannedCm(a)' = PlannedCm(a)
       /\ Awaiting(a)' = Awaiting(a) /\ Confirmed(a)' = Confirmed(a)
       /\ \A m \in Material : HeldFor(a, m)' = HeldFor(a, m) /\ KitQuantity(a, m)' = KitQuantity(a, m)
       /\ qrLive' = qrLive /\ dropoff' = dropoff /\ handoffs' = handoffs /\ moved' = moved
  BY <1>2, <1>5, <1>7
     DEF Status, Begun, PlannedCm, Awaiting, Confirmed, HeldFor, KitQuantity, stockVars
<1>14. Sound(a) BY <1>0, <1>1
<1>15. Awaiting(a) = {} BY <1>1, <1>14 DEF Sound, HandoffSound, Begun
<1>16. HandoffSound(a)' BY <1>13, <1>14, <1>15 DEF Sound, HandoffSound
<1>17. CustodySound(a)' BY <1>13, <1>14 DEF Sound, CustodySound
<1>18. ClosingSound(a)' BY <1>9, <1>10, <1>13 DEF ClosingSound
<1>19. MetersSound(a)' BY <1>1, <1>5, <1>7, <1>13, <1>14 DEF Sound, MetersSound
<1>20. Forward(a) BY <1>5, <1>7, <1>13 DEF Forward
<1> QED BY <1>0, <1>1, <1>2, <1>11, <1>12, <1>16, <1>17, <1>18, <1>19, <1>20,
           OneWorkChanges, CommitKeepsInv DEF Sound

(* Nobody holds less than nothing. *)
LEMMA HeldIsNat ==
  ASSUME AssignmentTypeOK, NEW a \in Asg, CustodySound(a), NEW m \in Material
  PROVE  HeldFor(a, m) \in Nat
BY WorkTypes DEF CustodySound

(* completePickup: what she held for the work is consumed, all of it. *)
LEMMA PickupKeepsInv ==
  ASSUME Inv, NEW c \in Client, PickupCommit(c)
  PROVE  Inv'
<1>0. AssignmentTypeOK /\ StockTypeOK /\ \A b \in Asg : Sound(b)
  BY DEF Inv, TypeInv, AssignmentTypeOK
<1>a. PICK a, cm, i : a = inflight[c].asg /\ cm = inflight[c].cm /\ i = inflight[c].delivery OBVIOUS
<1>1. a \in Asg /\ cm \in Nat /\ cm <= PlannedCm(a) /\ Begun(a)
  BY <1>a DEF PickupCommit, Running, Inv, TypeInv, HandlersOK, HandlerOK, AllLateOK, LateOK
<1> DEFINE row == [work[a] EXCEPT !.status = "UNDER_REVIEW", !.delivered = cm]
           moves == MoveKit("CONSUMPTION", LAMBDA m : HeldFor(a, m), 0, -1)
           ds == Completed(pickups[a], i)
<1>2. /\ MetersConsistent(row)
      /\ work' = [work EXCEPT ![a] = row]
      /\ pickups' = [pickups EXCEPT ![a] = ds]
      /\ RecordMovements(a, AssignedTo[a], moves)
      /\ Finish(c)
      /\ UNCHANGED <<qrLive, dropoff, handoffs, progressed, material, ledgerVars, jobVars>>
  BY <1>a, Zenon DEF PickupCommit, MoveKit
<1>3. /\ row \in Row /\ row.status = "UNDER_REVIEW" /\ row.kits = work[a].kits
      /\ row.delivered = cm /\ row.reported = work[a].reported
      /\ row.accepted = work[a].accepted /\ row.defective = work[a].defective
  <2>1. PICK r1 : r1 = [work[a] EXCEPT !.status = "UNDER_REVIEW"] OBVIOUS
  <2>2. PICK r2 : r2 = [r1 EXCEPT !.delivered = cm] OBVIOUS
  <2>3. work[a] \in Row /\ "UNDER_REVIEW" \in AssignmentStatus
    BY <1>0, <1>1, WorkTypes DEF AssignmentStatus
  <2>4. /\ r1 \in Row /\ r1.status = "UNDER_REVIEW" /\ r1.kits = work[a].kits
        /\ r1.reported = work[a].reported
        /\ r1.accepted = work[a].accepted /\ r1.defective = work[a].defective
    BY <2>1, <2>3 DEF Row
  <2>5. /\ r2 \in Row /\ r2.status = "UNDER_REVIEW" /\ r2.kits = work[a].kits
        /\ r2.delivered = cm /\ r2.reported = work[a].reported
        /\ r2.accepted = work[a].accepted /\ r2.defective = work[a].defective
    BY <1>1, <2>2, <2>4 DEF Row
  <2>6. row = r2 BY <2>1, <2>2, Zenon
  <2> QED BY <2>5, <2>6
<1>4. ds \in Seq(DeliveryStatus)
  <2>1. pickups[a] \in Seq(DeliveryStatus) /\ "COMPLETED" \in DeliveryStatus
    BY <1>0, <1>1, WorkTypes DEF DeliveryStatus
  <2>2. DOMAIN ds = DOMAIN pickups[a] /\ \A j \in DOMAIN pickups[a] : ds[j] \in DeliveryStatus
    BY <2>1 DEF Completed
  <2>3. ds = [j \in DOMAIN pickups[a] |-> ds[j]] BY <2>2 DEF Completed
  <2>4. ds \in [DOMAIN pickups[a] -> DeliveryStatus] BY <2>2, <2>3
  <2> HIDE DEF ds
  <2> QED BY <2>1, <2>4
<1>5. Sound(a) /\ \A m \in Material : HeldFor(a, m) \in Nat BY <1>0, <1>1, HeldIsNat DEF Sound
<1>6. /\ moves \in [Material -> Move]
      /\ \A m \in Material :
           IF HeldFor(a, m) > 0
             THEN moves[m].type = "CONSUMPTION" /\ moves[m].quantity = HeldFor(a, m)
             ELSE moves[m].type = "RECEIPT" /\ moves[m].quantity = 0
  <2>1. \A m \in Material :
          moves[m] = IF HeldFor(a, m) > 0
                       THEN Movement("CONSUMPTION", HeldFor(a, m), 0, -HeldFor(a, m))
                       ELSE NoMovement
    BY <1>5, TimesUnits DEF MoveKit
  <2>2. moves = [m \in Material |-> moves[m]] BY DEF MoveKit
  <2> HIDE DEF moves
  <2>3. "CONSUMPTION" \in MovementType BY DEF MovementType
  <2>4. ASSUME NEW m \in Material
        PROVE  /\ moves[m] \in Move
               /\ IF HeldFor(a, m) > 0
                    THEN moves[m].type = "CONSUMPTION" /\ moves[m].quantity = HeldFor(a, m)
                    ELSE moves[m].type = "RECEIPT" /\ moves[m].quantity = 0
    <3>1. -HeldFor(a, m) \in Int BY <1>5
    <3> QED BY <1>5, <2>1, <2>3, <3>1, MovementIsMove, NoMovementIsMove
  <2> QED BY <2>2, <2>4
<1>7. AssignedTo[a] \in Worker BY <1>1, AssignmentAssumption
<1> HIDE DEF moves, row, ds
<1>8. /\ StockTypeOK'
      /\ \A m \in Material, t \in MovementType :
           moved'[a][m][t] = IF t = moves[m].type THEN moved[a][m][t] + moves[m].quantity
                                                  ELSE moved[a][m][t]
      /\ \A b \in Asg \ {a} : moved'[b] = moved[b]
  BY <1>0, <1>1, <1>2, <1>6, <1>7, StockAfter
<1>9. \A m \in Material : /\ moved'[a][m]["ISSUE_TO_WORKER"] = moved[a][m]["ISSUE_TO_WORKER"]
                          /\ HeldFor(a, m)' = 0
  <2> SUFFICES ASSUME NEW m \in Material
               PROVE  /\ moved'[a][m]["ISSUE_TO_WORKER"] = moved[a][m]["ISSUE_TO_WORKER"]
                      /\ HeldFor(a, m)' = 0
    OBVIOUS
  <2>1. \A t \in MovementType : moved[a][m][t] \in Nat BY <1>0, <1>1, WorkTypes
  <2>2. \A t \in MovementType \ {"RECEIPT"} :
          moved'[a][m][t] = IF t = "CONSUMPTION" THEN moved[a][m][t] + HeldFor(a, m)
                                                 ELSE moved[a][m][t]
    BY <1>5, <1>6, <1>8, <2>1
  <2>3. {"ISSUE_TO_WORKER", "CONSUMPTION", "RETURN_FROM_WORKER", "WRITE_OFF"}
          \subseteq MovementType \ {"RECEIPT"}
    BY DEF MovementType
  <2> QED BY <1>5, <2>1, <2>2, <2>3 DEF HeldFor
<1>10. /\ work' \in [Asg -> Row] /\ work'[a] = row
       /\ \A b \in Asg \ {a} : work'[b] = work[b]
  BY <1>0, <1>1, <1>2, <1>3, RowWritten
<1>11. /\ pickups' \in [Asg -> Seq(DeliveryStatus)]
       /\ \A b \in Asg \ {a} : pickups'[b] = pickups[b]
  BY <1>0, <1>1, <1>2, <1>4 DEF AssignmentTypeOK
<1>12. AssignmentTypeOK'
  BY <1>0, <1>2, <1>8, <1>10, <1>11
     DEF AssignmentTypeOK, Row, ledgerVars, LedgerTypeOK, jobVars, JobTypeOK
<1>13. \A b \in Asg \ {a} : Same(b) BY <1>2, <1>8, <1>10, <1>11 DEF Same
<1>14. /\ Status(a)' = "UNDER_REVIEW" /\ Begun(a)' /\ PlannedCm(a)' = PlannedCm(a)
       /\ Awaiting(a)' = Awaiting(a) /\ Confirmed(a)' = Confirmed(a)
       /\ \A m \in Material : KitQuantity(a, m)' = KitQuantity(a, m)
       /\ qrLive' = qrLive /\ dropoff' = dropoff /\ handoffs' = handoffs
  BY <1>2, <1>3, <1>10 DEF Status, Begun, PlannedCm, Awaiting, Confirmed, KitQuantity
<1>15. Awaiting(a) = {} BY <1>1, <1>5 DEF Sound, HandoffSound, Begun
<1>16. HandoffSound(a)' BY <1>5, <1>14, <1>15 DEF Sound, HandoffSound
<1>17. CustodySound(a)' BY <1>5, <1>9, <1>14 DEF Sound, CustodySound
<1>18. ClosingSound(a)' BY <1>14 DEF ClosingSound
<1>19. MetersSound(a)' BY <1>1, <1>2, <1>3, <1>5, <1>10, <1>14 DEF Sound, MetersSound, MetersConsistent
<1>20. Forward(a) BY <1>3, <1>9, <1>10, <1>14 DEF Forward
<1> QED BY <1>0, <1>1, <1>2, <1>12, <1>13, <1>16, <1>17, <1>18, <1>19, <1>20,
           OneWorkChanges, CommitKeepsInv DEF Sound

(* accept: it writes its verdict whatever the work has become; LateOK says *)
(* that it then finds her hands empty.                                     *)
LEMMA AcceptKeepsInv ==
  ASSUME Inv, NEW c \in Client, AcceptCommit(c)
  PROVE  Inv'
<1>0. AssignmentTypeOK /\ LedgerInv /\ \A b \in Asg : Sound(b) BY DEF Inv, TypeInv
<1>a. PICK a, accepted, defective, verdict :
        /\ a = inflight[c].asg /\ accepted = inflight[c].accepted
        /\ defective = inflight[c].defective /\ verdict = inflight[c].verdict
  OBVIOUS
<1>1. /\ a \in Asg /\ accepted \in Nat /\ defective \in Nat
      /\ verdict \in {"COMPLETED", "PARTIALLY_ACCEPTED", "REWORK_REQUIRED"}
  BY <1>a DEF AcceptCommit, Running, Inv, TypeInv, HandlersOK, HandlerOK
<1>2. Begun(a) /\ Status(a) # "IN_PROGRESS" /\ \A m \in Material : HeldFor(a, m) = 0
  BY <1>a DEF AcceptCommit, Running, Inv, AllLateOK, LateOK
<1> DEFINE paid == IF accepted > 0
                     THEN [work[a] EXCEPT !.rate = CurrentRate,
                                          !.pay = EarningFor(CurrentRate, accepted)]
                     ELSE work[a]
           row == [paid EXCEPT !.accepted = accepted, !.defective = defective, !.status = verdict]
<1>3. /\ MetersConsistent(row)
      /\ work' = [work EXCEPT ![a] = row]
      /\ EarnFor(AssignedTo[a], a, accepted)
      /\ Finish(c)
      /\ UNCHANGED <<qrLive, dropoff, pickups, handoffs, progressed, stockVars, jobVars>>
  BY <1>a, Zenon DEF AcceptCommit
<1>4. LedgerInv'
  <2>1. AssignedTo[a] \in Worker BY <1>1, AssignmentAssumption
  <2> QED BY <1>0, <1>1, <1>3, <2>1, EarnForKeepsLedger
<1>5. /\ paid \in Row /\ paid.kits = work[a].kits /\ paid.reported = work[a].reported
      /\ paid.delivered = work[a].delivered
  <2>0. work[a] \in Row BY <1>0, <1>1, WorkTypes
  <2>1. PICK rate, pay : rate = CurrentRate /\ pay = EarningFor(CurrentRate, accepted) OBVIOUS
  <2>2. rate \in Nat /\ pay \in Nat
    BY <1>0, <1>1, <2>1, CurrentRateIsRate, EarningIsNat DEF LedgerInv
  <2>3. PICK r1 : r1 = [work[a] EXCEPT !.rate = rate] OBVIOUS
  <2>4. PICK r2 : r2 = [r1 EXCEPT !.pay = pay] OBVIOUS
  <2>5. /\ r1 \in Row /\ r1.kits = work[a].kits /\ r1.reported = work[a].reported
        /\ r1.delivered = work[a].delivered
    BY <2>0, <2>2, <2>3 DEF Row
  <2>6. /\ r2 \in Row /\ r2.kits = work[a].kits /\ r2.reported = work[a].reported
        /\ r2.delivered = work[a].delivered
    BY <2>2, <2>4, <2>5 DEF Row
  <2>7. paid = IF accepted > 0 THEN r2 ELSE work[a] BY <2>1, <2>3, <2>4, Zenon
  <2> HIDE DEF paid
  <2> QED BY <2>0, <2>6, <2>7
<1> HIDE DEF paid
<1>6. /\ row \in Row /\ row.kits = work[a].kits /\ row.reported = work[a].reported
      /\ row.delivered = work[a].delivered /\ row.accepted = accepted
      /\ row.defective = defective /\ row.status = verdict
  <2>1. PICK r1 : r1 = [paid EXCEPT !.accepted = accepted] OBVIOUS
  <2>2. PICK r2 : r2 = [r1 EXCEPT !.defective = defective] OBVIOUS
  <2>3. PICK r3 : r3 = [r2 EXCEPT !.status = verdict] OBVIOUS
  <2>4. /\ r1 \in Row /\ r1.kits = work[a].kits /\ r1.reported = work[a].reported
        /\ r1.delivered = work[a].delivered /\ r1.accepted = accepted
    BY <1>1, <1>5, <2>1 DEF Row
  <2>5. /\ r2 \in Row /\ r2.kits = work[a].kits /\ r2.reported = work[a].reported
        /\ r2.delivered = work[a].delivered /\ r2.accepted = accepted /\ r2.defective = defective
    BY <1>1, <2>2, <2>4 DEF Row
  <2>6. verdict \in AssignmentStatus BY <1>1 DEF AssignmentStatus
  <2>7. /\ r3 \in Row /\ r3.kits = work[a].kits /\ r3.reported = work[a].reported
        /\ r3.delivered = work[a].delivered /\ r3.accepted = accepted
        /\ r3.defective = defective /\ r3.status = verdict
    BY <2>3, <2>5, <2>6 DEF Row
  <2>8. row = r3 BY <2>1, <2>2, <2>3, Zenon
  <2> QED BY <2>7, <2>8
<1> HIDE DEF row
<1>7. /\ work' \in [Asg -> Row] /\ work'[a] = row
      /\ \A b \in Asg \ {a} : work'[b] = work[b]
  BY <1>0, <1>1, <1>3, <1>6, RowWritten
<1>8. AssignmentTypeOK'
  BY <1>0, <1>3, <1>4, <1>7 DEF AssignmentTypeOK, Row, stockVars, StockTypeOK, LedgerInv, jobVars, JobTypeOK
<1>9. \A b \in Asg \ {a} : Same(b) BY <1>3, <1>7 DEF Same, stockVars
<1>10. /\ Status(a)' = verdict /\ Begun(a)' /\ PlannedCm(a)' = PlannedCm(a)
       /\ Awaiting(a)' = Awaiting(a) /\ Confirmed(a)' = Confirmed(a)
       /\ \A m \in Material : HeldFor(a, m)' = HeldFor(a, m) /\ KitQuantity(a, m)' = KitQuantity(a, m)
       /\ UNCHANGED <<qrLive, dropoff, pickups, handoffs, moved>>
  BY <1>1, <1>3, <1>6, <1>7
     DEF Status, Begun, PlannedCm, Awaiting, Confirmed, HeldFor, KitQuantity, stockVars
<1>11. Sound(a) BY <1>0, <1>1
<1>12. Awaiting(a) = {} BY <1>2, <1>11 DEF Sound, HandoffSound, Begun
<1>13. HandoffSound(a)' BY <1>1, <1>10, <1>11, <1>12 DEF Sound, HandoffSound
<1>14. CustodySound(a)' BY <1>1, <1>2, <1>10, <1>11 DEF Sound, CustodySound
<1>15. ClosingSound(a)' BY <1>1, <1>10 DEF ClosingSound
<1>16. MetersSound(a)' BY <1>3, <1>6, <1>7, <1>10, <1>11 DEF Sound, MetersSound, MetersConsistent
<1>17. Forward(a) BY <1>1, <1>6, <1>7, <1>10 DEF Forward
<1> QED BY <1>0, <1>1, <1>3, <1>4, <1>8, <1>9, <1>13, <1>14, <1>15, <1>16, <1>17,
           OneWorkChanges, CommitKeepsInv DEF Sound

(* cancel takes back or writes off exactly what she holds. *)
LEMMA CancelKitMoves ==
  ASSUME AssignmentTypeOK, NEW a \in Asg, CustodySound(a), Status(a) \in Cancellable,
         NEW returned \in BOOLEAN
  PROVE  /\ CancelKit(a, returned) \in [Material -> Move]
         /\ \A m \in Material :
              IF HeldFor(a, m) > 0
                THEN /\ CancelKit(a, returned)[m].type \in {"RETURN_FROM_WORKER", "WRITE_OFF"}
                     /\ CancelKit(a, returned)[m].quantity = HeldFor(a, m)
                ELSE CancelKit(a, returned)[m].type \in {"ADJUSTMENT_IN", "RECEIPT"}
<1> DEFINE moves == CancelKit(a, returned)
<1>1. \A m \in Material :
        moves[m] = IF KitQuantity(a, m) > 0 /\ HeldFor(a, m) > 0
                     THEN IF returned THEN TakenBack(HeldFor(a, m)) ELSE WrittenOff(HeldFor(a, m))
                     ELSE IF KitQuantity(a, m) > 0 /\ returned /\ Status(a) = "READY_TO_DELIVER"
                            THEN Unpacked(KitQuantity(a, m))
                     ELSE NoMovement
  BY DEF CancelKit, ForEach
<1>2. moves = [m \in Material |-> moves[m]] BY DEF CancelKit, ForEach
<1> HIDE DEF moves
<1>3. \A m \in Material : /\ KitQuantity(a, m) \in Nat /\ HeldFor(a, m) \in Nat
                          /\ HeldFor(a, m) > 0 => KitQuantity(a, m) > 0
  BY WorkTypes, HeldIsNat DEF CustodySound
<1>4. {"RETURN_FROM_WORKER", "WRITE_OFF", "ADJUSTMENT_IN"} \subseteq MovementType BY DEF MovementType
<1>5. \A n \in Nat :
        /\ TakenBack(n) \in Move /\ TakenBack(n).type = "RETURN_FROM_WORKER" /\ TakenBack(n).quantity = n
        /\ WrittenOff(n) \in Move /\ WrittenOff(n).type = "WRITE_OFF" /\ WrittenOff(n).quantity = n
        /\ Unpacked(n) \in Move /\ Unpacked(n).type = "ADJUSTMENT_IN"
  <2> SUFFICES ASSUME NEW n \in Nat
               PROVE  /\ TakenBack(n) \in Move /\ TakenBack(n).type = "RETURN_FROM_WORKER"
                      /\ TakenBack(n).quantity = n
                      /\ WrittenOff(n) \in Move /\ WrittenOff(n).type = "WRITE_OFF"
                      /\ WrittenOff(n).quantity = n
                      /\ Unpacked(n) \in Move /\ Unpacked(n).type = "ADJUSTMENT_IN"
    OBVIOUS
  <2>1. n \in Int /\ -n \in Int /\ 0 \in Int OBVIOUS
  <2> QED BY <1>4, <2>1, MovementIsMove DEF TakenBack, WrittenOff, Unpacked
<1>6. ASSUME NEW m \in Material
      PROVE  /\ moves[m] \in Move
             /\ IF HeldFor(a, m) > 0
                  THEN /\ moves[m].type \in {"RETURN_FROM_WORKER", "WRITE_OFF"}
                       /\ moves[m].quantity = HeldFor(a, m)
                  ELSE moves[m].type \in {"ADJUSTMENT_IN", "RECEIPT"}
  BY <1>1, <1>3, <1>5, NoMovementIsMove
<1> QED BY <1>2, <1>6 DEF moves

(* cancel: everything open is closed and her hands are empty. *)
LEMMA CancelKeepsInv ==
  ASSUME Inv, NEW a \in Asg, NEW returned \in BOOLEAN, Cancel(a, returned)
  PROVE  Inv'
<1>0. AssignmentTypeOK /\ StockTypeOK /\ Sound(a) /\ \A b \in Asg : Sound(b)
  BY DEF Inv, TypeInv, AssignmentTypeOK
<1> DEFINE moves == CancelKit(a, returned)
<1>1. /\ Status(a) \in Cancellable
      /\ RecordMovements(a, AssignedTo[a], moves)
      /\ dropoff' = [dropoff EXCEPT ![a] = IF @ = "PENDING" THEN "CANCELLED" ELSE @]
      /\ pickups' = [pickups EXCEPT ![a] = PendingCancelled(pickups[a])]
      /\ handoffs' = [handoffs EXCEPT ![a] = OpenExpired(a)]
      /\ qrLive' = [qrLive EXCEPT ![a] = FALSE]
      /\ work' = [work EXCEPT ![a].status = "CANCELLED"]
      /\ UNCHANGED <<progressed, material, ledgerVars, jobVars, inflight>>
  BY DEF Cancel
<1>2. /\ moves \in [Material -> Move]
      /\ \A m \in Material :
           IF HeldFor(a, m) > 0
             THEN /\ moves[m].type \in {"RETURN_FROM_WORKER", "WRITE_OFF"}
                  /\ moves[m].quantity = HeldFor(a, m)
             ELSE moves[m].type \in {"ADJUSTMENT_IN", "RECEIPT"}
  BY <1>0, <1>1, CancelKitMoves DEF Sound
<1>3. \A m \in Material : HeldFor(a, m) \in Nat BY <1>0, HeldIsNat DEF Sound
<1>4. AssignedTo[a] \in Worker BY AssignmentAssumption
<1> HIDE DEF moves
<1>5. /\ StockTypeOK'
      /\ \A m \in Material, t \in MovementType :
           moved'[a][m][t] = IF t = moves[m].type THEN moved[a][m][t] + moves[m].quantity
                                                  ELSE moved[a][m][t]
      /\ \A b \in Asg \ {a} : moved'[b] = moved[b]
  BY <1>0, <1>1, <1>2, <1>4, StockAfter
<1>6. \A m \in Material : /\ moved'[a][m]["ISSUE_TO_WORKER"] = moved[a][m]["ISSUE_TO_WORKER"]
                          /\ HeldFor(a, m)' = 0
  <2> SUFFICES ASSUME NEW m \in Material
               PROVE  /\ moved'[a][m]["ISSUE_TO_WORKER"] = moved[a][m]["ISSUE_TO_WORKER"]
                      /\ HeldFor(a, m)' = 0
    OBVIOUS
  <2>1. \A t \in MovementType : moved[a][m][t] \in Nat BY <1>0, WorkTypes
  <2>2. {"ISSUE_TO_WORKER", "CONSUMPTION", "RETURN_FROM_WORKER", "WRITE_OFF"} \subseteq MovementType
    BY DEF MovementType
  <2>3. /\ moved'[a][m]["ISSUE_TO_WORKER"] = moved[a][m]["ISSUE_TO_WORKER"]
        /\ moved'[a][m]["CONSUMPTION"] = moved[a][m]["CONSUMPTION"]
    BY <1>2, <1>5, <2>2
  <2>4. CASE HeldFor(a, m) > 0
    <3>1. CASE moves[m].type = "RETURN_FROM_WORKER"
      <4>1. /\ moved'[a][m]["RETURN_FROM_WORKER"] = moved[a][m]["RETURN_FROM_WORKER"] + HeldFor(a, m)
            /\ moved'[a][m]["WRITE_OFF"] = moved[a][m]["WRITE_OFF"]
        BY <1>2, <1>5, <2>2, <2>4, <3>1
      <4> QED BY <1>3, <2>1, <2>2, <2>3, <4>1 DEF HeldFor
    <3>2. CASE moves[m].type = "WRITE_OFF"
      <4>1. /\ moved'[a][m]["WRITE_OFF"] = moved[a][m]["WRITE_OFF"] + HeldFor(a, m)
            /\ moved'[a][m]["RETURN_FROM_WORKER"] = moved[a][m]["RETURN_FROM_WORKER"]
        BY <1>2, <1>5, <2>2, <2>4, <3>2
      <4> QED BY <1>3, <2>1, <2>2, <2>3, <4>1 DEF HeldFor
    <3> QED BY <1>2, <2>4, <3>1, <3>2
  <2>5. CASE ~(HeldFor(a, m) > 0)
    <3>1. /\ moved'[a][m]["WRITE_OFF"] = moved[a][m]["WRITE_OFF"]
          /\ moved'[a][m]["RETURN_FROM_WORKER"] = moved[a][m]["RETURN_FROM_WORKER"]
      BY <1>2, <1>5, <2>2, <2>5
    <3> QED BY <1>3, <2>3, <2>5, <3>1 DEF HeldFor
  <2> QED BY <2>4, <2>5
<1>7. PICK row : row = [work[a] EXCEPT !.status = "CANCELLED"] OBVIOUS
<1>8. /\ row \in Row /\ row.status = "CANCELLED" /\ row.kits = work[a].kits
      /\ row.accepted = work[a].accepted /\ row.defective = work[a].defective
      /\ row.delivered = work[a].delivered /\ row.reported = work[a].reported
  BY <1>0, <1>7, WorkTypes DEF Row, AssignmentStatus
<1>9. work' = [work EXCEPT ![a] = row] BY <1>1, <1>7
<1>10. /\ work' \in [Asg -> Row] /\ work'[a] = row
       /\ \A b \in Asg \ {a} : work'[b] = work[b]
  BY <1>0, <1>8, <1>9, RowWritten
<1>11. PICK ds : ds = PendingCancelled(pickups[a]) OBVIOUS
<1>12. ds \in Seq(DeliveryStatus) /\ \A i \in DOMAIN ds : ds[i] # "PENDING"
  <2>1. pickups[a] \in Seq(DeliveryStatus) /\ "CANCELLED" \in DeliveryStatus
    BY <1>0, WorkTypes DEF DeliveryStatus
  <2>2. ds \in [DOMAIN pickups[a] -> DeliveryStatus] /\ \A i \in DOMAIN ds : ds[i] # "PENDING"
    BY <1>11, <2>1 DEF PendingCancelled
  <2> QED BY <2>1, <2>2
<1>13. /\ pickups' \in [Asg -> Seq(DeliveryStatus)] /\ pickups'[a] = ds
       /\ \A b \in Asg \ {a} : pickups'[b] = pickups[b]
  BY <1>0, <1>1, <1>11, <1>12 DEF AssignmentTypeOK
<1>14. PICK hs : hs = OpenExpired(a) OBVIOUS
<1>15. /\ hs \in Seq(Handoff) /\ DOMAIN hs = DOMAIN handoffs[a]
       /\ \A i \in DOMAIN handoffs[a] :
            hs[i].state = IF i \in Awaiting(a) THEN "EXPIRED" ELSE handoffs[a][i].state
  BY <1>0, <1>14, ExpiringOpen
<1>16. /\ handoffs' \in [Asg -> Seq(Handoff)] /\ handoffs'[a] = hs
       /\ \A b \in Asg \ {a} : handoffs'[b] = handoffs[b]
  BY <1>0, <1>1, <1>14, <1>15 DEF AssignmentTypeOK, Handoff
<1>17. Awaiting(a)' = {} /\ Confirmed(a)' = Confirmed(a) BY <1>15, <1>16 DEF Awaiting, Confirmed
<1>18. qrLive' \in [Asg -> BOOLEAN] /\ ~qrLive'[a] /\ \A b \in Asg \ {a} : qrLive'[b] = qrLive[b]
  <2>1. qrLive \in [Asg -> BOOLEAN] BY <1>0 DEF AssignmentTypeOK
  <2> QED BY <1>1, <2>1
<1>19. /\ dropoff' \in [Asg -> DeliveryStatus \cup {"NONE"}] /\ dropoff'[a] # "PENDING"
       /\ dropoff[a] = "COMPLETED" => dropoff'[a] = "COMPLETED"
       /\ \A b \in Asg \ {a} : dropoff'[b] = dropoff[b]
  BY <1>0, <1>1 DEF AssignmentTypeOK, DeliveryStatus
<1>20. AssignmentTypeOK'
  BY <1>0, <1>1, <1>5, <1>10, <1>13, <1>16, <1>18, <1>19
     DEF AssignmentTypeOK, Row, Handoff, ledgerVars, LedgerTypeOK, jobVars, JobTypeOK
<1>21. \A b \in Asg \ {a} : Same(b) BY <1>5, <1>10, <1>13, <1>16, <1>18, <1>19 DEF Same
<1>22. /\ Status(a)' = "CANCELLED" /\ Begun(a)' /\ PlannedCm(a)' = PlannedCm(a)
       /\ \A m \in Material : KitQuantity(a, m)' = KitQuantity(a, m)
  BY <1>8, <1>10 DEF Status, Begun, PlannedCm, KitQuantity
<1>23. HandoffSound(a)' BY <1>0, <1>17, <1>19, <1>22 DEF Sound, HandoffSound
<1>24. CustodySound(a)' BY <1>0, <1>6, <1>17, <1>22 DEF Sound, CustodySound
<1>25. ClosingSound(a)' BY <1>12, <1>13, <1>18, <1>19, <1>22 DEF ClosingSound
<1>26. MetersSound(a)' BY <1>0, <1>8, <1>10, <1>22 DEF Sound, MetersSound
<1>27. Forward(a) BY <1>6, <1>8, <1>10, <1>22 DEF Forward
<1> QED BY <1>0, <1>1, <1>20, <1>21, <1>23, <1>24, <1>25, <1>26, <1>27,
           OneWorkChanges, LockedKeepsInv DEF Sound

-----------------------------------------------------------------------------
(* Every handler with a check before its transaction. *)
LEMMA WorkStepKeepsInv ==
  ASSUME Inv, NEW c \in Client, WorkStep(c)
  PROVE  Inv'
<1>0. AssignmentTypeOK /\ \A a \in Asg : Sound(a) BY DEF Inv, TypeInv
<1>1. ASSUME NEW w \in Worker, NEW r \in Request \cup {NoRequest}, NEW k \in KitCounts,
             CreateBegin(c, w, r, k)
      PROVE  Inv'
  <2>1. PICK h : h = [op |-> "create", worker |-> w, req |-> r, kits |-> k] OBVIOUS
  <2>2. HandlerOK(h) /\ LateOK(h) BY <2>1 DEF HandlerOK, LateOK
  <2>3. AsgBegin(c, h) BY <1>1, <2>1 DEF CreateBegin
  <2> QED BY <2>2, <2>3, BeginKeepsInv
<1>2. ASSUME NEW a \in Asg, NEW i \in DOMAIN handoffs[a], ScanBegin(c, a, i) PROVE Inv'
  <2>1. PICK h : h = [op |-> "scan", asg |-> a, handoff |-> i] OBVIOUS
  <2>2. HandlerOK(h) /\ LateOK(h) BY <2>1 DEF HandlerOK, LateOK
  <2>3. AsgBegin(c, h) BY <1>2, <2>1 DEF ScanBegin
  <2> QED BY <2>2, <2>3, BeginKeepsInv
<1>3. ASSUME NEW a \in Asg, NEW i \in DOMAIN pickups[a], PickupBegin(c, a, i) PROVE Inv'
  <2>1. PICK h : h = [op |-> "pickup", asg |-> a, delivery |-> i, cm |-> ReportedLength(a)] OBVIOUS
  <2>2. ReportedLength(a) \in Nat /\ ReportedLength(a) <= PlannedCm(a) /\ Begun(a)
    BY <1>0, <1>3, WorkTypes DEF PickupBegin, ReportedLength, Sound, MetersSound, Begun
  <2>3. HandlerOK(h) /\ LateOK(h) BY <2>1, <2>2 DEF HandlerOK, LateOK
  <2>4. AsgBegin(c, h) BY <1>3, <2>1 DEF PickupBegin
  <2> QED BY <2>3, <2>4, BeginKeepsInv
<1>4. ASSUME NEW a \in Asg, NEW cm \in Lengths, ReadyBegin(c, a, cm) PROVE Inv'
  <2>1. PICK h : h = [op |-> "ready", asg |-> a, cm |-> cm] OBVIOUS
  <2>2. cm \in Nat /\ cm <= PlannedCm(a) /\ Begun(a)
    BY <1>4, AssignmentAssumption DEF ReadyBegin, WithinPlan, Begun
  <2>3. HandlerOK(h) /\ LateOK(h) BY <2>1, <2>2 DEF HandlerOK, LateOK
  <2>4. AsgBegin(c, h) BY <1>4, <2>1 DEF ReadyBegin
  <2> QED BY <2>3, <2>4, BeginKeepsInv
<1>5. ASSUME NEW a \in Asg, NEW cm \in Lengths, NEW id \in ReportId, ProgressBegin(c, a, cm, id)
      PROVE  Inv'
  <2>1. PICK h : h = [op |-> "progress", asg |-> a, cm |-> cm, id |-> id] OBVIOUS
  <2>2. cm \in Nat /\ cm <= PlannedCm(a) /\ Begun(a)
    BY <1>5, AssignmentAssumption DEF ProgressBegin, WithinPlan, Begun
  <2>3. HandlerOK(h) /\ LateOK(h) BY <2>1, <2>2 DEF HandlerOK, LateOK
  <2>4. AsgBegin(c, h) BY <1>5, <2>1 DEF ProgressBegin
  <2> QED BY <2>3, <2>4, BeginKeepsInv
<1>6. ASSUME NEW a \in Asg, NEW brought \in Lengths, NEW accepted \in Lengths,
             NEW defective \in Lengths, AcceptBegin(c, a, brought, accepted, defective)
      PROVE  Inv'
  <2>1. PICK h : h = [op |-> "accept", asg |-> a, accepted |-> accepted, defective |-> defective,
                      verdict |-> Verdict(accepted, brought)]
    OBVIOUS
  <2>2. /\ accepted \in Nat /\ defective \in Nat
        /\ Verdict(accepted, brought) \in {"COMPLETED", "PARTIALLY_ACCEPTED", "REWORK_REQUIRED"}
    BY AssignmentAssumption DEF Verdict
  <2>3. /\ Begun(a) /\ Status(a) # "IN_PROGRESS"
        /\ \A m \in Material : HeldFor(a, m) = 0
    BY <1>0, <1>6 DEF AcceptBegin, Begun, Sound, CustodySound
  <2>4. HandlerOK(h) /\ LateOK(h) BY <2>1, <2>2, <2>3 DEF HandlerOK, LateOK
  <2>5. AsgBegin(c, h) BY <1>6, <2>1 DEF AcceptBegin
  <2> QED BY <2>4, <2>5, BeginKeepsInv
<1> QED
  BY <1>1, <1>2, <1>3, <1>4, <1>5, <1>6, CreateKeepsInv, ScanKeepsInv, ProgressKeepsInv,
     ReadyKeepsInv, PickupKeepsInv, AcceptKeepsInv DEF WorkStep

(* Every handler under the row lock. *)
LEMMA LockedStepKeepsInv ==
  ASSUME Inv, NEW a \in Asg, LockedStep(a)
  PROVE  Inv'
BY StartHandoffKeepsInv, HandoffLapsesKeepsInv, ConfirmKeepsInv, ProblemKeepsInv, CancelKeepsInv
   DEF LockedStep

(* Handlers of other parts of the system carry nothing about a work. *)
Unrelated(h) == h.op \notin {"progress", "ready", "pickup", "accept"}

(* A step of another part of the system: no work changes, and no slot gets *)
(* a handler that will change one.                                         *)
LEMMA QuietStep ==
  ASSUME Inv, AssignmentTypeOK', HandlersOK', LedgerInv', \A a \in Asg : Same(a),
         \A d \in Client : inflight'[d] = inflight[d] \/ Unrelated(inflight'[d])
  PROVE  Inv'
<1>1. \A a \in Asg : Sound(a)' /\ Forward(a) BY SameKeepsSound DEF Inv
<1>2. AllLateOK'
  <2> SUFFICES ASSUME NEW d \in Client PROVE LateOK(inflight[d])' BY DEF AllLateOK
  <2>1. CASE Unrelated(inflight'[d]) BY <2>1 DEF Unrelated, LateOK
  <2>2. CASE inflight'[d] = inflight[d]
    <3>1. PICK h : h = inflight[d] OBVIOUS
    <3>2. LateOK(h)' BY <1>1, <3>1, ForwardKeepsLate DEF Inv, TypeInv, HandlersOK, AllLateOK
    <3> QED BY <2>2, <3>1, <3>2
  <2> QED BY <2>1, <2>2
<1> QED BY <1>1, <1>2 DEF Inv, TypeInv

(* Such a step fills or frees one slot. *)
LEMMA SlotStep ==
  ASSUME HandlersOK, NEW c \in Client, NEW h, Unrelated(h), Start(c, h) \/ Finish(c)
  PROVE  \A d \in Client : inflight'[d] = inflight[d] \/ Unrelated(inflight'[d])
<1>1. Unrelated(NoHandler) BY DEF Unrelated, NoHandler
<1> QED BY <1>1 DEF HandlersOK, Start, Finish

(* Job requests and worker statuses. *)
LEMMA JobStepKeepsInv ==
  ASSUME Inv, NEW c \in Client, JobStep(c), UNCHANGED <<workVars, stockVars, ledgerVars>>
  PROVE  Inv'
<1>0. AssignmentTypeOK /\ JobTypeOK /\ HandlersOK BY DEF Inv, TypeInv, AssignmentTypeOK
<1>1. JobTypeOK' /\ HandlersOK' BY <1>0, JobStepTypes
<1>2. AssignmentTypeOK'
  BY <1>0, <1>1 DEF AssignmentTypeOK, workVars, stockVars, StockTypeOK, ledgerVars, LedgerTypeOK
<1>3. \A a \in Asg : Same(a) BY DEF Same, workVars, stockVars
<1>4. LedgerInv' BY LedgerStep DEF Inv
<1>5. \A d \in Client : inflight'[d] = inflight[d] \/ Unrelated(inflight'[d])
  <2>1. ASSUME NEW r \in Request, RequestBegin(c, r) \/ WithdrawBegin(c, r) \/ RejectBegin(c, r)
        PROVE  \E h : Unrelated(h) /\ Start(c, h)
    <3>1. PICK op \in {"request", "withdraw", "reject"} : Start(c, [op |-> op, req |-> r])
      BY <2>1 DEF RequestBegin, WithdrawBegin, RejectBegin
    <3>2. Unrelated([op |-> op, req |-> r]) BY DEF Unrelated
    <3> QED BY <3>1, <3>2
  <2>2. ASSUME NEW w \in Managed, NEW s \in WorkerStatus, SetStatusBegin(c, w, s)
        PROVE  \E h : Unrelated(h) /\ Start(c, h)
    <3>1. Unrelated([op |-> "setStatus", worker |-> w, status |-> s]) BY DEF Unrelated
    <3> QED BY <2>2, <3>1 DEF SetStatusBegin
  <2>3. Unrelated(NoHandler) BY DEF Unrelated, NoHandler
  <2>4. \E h : Unrelated(h) /\ (Start(c, h) \/ Finish(c))
    BY <2>1, <2>2, <2>3 DEF JobStep, RequestCommit, WithdrawCommit, RejectCommit, SetStatusCommit
  <2> QED BY <1>0, <2>4, SlotStep
<1> QED BY <1>1, <1>2, <1>3, <1>4, <1>5, QuietStep

(* Bonuses, payouts and price changes. *)
LEMMA LedgerStepKeepsInv ==
  ASSUME Inv, LedgerNext, UNCHANGED <<workVars, stockVars, jobVars, inflight>>
  PROVE  Inv'
<1>1. LedgerInv' BY LedgerStep DEF Inv
<1>2. AssignmentTypeOK'
  BY <1>1 DEF Inv, TypeInv, AssignmentTypeOK, workVars, stockVars, StockTypeOK, jobVars, JobTypeOK, LedgerInv
<1>3. \A a \in Asg : Same(a) BY DEF Same, workVars, stockVars
<1>4. HandlersOK' BY DEF Inv, TypeInv, HandlersOK
<1> QED BY <1>1, <1>2, <1>3, <1>4, QuietStep

(* The stock on its own. *)
LEMMA StockStepKeepsInv ==
  ASSUME Inv, StockNext, UNCHANGED <<workVars, ledgerVars, jobVars>>
  PROVE  Inv'
<1>0. AssignmentTypeOK /\ StockTypeOK /\ HandlersOK BY DEF Inv, TypeInv, AssignmentTypeOK
<1>1. StockTypeOK' /\ HandlersOK' /\ \A a \in Asg : moved'[a] = moved[a] BY <1>0, StockStep
<1>2. AssignmentTypeOK'
  BY <1>0, <1>1 DEF AssignmentTypeOK, workVars, ledgerVars, LedgerTypeOK, jobVars, JobTypeOK
<1>3. \A a \in Asg : Same(a) BY <1>1 DEF Same, workVars
<1>4. LedgerInv' BY LedgerStep DEF Inv
<1>5. \A d \in Client : inflight'[d] = inflight[d] \/ Unrelated(inflight'[d])
  <2>1. Unrelated(NoHandler) BY DEF Unrelated, NoHandler
  <2>2. CASE UNCHANGED inflight BY <2>2
  <2>3. ASSUME NEW c \in Client, AbandonStock(c)
        PROVE  \A d \in Client : inflight'[d] = inflight[d] \/ Unrelated(inflight'[d])
    <3>1. Finish(c) BY <2>3 DEF AbandonStock, Abandon
    <3>2. PICK h : h = NoHandler OBVIOUS
    <3>3. Unrelated(h) BY <2>1, <3>2
    <3> QED BY <1>0, <3>1, <3>3, SlotStep
  <2> QED BY <2>2, <2>3 DEF StockNext, Receipt, AdjustIn, AdjustOut, WriteOff, Assemble
<1> QED BY <1>1, <1>2, <1>3, <1>4, <1>5, QuietStep

(* The invariant is kept by every step of the program. *)
LEMMA InvStep ==
  Inv /\ [AssignmentNext]_assignmentVars => Inv'
<1> SUFFICES ASSUME Inv, [AssignmentNext]_assignmentVars PROVE Inv' OBVIOUS
<1>1. CASE UNCHANGED assignmentVars
  <2>1. UNCHANGED <<workVars, stockVars, ledgerVars, jobVars, inflight>> BY <1>1 DEF assignmentVars
  <2>2. LedgerInv' BY <2>1, LedgerStep DEF Inv
  <2>3. AssignmentTypeOK'
    BY <2>1, <2>2
       DEF Inv, TypeInv, AssignmentTypeOK, workVars, stockVars, StockTypeOK, jobVars, JobTypeOK,
           LedgerInv
  <2>4. \A a \in Asg : Same(a) BY <2>1 DEF Same, workVars, stockVars
  <2>5. HandlersOK' BY <2>1 DEF Inv, TypeInv, HandlersOK
  <2> QED BY <2>1, <2>2, <2>3, <2>4, <2>5, QuietStep
<1> QED
  BY <1>1, WorkStepKeepsInv, LockedStepKeepsInv, JobStepKeepsInv, LedgerStepKeepsInv, StockStepKeepsInv
     DEF AssignmentNext

(* And it holds of an empty database. *)
LEMMA InvStart == AssignmentInit => Inv
<1> SUFFICES ASSUME AssignmentInit PROVE Inv OBVIOUS
<1>0. StockInit /\ LedgerInit /\ JobInit /\ HandlersInit BY DEF AssignmentInit
<1>1. StockTypeOK
  <2>1. NothingMoved \in [MovementType -> Nat] BY DEF NothingMoved
  <2>2. "RECEIPT" \in MovementType BY DEF MovementType
  <2>3. \A m \in Material : [NothingMoved EXCEPT !["RECEIPT"] = Opening[m]] \in [MovementType -> Nat]
    BY <2>1, <2>2, StockAssumption
  <2>4. moved \in [Source -> [Material -> [MovementType -> Nat]]]
    BY <1>0, <2>1, <2>3 DEF StockInit
  <2> QED BY <1>0, <2>4, StockAssumption DEF StockInit, StockTypeOK
<1>2. LedgerInv BY <1>0, LedgerStart
<1>3. JobTypeOK BY <1>0 DEF JobInit, JobTypeOK, WorkerStatus, RequestStatus
<1>4. HandlersOK BY <1>0 DEF HandlersInit, HandlersOK, HandlerOK, NoHandler
<1>5. AllLateOK BY <1>0 DEF HandlersInit, AllLateOK, LateOK, NoHandler
<1>6. AssignmentTypeOK
  <2>1. NoWork \in Row BY AssignmentAssumption DEF NoWork, Row, AssignmentStatus
  <2>2. <<>> \in Seq(DeliveryStatus) /\ <<>> \in Seq(Handoff) OBVIOUS
  <2>3. work \in [Asg -> Row] BY <2>1 DEF AssignmentInit
  <2>4. /\ qrLive \in [Asg -> BOOLEAN]
        /\ dropoff \in [Asg -> DeliveryStatus \cup {"NONE"}]
        /\ pickups \in [Asg -> Seq(DeliveryStatus)]
        /\ handoffs \in [Asg -> Seq(Handoff)]
        /\ progressed \in [Asg -> SUBSET ReportId]
    BY <2>2 DEF AssignmentInit
  <2> QED BY <1>1, <1>2, <1>3, <2>3, <2>4 DEF AssignmentTypeOK, Row, Handoff, LedgerInv
<1>7. ASSUME NEW a \in Asg PROVE Sound(a)
  <2>1. /\ work[a] = NoWork /\ Status(a) = "NONE" /\ handoffs[a] = <<>>
    BY DEF AssignmentInit, Status, NoWork
  <2>2. DOMAIN <<>> = {} OBVIOUS
  <2>3. Awaiting(a) = {} /\ Confirmed(a) = {} BY <2>1, <2>2 DEF Awaiting, Confirmed
  <2>4. a \in Source /\ a # NoAsg BY StockAssumption DEF Source
  <2>5. \A m \in Material : moved[a][m] = NothingMoved BY <1>0, <2>4 DEF StockInit
  <2>6. \A m \in Material : HeldFor(a, m) = 0 /\ moved[a][m]["ISSUE_TO_WORKER"] = 0
    BY <2>5 DEF HeldFor, NothingMoved, MovementType
  <2>7. HandoffSound(a) BY <2>1, <2>3 DEF HandoffSound
  <2>8. CustodySound(a) BY <2>1, <2>3, <2>6 DEF CustodySound
  <2>9. ClosingSound(a) BY <2>1 DEF ClosingSound
  <2>10. MetersSound(a)
    <3>1. PlannedCm(a) \in Nat BY <1>6, WorkTypes
    <3> QED BY <2>1, <3>1 DEF MetersSound, NoWork
  <2> QED BY <2>7, <2>8, <2>9, <2>10 DEF Sound
<1> QED BY <1>2, <1>4, <1>5, <1>6, <1>7 DEF Inv, TypeInv

(* The invariant holds in every state of every run. *)
THEOREM InvAlways == AssignmentSpec => []Inv
<1>1. AssignmentInit => Inv BY InvStart
<1>2. Inv /\ [AssignmentNext]_assignmentVars => Inv' BY InvStep
<1> QED BY <1>1, <1>2, PTL DEF AssignmentSpec

(* Every column keeps a value its table admits, also under late commits.   *)
THEOREM TypesHold == AssignmentSpec => []AssignmentTypeOK
<1>1. Inv => AssignmentTypeOK BY DEF Inv, TypeInv
<1> QED BY <1>1, InvAlways, PTL

(* Custody follows the work however handlers overlap: the movements of a   *)
(* work say she holds nothing before she confirms, the whole kit while she *)
(* sews, nothing after pickup or cancellation.                             *)
THEOREM CustodyFollows == AssignmentSpec => []CustodyFollowsStatus
<1>1. Inv => CustodyFollowsStatus BY DEF Inv, Sound, CustodySound, CustodyFollowsStatus
<1> QED BY <1>1, InvAlways, PTL

(* A kit is booked to the worker exactly when one of its handoffs is       *)
(* CONFIRMED, and never twice.                                             *)
THEOREM KitIsReceivedOnce == AssignmentSpec => []OneReceipt
<1>1. Inv => OneReceipt BY DEF Inv, Sound, CustodySound, OneReceipt
<1> QED BY <1>1, InvAlways, PTL

(* An open handoff is the last one of a kit that waits under a living QR,  *)
(* and at most one handoff is confirmed: what the two partial unique       *)
(* indexes of assignment_handoffs demand is never put to the test.         *)
THEOREM HandoffIsCurrent == AssignmentSpec => []OpenHandoffIsCurrent
<1>1. Inv => OpenHandoffIsCurrent BY DEF Inv, Sound, HandoffSound, OpenHandoffIsCurrent
<1> QED BY <1>1, InvAlways, PTL

(* Work that waits for pickup has a pending pickup for completePickup to   *)
(* complete, whatever overlapped before.                                   *)
THEOREM PickupStaysPossible == AssignmentSpec => []PickupIsPossible
<1>1. Inv => PickupIsPossible BY DEF Inv, Sound, ClosingSound, PickupIsPossible
<1> QED BY <1>1, InvAlways, PTL

(* While a work is cancelled its QR, handoffs, deliveries and custody stay *)
(* closed, with any handlers still in flight.                              *)
THEOREM CancelledStaysClosed == AssignmentSpec => []CancelledIsClosed
<1>1. Inv => CancelledIsClosed
  <2> SUFFICES ASSUME Inv, NEW a \in Asg, Status(a) = "CANCELLED"
               PROVE  /\ ~qrLive[a] /\ Awaiting(a) = {}
                      /\ dropoff[a] # "PENDING"
                      /\ \A i \in DOMAIN pickups[a] : pickups[a][i] # "PENDING"
                      /\ \A m \in Material : HeldFor(a, m) = 0
    BY DEF CancelledIsClosed
  <2>1. HandoffSound(a) /\ CustodySound(a) /\ ClosingSound(a) BY DEF Inv, Sound
  <2>2. Awaiting(a) = {} BY <2>1 DEF HandoffSound
  <2>3. \A m \in Material : HeldFor(a, m) = 0 BY <2>1 DEF CustodySound
  <2> QED BY <2>1, <2>2, <2>3 DEF ClosingSound
<1> QED BY <1>1, InvAlways, PTL

(* What is reported, brought back and judged stays within the plan of the  *)
(* work, also when a late report or pickup overwrites what was there.      *)
THEOREM MetersStayWithinPlan == AssignmentSpec => []MetersWithinPlan
<1>1. Inv => MetersWithinPlan BY DEF Inv, Sound, MetersSound, MetersWithinPlan
<1> QED BY <1>1, InvAlways, PTL

(* The ledger stays one unbroken chain under everything the assignments do *)
(* to it: debt is forced only, a bonus is paid once - also when an         *)
(* acceptance commits late or twice.                                       *)
THEOREM LedgerIsSoundUnderWork ==
  AssignmentSpec => [](LedgerChain /\ DebtIsForced /\ BonusPaidOnce)
<1>1. Inv => LedgerChain /\ DebtIsForced /\ BonusPaidOnce BY DEF Inv, LedgerInv
<1> QED BY <1>1, InvAlways, PTL

(* It is so while assignments are accepted and paid.                       *)
THEOREM BalanceIsTheSumUnderWork == AssignmentSpec => []BalanceIsSum
<1>1. Inv => BalanceIsSum BY ChainIsSum DEF Inv, LedgerInv
<1> QED BY <1>1, InvAlways, PTL

-----------------------------------------------------------------------------
(* Only the transaction of create writes which request a work answers and  *)
(* how many kits it has.                                                   *)
SameOrder(row, old) == row.req = old.req /\ row.kits = old.kits
OrderKept == \A a \in Asg : SameOrder(work'[a], work[a])

(* No other handler touches these columns. *)
LEMMA StepKeepsOrder ==
  ASSUME Inv, [AssignmentNext]_assignmentVars, \A c \in Client : ~CreateCommit(c)
  PROVE  OrderKept
<1>0. \A a \in Asg : work[a] \in Row BY WorkTypes DEF Inv, TypeInv
<1>1. CASE UNCHANGED work BY <1>1 DEF OrderKept, SameOrder
<1>2. ASSUME NEW a, NEW row, work' = [work EXCEPT ![a] = row], SameOrder(row, work[a])
      PROVE  OrderKept
  BY <1>2 DEF OrderKept, SameOrder, Inv, TypeInv, AssignmentTypeOK
<1>3. ASSUME NEW c \in Client, ProgressCommit(c) PROVE OrderKept
  <2>1. PICK a, cm : a = inflight[c].asg /\ cm = inflight[c].cm OBVIOUS
  <2>2. a \in Asg
    BY <1>3, <2>1 DEF ProgressCommit, Running, Inv, TypeInv, HandlersOK, HandlerOK
  <2>3. PICK row : row = [work[a] EXCEPT !.reported = cm] OBVIOUS
  <2>4. SameOrder(row, work[a]) BY <1>0, <2>2, <2>3 DEF Row, SameOrder
  <2>5. work' = [work EXCEPT ![a] = row] BY <1>3, <2>1, <2>3 DEF ProgressCommit
  <2> QED BY <1>2, <2>4, <2>5
<1>4. ASSUME NEW c \in Client, ReadyCommit(c) PROVE OrderKept
  <2>1. PICK a, cm : a = inflight[c].asg /\ cm = inflight[c].cm OBVIOUS
  <2>2. a \in Asg BY <1>4, <2>1 DEF ReadyCommit, Running, Inv, TypeInv, HandlersOK, HandlerOK
  <2>3. PICK w1 : w1 = [work EXCEPT ![a].status = "READY_FOR_PICKUP"] OBVIOUS
  <2>4. work' = [w1 EXCEPT ![a].reported = cm] BY <1>4, <2>1, <2>3, Zenon DEF ReadyCommit
  <2>5. w1 \in [Asg -> Row] /\ \A b \in Asg : SameOrder(w1[b], work[b])
    <3>1. PICK r1 : r1 = [work[a] EXCEPT !.status = "READY_FOR_PICKUP"] OBVIOUS
    <3>2. r1 \in Row /\ SameOrder(r1, work[a]) BY <1>0, <2>2, <3>1 DEF Row, AssignmentStatus, SameOrder
    <3> QED BY <2>2, <2>3, <3>1, <3>2 DEF Inv, TypeInv, AssignmentTypeOK, Row, SameOrder
  <2>6. \A b \in Asg : SameOrder(work'[b], w1[b])
    <3>1. PICK r2 : r2 = [w1[a] EXCEPT !.reported = cm] OBVIOUS
    <3>2. SameOrder(r2, w1[a]) BY <2>2, <2>5, <3>1 DEF Row, SameOrder
    <3> QED BY <2>2, <2>4, <2>5, <3>1, <3>2 DEF SameOrder
  <2> QED BY <2>5, <2>6 DEF OrderKept, SameOrder
<1>5. ASSUME NEW c \in Client, PickupCommit(c) PROVE OrderKept
  <2>1. PICK a, cm : a = inflight[c].asg /\ cm = inflight[c].cm OBVIOUS
  <2>2. a \in Asg BY <1>5, <2>1 DEF PickupCommit, Running, Inv, TypeInv, HandlersOK, HandlerOK
  <2>3. PICK r1 : r1 = [work[a] EXCEPT !.status = "UNDER_REVIEW"] OBVIOUS
  <2>4. PICK row : row = [r1 EXCEPT !.delivered = cm] OBVIOUS
  <2>5. r1 \in Row /\ SameOrder(r1, work[a]) BY <1>0, <2>2, <2>3 DEF Row, AssignmentStatus, SameOrder
  <2>6. SameOrder(row, work[a]) BY <2>4, <2>5 DEF Row, SameOrder
  <2>7. work' = [work EXCEPT ![a] = row] BY <1>5, <2>1, <2>3, <2>4, Zenon DEF PickupCommit
  <2> QED BY <1>2, <2>6, <2>7
<1>6. ASSUME NEW c \in Client, AcceptCommit(c) PROVE OrderKept
  <2>1. PICK a, accepted, defective, verdict :
          /\ a = inflight[c].asg /\ accepted = inflight[c].accepted
          /\ defective = inflight[c].defective /\ verdict = inflight[c].verdict
    OBVIOUS
  <2>2. a \in Asg BY <1>6, <2>1 DEF AcceptCommit, Running, Inv, TypeInv, HandlersOK, HandlerOK
  <2>3. PICK rate, pay : rate = CurrentRate /\ pay = EarningFor(CurrentRate, accepted) OBVIOUS
  <2>4. PICK p1 : p1 = [work[a] EXCEPT !.rate = rate] OBVIOUS
  <2>5. PICK p2 : p2 = [p1 EXCEPT !.pay = pay] OBVIOUS
  <2>6. PICK paid : paid = IF accepted > 0 THEN p2 ELSE work[a] OBVIOUS
  <2>7. PICK r1 : r1 = [paid EXCEPT !.accepted = accepted] OBVIOUS
  <2>8. PICK r2 : r2 = [r1 EXCEPT !.defective = defective] OBVIOUS
  <2>9. PICK row : row = [r2 EXCEPT !.status = verdict] OBVIOUS
  <2>10. work' = [work EXCEPT ![a] = row]
    BY <1>6, <2>1, <2>3, <2>4, <2>5, <2>6, <2>7, <2>8, <2>9, Zenon DEF AcceptCommit
  <2>11. DOMAIN work[a] = DOMAIN NoWork BY <1>0, <2>2 DEF Row, NoWork
  <2>12. DOMAIN p1 = DOMAIN NoWork /\ SameOrder(p1, work[a]) BY <2>4, <2>11 DEF NoWork, SameOrder
  <2>13. DOMAIN paid = DOMAIN NoWork /\ SameOrder(paid, work[a])
    BY <2>5, <2>6, <2>11, <2>12 DEF NoWork, SameOrder
  <2>14. DOMAIN r1 = DOMAIN NoWork /\ SameOrder(r1, work[a]) BY <2>7, <2>13 DEF NoWork, SameOrder
  <2>15. DOMAIN r2 = DOMAIN NoWork /\ SameOrder(r2, work[a]) BY <2>8, <2>14 DEF NoWork, SameOrder
  <2>16. SameOrder(row, work[a]) BY <2>9, <2>15 DEF NoWork, SameOrder
  <2> QED BY <1>2, <2>10, <2>16
<1>7. ASSUME NEW a \in Asg, NEW s \in AssignmentStatus, work' = [work EXCEPT ![a].status = s]
      PROVE  OrderKept
  <2>1. PICK row : row = [work[a] EXCEPT !.status = s] OBVIOUS
  <2>2. SameOrder(row, work[a]) BY <1>0, <2>1 DEF Row, SameOrder
  <2>3. work' = [work EXCEPT ![a] = row] BY <1>7, <2>1
  <2> QED BY <1>2, <2>2, <2>3
<1>8. ASSUME NEW a \in Asg, LockedStep(a) PROVE OrderKept
  <2>1. CASE UNCHANGED work BY <1>1, <2>1
  <2>2. CASE \E i \in DOMAIN handoffs[a] : ConfirmHandoff(a, i)
    BY <1>7, <2>2 DEF ConfirmHandoff, AssignmentStatus
  <2>3. CASE \E returned \in BOOLEAN : Cancel(a, returned)
    BY <1>7, <2>3 DEF Cancel, AssignmentStatus
  <2> QED BY <1>8, <2>1, <2>2, <2>3 DEF LockedStep, StartHandoff, HandoffLapses, HandoffProblem
<1>9. ASSUME NEW c \in Client, WorkStep(c) PROVE OrderKept
  <2>1. CASE UNCHANGED work BY <1>1, <2>1
  <2> QED
    BY <1>3, <1>4, <1>5, <1>6, <1>9, <2>1
       DEF WorkStep, CreateBegin, ScanBegin, PickupBegin, ReadyBegin, ProgressBegin, AcceptBegin,
           AsgBegin, workVars, ScanCommit
<1> QED BY <1>1, <1>8, <1>9 DEF AssignmentNext, assignmentVars, workVars

(* A request some work answers is no longer waiting, and no other work     *)
(* answers it.                                                             *)
RequestsSound ==
  /\ OnePendingRequest
  /\ RequestPreparedOnce
  /\ \A a \in Asg : work[a].req # NoRequest => request[work[a].req] \notin {"NONE", "PENDING"}

(* create answers a request by compare-and-set and the index refuses a     *)
(* second pending one, so a request that a work answers never waits again. *)
LEMMA RequestsSoundStep ==
  ASSUME Inv, RequestsSound, [AssignmentNext]_assignmentVars
  PROVE  RequestsSound'
<1>0. /\ \A a \in Asg : work[a].req \in Request \cup {NoRequest}
      /\ request \in [Request -> RequestStatus]
  BY WorkTypes DEF Inv, TypeInv, AssignmentTypeOK, JobTypeOK
<1>1. ASSUME NEW c \in Client, CreateCommit(c) PROVE RequestsSound'
  <2>1. PICK made : made = inflight[c] OBVIOUS
  <2>2. made.req \in Request \cup {NoRequest}
    BY <1>1, <2>1 DEF CreateCommit, Running, Inv, TypeInv, HandlersOK, HandlerOK
  <2>3. PICK row : row = [NoWork EXCEPT !.status = "READY_TO_DELIVER",
                                        !.req = made.req, !.kits = made.kits]
    OBVIOUS
  <2>4. PICK a \in Asg : /\ IF made.req = NoRequest THEN UNCHANGED jobVars ELSE Fulfil(made.req)
                         /\ work' = [work EXCEPT ![a] = row]
    BY <1>1, <2>1, <2>3, Zenon DEF CreateCommit
  <2>5. row.req = made.req
    <3>1. PICK r1 : r1 = [NoWork EXCEPT !.status = "READY_TO_DELIVER"] OBVIOUS
    <3>2. PICK r2 : r2 = [r1 EXCEPT !.req = made.req] OBVIOUS
    <3>3. PICK r3 : r3 = [r2 EXCEPT !.kits = made.kits] OBVIOUS
    <3>4. row = r3 BY <2>3, <3>1, <3>2, <3>3, Zenon
    <3>5. DOMAIN r1 = DOMAIN NoWork BY <3>1 DEF NoWork
    <3>6. DOMAIN r2 = DOMAIN NoWork /\ r2.req = made.req BY <3>2, <3>5 DEF NoWork
    <3> QED BY <3>3, <3>4, <3>6 DEF NoWork
  <2>6. \A b \in Asg : work'[b].req = IF b = a THEN made.req ELSE work[b].req
    BY <2>4, <2>5 DEF Inv, TypeInv, AssignmentTypeOK
  <2>7. CASE made.req = NoRequest
    BY <2>4, <2>6, <2>7 DEF RequestsSound, OnePendingRequest, RequestPreparedOnce, jobVars
  <2>8. CASE made.req # NoRequest
    <3>1. /\ request[made.req] = "PENDING" /\ made.req \in Request
          /\ \A r \in Request : request'[r] = IF r = made.req THEN "FULFILLED" ELSE request[r]
      BY <1>0, <2>2, <2>4, <2>8 DEF Fulfil
    <3>2. \A b \in Asg : work[b].req # made.req BY <2>8, <3>1 DEF RequestsSound
    <3> QED BY <1>0, <2>6, <2>8, <3>1, <3>2 DEF RequestsSound, OnePendingRequest, RequestPreparedOnce
  <2> QED BY <2>7, <2>8
<1>2. CASE \A c \in Client : ~CreateCommit(c)
  <2>1. OrderKept BY <1>2, StepKeepsOrder
  <2>2. ASSUME OnePendingRequest',
               \A r \in Request : request[r] \notin {"NONE", "PENDING"}
                                    => request'[r] \notin {"NONE", "PENDING"}
        PROVE  RequestsSound'
    BY <1>0, <2>1, <2>2 DEF OrderKept, SameOrder, RequestsSound, RequestPreparedOnce
  <2>3. CASE UNCHANGED request BY <2>2, <2>3 DEF RequestsSound, OnePendingRequest
  <2>4. ASSUME NEW c \in Client, RequestCommit(c) PROVE RequestsSound'
    <3>1. PICK r : r = inflight[c].req OBVIOUS
    <3>2. /\ r \in Request /\ request[r] = "NONE"
      BY <2>4, <3>1 DEF RequestCommit, Running, Inv, TypeInv, HandlersOK, HandlerOK
    <3>3. \A s \in Request : request'[s] = IF s = r THEN "PENDING" ELSE request[s]
      BY <1>0, <2>4, <3>1 DEF RequestCommit
    <3>4. \A s \in Request : Asker[s] = Asker[r] => request[s] # "PENDING"
      BY <2>4, <3>1 DEF RequestCommit, OnePendingIndex, HasPending
    <3>5. OnePendingRequest' BY <3>2, <3>3, <3>4 DEF RequestsSound, OnePendingRequest
    <3> QED BY <2>2, <3>2, <3>3, <3>5
  <2>5. ASSUME NEW c \in Client, WithdrawCommit(c) \/ RejectCommit(c) PROVE RequestsSound'
    <3>1. \A r \in Request : request'[r] = request[r] \/ request'[r] \in {"CANCELLED", "REJECTED"}
      BY <1>0, <2>5 DEF WithdrawCommit, RejectCommit
    <3>2. OnePendingRequest' BY <3>1 DEF RequestsSound, OnePendingRequest
    <3> QED BY <2>2, <3>1, <3>2
  <2>6. ASSUME NEW c \in Client, JobStep(c) PROVE RequestsSound'
    BY <2>3, <2>4, <2>5, <2>6
       DEF JobStep, RequestBegin, WithdrawBegin, RejectBegin, SetStatusBegin, SetStatusCommit, jobVars
  <2>7. ASSUME NEW c \in Client, WorkStep(c) PROVE UNCHANGED request
    BY <1>2, <2>7
       DEF WorkStep, CreateBegin, ScanBegin, PickupBegin, ReadyBegin, ProgressBegin, AcceptBegin,
           AsgBegin, ScanCommit, ProgressCommit, ReadyCommit, PickupCommit, AcceptCommit, jobVars
  <2>8. ASSUME NEW a \in Asg, LockedStep(a) PROVE UNCHANGED request
    BY <2>8 DEF LockedStep, StartHandoff, HandoffLapses, ConfirmHandoff, HandoffProblem, Cancel, jobVars
  <2> QED BY <2>3, <2>6, <2>7, <2>8 DEF AssignmentNext, assignmentVars, jobVars
<1> QED BY <1>1, <1>2

(* A worker never has two requests waiting, and no request is prepared     *)
(* twice, whoever answers it and whenever.                                 *)
THEOREM RequestsAreSafe ==
  AssignmentSpec => [](OnePendingRequest /\ RequestPreparedOnce)
<1>1. AssignmentInit => Inv /\ RequestsSound
  <2>1. AssignmentInit => RequestsSound
    BY DEF AssignmentInit, JobInit, NoWork, RequestsSound, OnePendingRequest, RequestPreparedOnce
  <2> QED BY <2>1, InvStart
<1>2. Inv /\ RequestsSound /\ [AssignmentNext]_assignmentVars => Inv' /\ RequestsSound'
  BY InvStep, RequestsSoundStep
<1>3. Inv /\ RequestsSound => OnePendingRequest /\ RequestPreparedOnce BY DEF RequestsSound
<1> QED BY <1>1, <1>2, <1>3, PTL DEF AssignmentSpec
-----------------------------------------------------------------------------
(* What the transactions of a work write moves the shelf by what the type  *)
(* of the movement means.                                                  *)
LEMMA WorkMovementsMean ==
  ASSUME NEW a \in Asg, NEW q \in Nat, NEW e
  PROVE  /\ Meant(a, Movement("ISSUE_TO_KIT", q, -q, e))
         /\ Meant(a, Movement("ISSUE_TO_WORKER", q, 0, e))
         /\ Meant(a, Movement("CONSUMPTION", q, 0, e))
         /\ Meant(a, TakenBack(q)) /\ Meant(a, WrittenOff(q)) /\ Meant(a, Unpacked(q))
         /\ Meant(a, NoMovement)
<1>1. a # NoAsg  BY StockAssumption
<1> QED  BY <1>1 DEF Meant, Movement, NoMovement, MovementType, TakenBack, WrittenOff, Unpacked

(* A transaction that moves nothing. *)
LEMMA NothingMoves ==
  ASSUME StockCounts, UNCHANGED <<shelf, moved>>
  PROVE  StockCounts'
BY DEF StockCounts, ShelfMatchesMovements, ShelfTotal

(* Preparing a kit takes it off the shelf. *)
LEMMA CreateKeepsShelf ==
  ASSUME IsFiniteSet(Asg), Inv, StockCounts, NEW c \in Client, CreateCommit(c)
  PROVE  StockCounts'
<1>1. PICK made : made = inflight[c]  OBVIOUS
<1>2. made.kits \in Nat
  BY <1>1, KitCountIsNat DEF CreateCommit, Running, Inv, TypeInv, HandlersOK, HandlerOK
<1>3. PICK a \in Asg : RecordMovements(a, made.worker, IssueToKit(made.kits))
  BY <1>1 DEF CreateCommit
<1>4. ASSUME NEW m \in Material  PROVE Meant(a, IssueToKit(made.kits)[m])
  <2>1. PICK taken : taken = Recipe[m] * made.kits  OBVIOUS
  <2>2. taken \in Nat  BY <1>2, <2>1, StockAssumption
  <2>3. IssueToKit(made.kits)[m] = IF Recipe[m] = 0 THEN NoMovement
                                   ELSE Movement("ISSUE_TO_KIT", taken, -taken, 0)
    BY <2>1 DEF IssueToKit
  <2> QED  BY <2>2, <2>3, WorkMovementsMean
<1>5. a \in Source  BY DEF Source
<1> QED  BY <1>3, <1>4, <1>5, RecordKeepsShelf

(* The handoff and the pickup leave the shelf alone. *)
LEMMA MoveKitKeepsShelf ==
  ASSUME IsFiniteSet(Asg), StockCounts, NEW a \in Asg, NEW w, NEW moves,
         RecordMovements(a, w, moves),
         \A m \in Material : \/ moves[m] = NoMovement
                             \/ \E q \in Nat, e \in Int :
                                  \/ moves[m] = Movement("ISSUE_TO_WORKER", q, 0, e)
                                  \/ moves[m] = Movement("CONSUMPTION", q, 0, e)
  PROVE  StockCounts'
<1>1. \A m \in Material : Meant(a, moves[m])  BY WorkMovementsMean
<1>2. a \in Source  BY DEF Source
<1> QED  BY <1>1, <1>2, RecordKeepsShelf

(* Custody moves to the worker. *)
LEMMA ConfirmKeepsShelf ==
  ASSUME IsFiniteSet(Asg), Inv, StockCounts, NEW a \in Asg, NEW i, ConfirmHandoff(a, i)
  PROVE  StockCounts'
<1> DEFINE moves == MoveKit("ISSUE_TO_WORKER", LAMBDA m : KitQuantity(a, m), 0, 1)
<1>1. RecordMovements(a, AssignedTo[a], moves)  BY Zenon DEF ConfirmHandoff
<1>2. \A m \in Material : KitQuantity(a, m) \in Nat  BY WorkTypes DEF Inv, TypeInv
<1>3. \A m \in Material :
        moves[m] = IF KitQuantity(a, m) > 0
                     THEN Movement("ISSUE_TO_WORKER", KitQuantity(a, m), 0, KitQuantity(a, m))
                     ELSE NoMovement
  BY <1>2, TimesUnits DEF MoveKit
<1> HIDE DEF moves
<1>4. \A m \in Material : \/ moves[m] = NoMovement
                          \/ \E q \in Nat, e \in Int : moves[m] = Movement("ISSUE_TO_WORKER", q, 0, e)
  BY <1>2, <1>3
<1> QED  BY <1>1, <1>4, MoveKitKeepsShelf

(* What she held is consumed. *)
LEMMA PickupKeepsShelf ==
  ASSUME IsFiniteSet(Asg), Inv, StockCounts, NEW c \in Client, PickupCommit(c)
  PROVE  StockCounts'
<1>1. PICK a : a = inflight[c].asg  OBVIOUS
<1>2. a \in Asg  BY <1>1 DEF PickupCommit, Running, Inv, TypeInv, HandlersOK, HandlerOK
<1> DEFINE moves == MoveKit("CONSUMPTION", LAMBDA m : HeldFor(a, m), 0, -1)
<1>3. RecordMovements(a, AssignedTo[a], moves)  BY <1>1, Zenon DEF PickupCommit, MoveKit
<1>4. \A m \in Material : HeldFor(a, m) \in Nat  BY <1>2, HeldIsNat DEF Inv, TypeInv, Sound
<1>5. \A m \in Material :
        moves[m] = IF HeldFor(a, m) > 0
                     THEN Movement("CONSUMPTION", HeldFor(a, m), 0, -HeldFor(a, m))
                     ELSE NoMovement
  BY <1>4, TimesUnits DEF MoveKit
<1> HIDE DEF moves
<1>6. \A n \in Nat : -n \in Int  OBVIOUS
<1>7. \A m \in Material : \/ moves[m] = NoMovement
                          \/ \E q \in Nat, e \in Int : moves[m] = Movement("CONSUMPTION", q, 0, e)
  BY <1>4, <1>5, <1>6
<1> QED  BY <1>2, <1>3, <1>7, MoveKitKeepsShelf

(* What is taken back or unpacked comes onto the shelf; what is lost at    *)
(* her home was no longer there.                                           *)
LEMMA CancelKeepsShelf ==
  ASSUME IsFiniteSet(Asg), Inv, StockCounts, NEW a \in Asg, NEW returned \in BOOLEAN,
         Cancel(a, returned)
  PROVE  StockCounts'
<1>1. RecordMovements(a, AssignedTo[a], CancelKit(a, returned))  BY DEF Cancel
<1>2. \A m \in Material : KitQuantity(a, m) \in Nat /\ HeldFor(a, m) \in Nat
  BY WorkTypes, HeldIsNat DEF Inv, TypeInv, Sound
<1>3. \A m \in Material :
        CancelKit(a, returned)[m] =
          IF KitQuantity(a, m) > 0 /\ HeldFor(a, m) > 0
            THEN IF returned THEN TakenBack(HeldFor(a, m)) ELSE WrittenOff(HeldFor(a, m))
            ELSE IF KitQuantity(a, m) > 0 /\ returned /\ Status(a) = "READY_TO_DELIVER"
                   THEN Unpacked(KitQuantity(a, m))
            ELSE NoMovement
  BY DEF CancelKit, ForEach
<1>4. \A m \in Material : Meant(a, CancelKit(a, returned)[m])
  BY <1>2, <1>3, WorkMovementsMean
<1>5. a \in Source  BY DEF Source
<1> QED  BY <1>1, <1>4, <1>5, RecordKeepsShelf

(* What the office books, and the batches it assembles.                    *)
LEMMA OfficeKeepsShelf ==
  ASSUME IsFiniteSet(Asg), StockCounts, StockNext
  PROVE  StockCounts'
<1>1. CASE \E m \in Material, q \in 1..MaxManual :
             Receipt(m, q) \/ AdjustIn(m, q) \/ AdjustOut(m, q) \/ WriteOff(m, q)
  <2>1. 1..MaxManual \subseteq Nat  BY StockAssumption
  <2> QED  BY <1>1, <2>1, BookingKeepsShelf
<1>2. CASE Assemble(1)
  <2>1. PICK w \in Worker : RecordMovements(NoAsg, w, IssueToKit(1))  BY <1>2 DEF Assemble
  <2>2. ASSUME NEW m \in Material  PROVE Meant(NoAsg, IssueToKit(1)[m])
    <3>1. PICK taken : taken = Recipe[m] * 1  OBVIOUS
    <3>2. taken \in Nat  BY <3>1, StockAssumption
    <3>3. IssueToKit(1)[m] = IF Recipe[m] = 0 THEN NoMovement
                             ELSE Movement("ISSUE_TO_KIT", taken, -taken, 0)
      BY <3>1 DEF IssueToKit
    <3> QED  BY <3>2, <3>3 DEF Meant, NoMovement, Movement, MovementType
  <2>3. NoAsg \in Source  BY DEF Source
  <2> QED  BY <2>1, <2>2, <2>3, RecordKeepsShelf
<1>3. CASE \E c \in Client : AbandonStock(c)
  BY <1>3, NothingMoves DEF AbandonStock, stockVars
<1> QED  BY <1>1, <1>2, <1>3 DEF StockNext

(* stock_balances is what stock_movements add up to, through every         *)
(* handoff, pickup and cancellation, however they overlap.                 *)
THEOREM ShelfIsTheSumUnderWork ==
  ASSUME IsFiniteSet(Asg)
  PROVE  AssignmentSpec => []ShelfMatchesMovements
<1>1. AssignmentInit => StockCounts  BY ShelfOpens DEF AssignmentInit
<1>2. Inv /\ StockCounts /\ [AssignmentNext]_assignmentVars => StockCounts'
  <2> SUFFICES ASSUME Inv, StockCounts, [AssignmentNext]_assignmentVars PROVE StockCounts'
    OBVIOUS
  <2>1. CASE UNCHANGED stockVars  BY <2>1, NothingMoves DEF stockVars
  <2>2. ASSUME NEW c \in Client, WorkStep(c) PROVE StockCounts'
    BY <2>1, <2>2, CreateKeepsShelf, PickupKeepsShelf
       DEF WorkStep, CreateBegin, ScanBegin, PickupBegin, ReadyBegin, ProgressBegin, AcceptBegin,
           AsgBegin, ScanCommit, ProgressCommit, ReadyCommit, AcceptCommit
  <2>3. ASSUME NEW a \in Asg, LockedStep(a) PROVE StockCounts'
    BY <2>1, <2>3, ConfirmKeepsShelf, CancelKeepsShelf
       DEF LockedStep, StartHandoff, HandoffLapses, HandoffProblem
  <2> QED  BY <2>1, <2>2, <2>3, OfficeKeepsShelf DEF AssignmentNext, assignmentVars
<1>3. StockCounts => ShelfMatchesMovements  BY DEF StockCounts
<1> QED  BY <1>1, <1>2, <1>3, InvAlways, PTL DEF AssignmentSpec
-----------------------------------------------------------------------------
(***************************************************************************)
(* Assignments moves material the way MaterialCustody promises.  What the  *)
(* refinement needs beside Inv: the movements of a work are those of one   *)
(* whole kit on one of the ways a kit can take (KitWhole), and a handler   *)
(* that comes late finds a kit the worker has received (Remembered).       *)
(***************************************************************************)
TrailOf(a) == {t \in MovementType : \E m \in Material : moved[a][m][t] > 0}

OnShelf == {"ISSUE_TO_KIT"}
AtHome == {"ISSUE_TO_KIT", "ISSUE_TO_WORKER"}
Trails == {{}, OnShelf, OnShelf \cup {"ADJUSTMENT_IN"}, AtHome} \cup
          {AtHome \cup {t} : t \in {"CONSUMPTION", "RETURN_FROM_WORKER", "WRITE_OFF"}}

KitWhole(a) ==
  /\ TrailOf(a) \in Trails
  /\ \A m \in Material, t \in TrailOf(a) : moved[a][m][t] = KitQuantity(a, m)
  /\ Status(a) = "NONE" <=> TrailOf(a) = {}
  /\ Status(a) = "READY_TO_DELIVER" => TrailOf(a) = OnShelf
  /\ Status(a) \notin {"NONE", "READY_TO_DELIVER", "CANCELLED"} => "ISSUE_TO_WORKER" \in TrailOf(a)
  /\ Status(a) # "NONE" => work[a].kits \in 1..3

Remembered(h) ==
  /\ h.op \in {"progress", "ready", "pickup", "accept"} => "ISSUE_TO_WORKER" \in TrailOf(h.asg)
  /\ h.op = "create" => \E m \in Material : Recipe[m] > 0

KitInv == /\ \A a \in Asg : KitWhole(a)
          /\ \A c \in Client : Remembered(inflight[c])

(* The place of a kit can be read from the types of its movements. *)
PlaceFor(trail) ==
  IF "ISSUE_TO_KIT" \notin trail THEN "nowhere"
  ELSE IF "CONSUMPTION" \in trail THEN "used"
  ELSE IF "RETURN_FROM_WORKER" \in trail \/ "ADJUSTMENT_IN" \in trail THEN "returned"
  ELSE IF "WRITE_OFF" \in trail THEN "lost"
  ELSE IF "ISSUE_TO_WORKER" \in trail THEN "worker"
  ELSE "prepared"

(* Place looks at the types that moved, and at nothing else. *)
LEMMA PlaceOfTrail == \A a \in Asg : Place(a) = PlaceFor(TrailOf(a))
BY DEF Place, PlaceFor, TrailOf, MovementType

(* What a whole kit brings in a direction: 1 for in, -1 for out. *)
Direction == {-1, 0, 1}
Carried(direction, a, m) == direction * work'[a].kits * Recipe[m]

(* One whole kit of a is booked as one type of movement. *)
KitMoved(a, type, toShelf, toHome) ==
  /\ TrailOf(a)' = TrailOf(a) \cup {type}
  /\ \A m \in Material : moved'[a][m][type] = KitQuantity(a, m)'
  /\ \A m \in Material, t \in MovementType \ {type} : moved'[a][m][t] = moved[a][m][t]
  /\ \A b \in Asg \ {a} : moved'[b] = moved[b]
  /\ shelf' = [m \in Material |-> shelf[m] + Carried(toShelf, a, m)]
  /\ home' = [home EXCEPT ![AssignedTo[a]] =
                [m \in Material |-> home[AssignedTo[a]][m] + Carried(toHome, a, m)]]
  /\ \A m \in Material : ShelfTotal(NoAsg, m)' = ShelfTotal(NoAsg, m)

(* It brings the quantity of the kit, or takes it, or neither. *)
LEMMA CarriedIs ==
  ASSUME NEW a \in Asg, NEW m \in Material, work'[a].kits \in Nat
  PROVE  /\ KitQuantity(a, m)' \in Nat
         /\ Carried(0, a, m) = 0
         /\ Carried(1, a, m) = KitQuantity(a, m)'
         /\ Carried(-1, a, m) = -KitQuantity(a, m)'
<1>1. PICK n, k : n = work'[a].kits /\ k = Recipe[m]  OBVIOUS
<1>2. n \in Nat /\ k \in Nat  BY <1>1, StockAssumption
<1>3. KitQuantity(a, m)' = n * k  BY <1>1 DEF KitQuantity
<1>4. n * k \in Nat /\ 0 * n * k = 0 /\ 1 * n * k = n * k
  <2>1. n * k \in Nat  BY <1>2, NatTimesNat
  <2>2. 0 * n = 0 /\ 1 * n = n /\ 0 * k = 0  BY <1>2
  <2> QED  BY <2>1, <2>2
<1>5. (-1) * n * k = -(n * k)
  <2>1. (-1) * n = -n  BY <1>2
  <2>2. (-n) * k = -(n * k)  BY <1>2
  <2> QED  BY <2>1, <2>2
<1> QED  BY <1>1, <1>3, <1>4, <1>5 DEF Carried

(* The movements that book a whole kit do so. *)
LEMMA KitMoves ==
  ASSUME Inv, NEW a \in Asg, NEW type \in MovementType, type # "RECEIPT", type \notin TrailOf(a),
         NEW toShelf \in Direction, NEW toHome \in Direction,
         work'[a].kits \in Nat, NEW g \in Material, KitQuantity(a, g)' > 0,
         NEW moves, RecordMovements(a, AssignedTo[a], moves),
         \A m \in Material : Meant(a, moves[m]),
         \A m \in Material :
           moves[m] = IF KitQuantity(a, m)' > 0
                        THEN Movement(type, KitQuantity(a, m)', Carried(toShelf, a, m),
                                      Carried(toHome, a, m))
                        ELSE NoMovement
  PROVE  KitMoved(a, type, toShelf, toHome)
<1> DEFINE q == [m \in Material |-> KitQuantity(a, m)']
           up == [m \in Material |-> Carried(toShelf, a, m)]
           in == [m \in Material |-> Carried(toHome, a, m)]
<1>0. /\ a # NoAsg /\ a \in Source
      /\ moved \in [Source -> [Material -> [MovementType -> Nat]]]
  BY StockAssumption DEF Inv, TypeInv, AssignmentTypeOK, StockTypeOK, Source
<1>1. \A m \in Material : /\ q[m] \in Nat /\ up[m] \in Int /\ in[m] \in Int
                          /\ q[m] = 0 => up[m] = 0 /\ in[m] = 0
  BY CarriedIs DEF Direction
<1>2. \A m \in Material : moves[m] = IF q[m] > 0 THEN Movement(type, q[m], up[m], in[m])
                                                 ELSE NoMovement
  OBVIOUS
<1>3. q[g] > 0  OBVIOUS
<1>a. \A m \in Material : /\ q[m] = KitQuantity(a, m)' /\ up[m] = Carried(toShelf, a, m)
                          /\ in[m] = Carried(toHome, a, m)
  OBVIOUS
<1> HIDE DEF q, up, in
<1>b. /\ \A p, d, e : /\ Movement(type, p, d, e).type = type
                      /\ Movement(type, p, d, e).quantity = p
                      /\ Movement(type, p, d, e).warehouse = d
                      /\ Movement(type, p, d, e).worker = e
      /\ NoMovement.quantity = 0 /\ NoMovement.warehouse = 0 /\ NoMovement.worker = 0
  BY DEF Movement, NoMovement
<1>4. ASSUME NEW m \in Material
      PROVE  /\ moves[m].warehouse = up[m] /\ moves[m].worker = in[m]
             /\ moves[m].quantity = q[m]
             /\ q[m] > 0 => moves[m].type = type
  <2>1. CASE q[m] > 0  BY <1>2, <1>b, <2>1
  <2>2. CASE ~(q[m] > 0)
    <3>1. q[m] = 0 /\ up[m] = 0 /\ in[m] = 0  BY <1>1, <2>2
    <3> QED  BY <1>2, <1>b, <2>2, <3>1
  <2> QED  BY <2>1, <2>2
<1>5. shelf' = [m \in Material |-> shelf[m] + Carried(toShelf, a, m)]
  <2>1. shelf' = [m \in Material |-> shelf[m] + moves[m].warehouse]  BY DEF RecordMovements
  <2>2. \A m \in Material : moves[m].warehouse = Carried(toShelf, a, m)  BY <1>a, <1>4
  <2> QED  BY <2>1, <2>2
<1>6. home' = [home EXCEPT ![AssignedTo[a]] =
                 [m \in Material |-> home[AssignedTo[a]][m] + Carried(toHome, a, m)]]
  <2>1. PICK w : w = AssignedTo[a]  OBVIOUS
  <2>2. home' = [home EXCEPT ![w] = [m \in Material |-> home[w][m] + moves[m].worker]]
    BY <2>1 DEF RecordMovements
  <2>3. \A m \in Material : moves[m].worker = Carried(toHome, a, m)  BY <1>a, <1>4
  <2>4. [m \in Material |-> home[w][m] + moves[m].worker]
          = [m \in Material |-> home[w][m] + Carried(toHome, a, m)]
    BY <2>3, Zenon
  <2> QED  BY <2>1, <2>2, <2>4
<1>7. /\ moved' \in [Source -> [Material -> [MovementType -> Nat]]]
      /\ \A m \in Material, t \in MovementType :
           moved'[a][m][t] = moved[a][m][t] + (IF t = moves[m].type THEN moves[m].quantity ELSE 0)
      /\ \A x \in Source : x # a => moved'[x] = moved[x]
  BY <1>0, RecordAddsUp
<1>8. \A m \in Material, t \in MovementType : moved[a][m][t] \in Nat  BY <1>0
<1>9. ASSUME NEW m \in Material PROVE moved'[a][m][type] = q[m]
  <2>1. moved[a][m][type] = 0  BY <1>8 DEF TrailOf
  <2>2. moved'[a][m][type] = IF type = moves[m].type THEN q[m] ELSE 0
    BY <1>1, <1>4, <1>7, <2>1
  <2> QED  BY <1>1, <1>4, <2>2
<1>10. ASSUME NEW m \in Material, NEW t \in MovementType \ {type}
       PROVE  moved'[a][m][t] = moved[a][m][t]
  <2>1. moved'[a][m][t] = IF t = moves[m].type THEN moved[a][m][t] + q[m] ELSE moved[a][m][t]
    BY <1>1, <1>4, <1>7, <1>8
  <2> QED  BY <1>1, <1>4, <1>8, <2>1
<1>11. TrailOf(a)' = TrailOf(a) \cup {type}  BY <1>3, <1>9, <1>10 DEF TrailOf
<1>12. \A b \in Asg \ {a} : moved'[b] = moved[b]  BY <1>7 DEF Source
<1>13. \A m \in Material : ShelfTotal(NoAsg, m)' = ShelfTotal(NoAsg, m)
  BY <1>0, <1>7 DEF ShelfTotal, Source
<1> QED  BY <1>a, <1>5, <1>6, <1>9, <1>10, <1>11, <1>12, <1>13 DEF KitMoved

(* What a step leaves behind, and what it is to MaterialCustody. *)
CustodyStep ==
  /\ \A a \in Asg : KitWhole(a)' /\ TrailOf(a) \subseteq TrailOf(a)'
  /\ [Custody!Next]_(Custody!vars)

(* The status of a work goes where its kit allows. *)
StatusFits(a) ==
  \/ Status(a)' = Status(a)
  \/ Status(a) # "NONE" /\ Status(a)' = "CANCELLED"
  \/ /\ "ISSUE_TO_WORKER" \in TrailOf(a)
     /\ Status(a)' \notin {"NONE", "READY_TO_DELIVER"}

(* A kit that is not touched stays whole. *)
LEMMA WholeStays ==
  ASSUME NEW a \in Asg, KitWhole(a), StatusFits(a), moved'[a] = moved[a],
         work'[a].kits = work[a].kits
  PROVE  KitWhole(a)' /\ TrailOf(a)' = TrailOf(a) /\ Place(a)' = Place(a)
<1>1. TrailOf(a)' = TrailOf(a)  BY DEF TrailOf
<1>2. \A m \in Material : KitQuantity(a, m)' = KitQuantity(a, m)  BY DEF KitQuantity
<1>3. Place(a)' = Place(a)  BY DEF Place
<1>4. KitWhole(a)'
  <2>1. CASE Status(a)' = Status(a)  BY <1>1, <1>2, <2>1 DEF KitWhole
  <2>2. CASE Status(a) # "NONE" /\ Status(a)' = "CANCELLED"
    BY <1>1, <1>2, <2>2 DEF KitWhole
  <2>3. CASE /\ "ISSUE_TO_WORKER" \in TrailOf(a)
             /\ Status(a)' \notin {"NONE", "READY_TO_DELIVER"}
    BY <1>1, <1>2, <2>3 DEF KitWhole
  <2> QED  BY <2>1, <2>2, <2>3 DEF StatusFits
<1> QED  BY <1>1, <1>3, <1>4

(* A step that moves nothing is no step of MaterialCustody. *)
LEMMA NothingMovedStep ==
  ASSUME KitInv, OrderKept, UNCHANGED <<shelf, home, moved>>, \A a \in Asg : StatusFits(a)
  PROVE  CustodyStep
<1>1. \A a \in Asg : work'[a].kits = work[a].kits  BY DEF OrderKept, SameOrder
<1>2. \A a \in Asg : KitWhole(a)' /\ TrailOf(a)' = TrailOf(a) /\ Place(a)' = Place(a)
  BY <1>1, WholeStays DEF KitInv
<1>3. \A m \in Material : ShelfTotal(NoAsg, m)' = ShelfTotal(NoAsg, m)  BY DEF ShelfTotal
<1>4. UNCHANGED Custody!vars  BY <1>1, <1>2, <1>3 DEF Custody!vars
<1> QED  BY <1>2, <1>4 DEF CustodyStep

(* A kit that takes a next step on its way stays whole. *)
LEMMA WholeMoves ==
  ASSUME NEW a \in Asg, KitWhole(a), NEW type \in MovementType, NEW toShelf, NEW toHome,
         KitMoved(a, type, toShelf, toHome), TrailOf(a) \cup {type} \in Trails,
         TrailOf(a) # {} => work'[a].kits = work[a].kits,
         work'[a].kits \in 1..3, Status(a)' # "NONE",
         Status(a)' = "READY_TO_DELIVER" => TrailOf(a) = {} /\ type = "ISSUE_TO_KIT",
         \/ Status(a)' \in {"READY_TO_DELIVER", "CANCELLED"}
         \/ "ISSUE_TO_WORKER" \in TrailOf(a) \cup {type}
  PROVE  KitWhole(a)'
<1>1. TrailOf(a)' = TrailOf(a) \cup {type}  BY DEF KitMoved
<1>2. ASSUME NEW m \in Material, NEW t \in TrailOf(a)'
      PROVE  moved'[a][m][t] = KitQuantity(a, m)'
  <2>1. CASE t = type  BY <2>1 DEF KitMoved
  <2>2. CASE t # type
    <3>1. t \in TrailOf(a) /\ t \in MovementType  BY <1>1, <2>2 DEF TrailOf
    <3>2. moved'[a][m][t] = moved[a][m][t]  BY <2>2, <3>1 DEF KitMoved
    <3>3. KitQuantity(a, m)' = KitQuantity(a, m)  BY <3>1 DEF KitQuantity
    <3> QED  BY <3>1, <3>2, <3>3 DEF KitWhole
  <2> QED  BY <2>1, <2>2
<1> QED  BY <1>1, <1>2 DEF KitWhole, OnShelf

(* The move of one kit is a move of MaterialCustody. *)
LEMMA KitMovedIsMove ==
  ASSUME NEW a \in Asg, NEW type, NEW toShelf, NEW toHome,
         KitMoved(a, type, toShelf, toHome), \A m \in Material : shelf'[m] \in Nat
  PROVE  Custody!Move(a, Place(a), PlaceFor(TrailOf(a) \cup {type}), toShelf, toHome)
<1>1. Place(a)' = PlaceFor(TrailOf(a) \cup {type})
  <2>1. Place(a)' = PlaceFor(TrailOf(a)')  BY DEF Place, PlaceFor, TrailOf, MovementType
  <2> QED  BY <2>1 DEF KitMoved
<1>2. \A b \in Asg \ {a} : Place(b)' = Place(b)  BY DEF KitMoved, Place
<1>3. [b \in Asg |-> Place(b)]' = [[b \in Asg |-> Place(b)] EXCEPT ![a] = Place(a)']
  BY <1>2
<1>4. shelf' = [m \in Material |-> shelf[m] + toShelf * [b \in Asg |-> work[b].kits]'[a] * Recipe[m]]
  BY DEF KitMoved, Carried
<1>5. home' = [home EXCEPT ![AssignedTo[a]] =
                 [m \in Material |-> @[m] + toHome * [b \in Asg |-> work[b].kits]'[a] * Recipe[m]]]
  BY DEF KitMoved, Carried
<1>6. [m \in Material |-> ShelfTotal(NoAsg, m)]' = [m \in Material |-> ShelfTotal(NoAsg, m)]
  BY DEF KitMoved
<1>7. \A m \in Material : shelf'[m] >= 0  OBVIOUS
<1> QED  BY <1>1, <1>3, <1>4, <1>5, <1>6, <1>7 DEF Custody!Move

(* And so it is a step of MaterialCustody, if the places are as it says.   *)
LEMMA KitMovedStep ==
  ASSUME KitInv, NEW a \in Asg, NEW type \in MovementType, NEW toShelf, NEW toHome,
         KitMoved(a, type, toShelf, toHome), \A m \in Material : shelf'[m] \in Nat,
         \A b \in Asg \ {a} : work'[b] = work[b], KitWhole(a)',
         \/ /\ TrailOf(a) = {} /\ type = "ISSUE_TO_KIT" /\ toShelf = -1 /\ toHome = 0
         \/ /\ TrailOf(a) # {} /\ work'[a].kits = work[a].kits
            /\ \/ TrailOf(a) = OnShelf /\ type = "ISSUE_TO_WORKER" /\ toShelf = 0 /\ toHome = 1
               \/ TrailOf(a) = AtHome /\ type = "CONSUMPTION" /\ toShelf = 0 /\ toHome = -1
               \/ TrailOf(a) = AtHome /\ type = "WRITE_OFF" /\ toShelf = 0 /\ toHome = -1
               \/ TrailOf(a) = OnShelf /\ type = "ADJUSTMENT_IN" /\ toShelf = 1 /\ toHome = 0
               \/ TrailOf(a) = AtHome /\ type = "RETURN_FROM_WORKER" /\ toShelf = 1 /\ toHome = -1
  PROVE  CustodyStep
<1>1. ASSUME NEW b \in Asg, b # a PROVE KitWhole(b)' /\ TrailOf(b) \subseteq TrailOf(b)'
  <2>1. work'[b] = work[b] /\ moved'[b] = moved[b]  BY <1>1 DEF KitMoved
  <2>2. StatusFits(b)  BY <2>1 DEF StatusFits, Status
  <2> QED  BY <2>1, <2>2, WholeStays DEF KitInv
<1>2. TrailOf(a) \subseteq TrailOf(a)'  BY DEF KitMoved
<1>3. /\ Place(a) = PlaceFor(TrailOf(a))
      /\ Custody!Move(a, Place(a), PlaceFor(TrailOf(a) \cup {type}), toShelf, toHome)
  BY PlaceOfTrail, KitMovedIsMove
<1> DEFINE Kits == [b \in Asg |-> work[b].kits]
<1>4. Kits' = [Kits EXCEPT ![a] = work'[a].kits]  OBVIOUS
<1>5. Status(a)' # "NONE" /\ work'[a].kits \in 1..3
  BY <1>2 DEF KitWhole, KitMoved
<1>6. CASE TrailOf(a) = {} /\ type = "ISSUE_TO_KIT" /\ toShelf = -1 /\ toHome = 0
  <2>1. Place(a) = "nowhere" /\ PlaceFor(TrailOf(a) \cup {type}) = "prepared"
    BY <1>3, <1>6 DEF PlaceFor
  <2>2. PICK n \in 1..3 : n = work'[a].kits  BY <1>5
  <2>3. Custody!Prepare(a, n)  BY <1>3, <1>4, <1>6, <2>1, <2>2 DEF Custody!Prepare
  <2>4. Custody!Next  BY <2>3 DEF Custody!Next
  <2>5. \A b \in Asg : KitWhole(b)' /\ TrailOf(b) \subseteq TrailOf(b)'  BY <1>1, <1>2
  <2> QED  BY <2>4, <2>5 DEF CustodyStep
<1>7. ASSUME TrailOf(a) # {}, work'[a].kits = work[a].kits
      PROVE  UNCHANGED Kits
  BY <1>4, <1>7
<1>8. CASE TrailOf(a) = OnShelf /\ type = "ISSUE_TO_WORKER" /\ toShelf = 0 /\ toHome = 1
  <2>1. Place(a) = "prepared" /\ PlaceFor(TrailOf(a) \cup {type}) = "worker"
    BY <1>3, <1>8 DEF PlaceFor, OnShelf
  <2>2. UNCHANGED Kits  BY <1>7, <1>8 DEF OnShelf
  <2>3. Custody!Receive(a)  BY <1>3, <1>8, <2>1, <2>2 DEF Custody!Receive
  <2> QED  BY <1>1, <1>2, <2>3 DEF CustodyStep, Custody!Next
<1>9. CASE TrailOf(a) = AtHome /\ type = "CONSUMPTION" /\ toShelf = 0 /\ toHome = -1
  <2>1. Place(a) = "worker" /\ PlaceFor(TrailOf(a) \cup {type}) = "used"
    BY <1>3, <1>9 DEF PlaceFor, AtHome
  <2>2. UNCHANGED Kits  BY <1>7, <1>9 DEF AtHome
  <2>3. Custody!Use(a)  BY <1>3, <1>9, <2>1, <2>2 DEF Custody!Use
  <2> QED  BY <1>1, <1>2, <2>3 DEF CustodyStep, Custody!Next
<1>10. CASE TrailOf(a) = AtHome /\ type = "WRITE_OFF" /\ toShelf = 0 /\ toHome = -1
  <2>1. Place(a) = "worker" /\ PlaceFor(TrailOf(a) \cup {type}) = "lost"
    BY <1>3, <1>10 DEF PlaceFor, AtHome
  <2>2. UNCHANGED Kits  BY <1>7, <1>10 DEF AtHome
  <2>3. Custody!Lose(a)  BY <1>3, <1>10, <2>1, <2>2 DEF Custody!Lose
  <2> QED  BY <1>1, <1>2, <2>3 DEF CustodyStep, Custody!Next
<1>11. CASE TrailOf(a) = OnShelf /\ type = "ADJUSTMENT_IN" /\ toShelf = 1 /\ toHome = 0
  <2>1. Place(a) = "prepared" /\ PlaceFor(TrailOf(a) \cup {type}) = "returned"
    BY <1>3, <1>11 DEF PlaceFor, OnShelf
  <2>2. UNCHANGED Kits  BY <1>7, <1>11 DEF OnShelf
  <2>3. Custody!Unpack(a)  BY <1>3, <1>11, <2>1, <2>2 DEF Custody!Unpack
  <2> QED  BY <1>1, <1>2, <2>3 DEF CustodyStep, Custody!Next
<1>12. CASE TrailOf(a) = AtHome /\ type = "RETURN_FROM_WORKER" /\ toShelf = 1 /\ toHome = -1
  <2>1. Place(a) = "worker" /\ PlaceFor(TrailOf(a) \cup {type}) = "returned"
    BY <1>3, <1>12 DEF PlaceFor, AtHome
  <2>2. UNCHANGED Kits  BY <1>7, <1>12 DEF AtHome
  <2>3. Custody!TakeBack(a)  BY <1>3, <1>12, <2>1, <2>2 DEF Custody!TakeBack
  <2> QED  BY <1>1, <1>2, <2>3 DEF CustodyStep, Custody!Next
<1> QED  BY <1>6, <1>8, <1>9, <1>10, <1>11, <1>12

-----------------------------------------------------------------------------
(* She holds the kit between her confirmation and the end of the kit, and  *)
(* nothing before or after.                                                *)
LEMMA HeldByTrail ==
  ASSUME AssignmentTypeOK, NEW a \in Asg, KitWhole(a), NEW m \in Material
  PROVE  HeldFor(a, m) = IF TrailOf(a) = AtHome THEN KitQuantity(a, m) ELSE 0
<1>1. PICK q, trail : q = KitQuantity(a, m) /\ trail = TrailOf(a)  OBVIOUS
<1>2. q \in Nat /\ \A t \in MovementType : moved[a][m][t] \in Nat  BY <1>1, WorkTypes
<1>3. \A t \in MovementType : moved[a][m][t] = IF t \in trail THEN q ELSE 0
  BY <1>1, <1>2 DEF KitWhole, TrailOf
<1>4. trail \in Trails  BY <1>1 DEF KitWhole
<1>5. HeldFor(a, m) = (IF "ISSUE_TO_WORKER" \in trail THEN q ELSE 0)
                      - (IF "CONSUMPTION" \in trail THEN q ELSE 0)
                      - (IF "RETURN_FROM_WORKER" \in trail THEN q ELSE 0)
                      - (IF "WRITE_OFF" \in trail THEN q ELSE 0)
  BY <1>3 DEF HeldFor, MovementType
<1>6. CASE "ISSUE_TO_WORKER" \notin trail
  <2>1. trail # AtHome /\ "CONSUMPTION" \notin trail /\ "RETURN_FROM_WORKER" \notin trail
        /\ "WRITE_OFF" \notin trail
    BY <1>4, <1>6 DEF Trails, AtHome, OnShelf
  <2> QED  BY <1>1, <1>5, <1>6, <2>1
<1>7. CASE trail = AtHome  BY <1>1, <1>2, <1>5, <1>7 DEF AtHome
<1>8. CASE "ISSUE_TO_WORKER" \in trail /\ trail # AtHome
  <2>1. PICK t \in {"CONSUMPTION", "RETURN_FROM_WORKER", "WRITE_OFF"} : trail = AtHome \cup {t}
    BY <1>4, <1>8 DEF Trails, OnShelf
  <2> QED  BY <1>1, <1>2, <1>5, <1>8, <2>1 DEF AtHome
<1> QED  BY <1>6, <1>7, <1>8

(* A transaction without a movement leaves the stock as it is.             *)
LEMMA NoMovementNoChange ==
  ASSUME StockTypeOK, NEW s \in Source, NEW w \in Worker, NEW moves, RecordMovements(s, w, moves),
         \A m \in Material : moves[m] = NoMovement
  PROVE  UNCHANGED <<shelf, home, moved>>
<1>1. /\ NoMovement.quantity = 0 /\ NoMovement.warehouse = 0 /\ NoMovement.worker = 0
      /\ Meant(s, NoMovement)
  BY DEF NoMovement, Movement, Meant, MovementType
<1>2. shelf' = shelf /\ home' = home  BY <1>1 DEF RecordMovements, StockTypeOK
<1>3. /\ moved' \in [Source -> [Material -> [MovementType -> Nat]]]
      /\ moved \in [Source -> [Material -> [MovementType -> Nat]]]
      /\ \A m \in Material, t \in MovementType :
           moved'[s][m][t] = moved[s][m][t] + (IF t = moves[m].type THEN moves[m].quantity ELSE 0)
      /\ \A x \in Source : x # s => moved'[x] = moved[x]
  BY <1>1, RecordAddsUp DEF StockTypeOK
<1>4. \A m \in Material, t \in MovementType : moved'[s][m][t] = moved[s][m][t]
  BY <1>1, <1>3
<1>5. \A x \in Source : moved'[x] = moved[x]
  <2>1. moved'[s] = moved[s]
    <3>1. \A m \in Material : moved'[s][m] = moved[s][m]  BY <1>3, <1>4
    <3> QED  BY <1>3, <3>1
  <2> QED  BY <1>3, <2>1
<1>6. moved' = moved  BY <1>3, <1>5
<1> QED  BY <1>2, <1>6

(* What the commits write to the status of their work.                     *)
LEMMA StatusWritten ==
  ASSUME AssignmentTypeOK, NEW a \in Asg, NEW row, DOMAIN row = DOMAIN work[a],
         work' = [work EXCEPT ![a] = row]
  PROVE  \A b \in Asg : /\ Status(b)' = IF b = a THEN row.status ELSE Status(b)
                        /\ b # a => work'[b] = work[b]
BY DEF AssignmentTypeOK, Status

(* A progress report leaves it as it is.                                   *)
LEMMA ProgressStatus ==
  ASSUME Inv, NEW c \in Client, ProgressCommit(c)
  PROVE  \A b \in Asg : Status(b)' = Status(b)
<1>1. PICK a, cm : a = inflight[c].asg /\ cm = inflight[c].cm  OBVIOUS
<1>2. a \in Asg  BY <1>1 DEF ProgressCommit, Running, Inv, TypeInv, HandlersOK, HandlerOK
<1>3. PICK row : row = [work[a] EXCEPT !.reported = cm]  OBVIOUS
<1>4. work[a] \in Row  BY <1>2, WorkTypes DEF Inv, TypeInv
<1>5. DOMAIN row = DOMAIN work[a] /\ row.status = Status(a)  BY <1>3, <1>4 DEF Row, Status
<1>6. work' = [work EXCEPT ![a] = row]  BY <1>1, <1>3 DEF ProgressCommit
<1> QED  BY <1>2, <1>5, <1>6, StatusWritten DEF Inv, TypeInv

(* Ready work waits for its pickup.                                        *)
LEMMA ReadyStatus ==
  ASSUME Inv, NEW c \in Client, ReadyCommit(c)
  PROVE  \A b \in Asg : Status(b)' = IF b = inflight[c].asg THEN "READY_FOR_PICKUP" ELSE Status(b)
<1>1. PICK a, cm : a = inflight[c].asg /\ cm = inflight[c].cm  OBVIOUS
<1>2. a \in Asg  BY <1>1 DEF ReadyCommit, Running, Inv, TypeInv, HandlersOK, HandlerOK
<1>3. PICK w1 : w1 = [work EXCEPT ![a].status = "READY_FOR_PICKUP"]  OBVIOUS
<1>4. work' = [w1 EXCEPT ![a].reported = cm]  BY <1>1, <1>3, Zenon DEF ReadyCommit
<1>5. work[a] \in Row  BY <1>2, WorkTypes DEF Inv, TypeInv
<1>6. PICK r1 : r1 = [work[a] EXCEPT !.status = "READY_FOR_PICKUP"]  OBVIOUS
<1>7. DOMAIN r1 = DOMAIN work[a] /\ r1.status = "READY_FOR_PICKUP"  BY <1>5, <1>6 DEF Row
<1>8. w1 = [work EXCEPT ![a] = r1]  BY <1>3, <1>6
<1>9. w1[a] = r1 /\ DOMAIN w1 = Asg /\ \A b \in Asg \ {a} : w1[b] = work[b]
  BY <1>2, <1>8 DEF Inv, TypeInv, AssignmentTypeOK
<1>10. PICK r2 : r2 = [r1 EXCEPT !.reported = cm]  OBVIOUS
<1>11. r2.status = "READY_FOR_PICKUP"  BY <1>5, <1>7, <1>10 DEF Row
<1>12. work' = [w1 EXCEPT ![a] = r2]  BY <1>4, <1>9, <1>10
<1>13. work'[a] = r2 /\ \A b \in Asg \ {a} : work'[b] = work[b]  BY <1>2, <1>9, <1>12
<1> QED  BY <1>1, <1>11, <1>13 DEF Status

(* Work that was picked up is under review.                                *)
LEMMA PickupStatus ==
  ASSUME Inv, NEW c \in Client, PickupCommit(c)
  PROVE  \A b \in Asg : /\ Status(b)' = IF b = inflight[c].asg THEN "UNDER_REVIEW" ELSE Status(b)
                        /\ b # inflight[c].asg => work'[b] = work[b]
<1>1. PICK a, cm : a = inflight[c].asg /\ cm = inflight[c].cm  OBVIOUS
<1>2. a \in Asg  BY <1>1 DEF PickupCommit, Running, Inv, TypeInv, HandlersOK, HandlerOK
<1>3. PICK r1 : r1 = [work[a] EXCEPT !.status = "UNDER_REVIEW"]  OBVIOUS
<1>4. PICK row : row = [r1 EXCEPT !.delivered = cm]  OBVIOUS
<1>5. work[a] \in Row  BY <1>2, WorkTypes DEF Inv, TypeInv
<1>6. DOMAIN r1 = DOMAIN work[a] /\ r1.status = "UNDER_REVIEW"  BY <1>3, <1>5 DEF Row
<1>7. DOMAIN row = DOMAIN work[a] /\ row.status = "UNDER_REVIEW"  BY <1>4, <1>5, <1>6 DEF Row
<1>8. work' = [work EXCEPT ![a] = row]  BY <1>1, <1>3, <1>4, Zenon DEF PickupCommit
<1>9. AssignmentTypeOK  BY DEF Inv, TypeInv
<1>10. \A b \in Asg : /\ Status(b)' = IF b = a THEN row.status ELSE Status(b)
                      /\ b # a => work'[b] = work[b]
  BY <1>2, <1>7, <1>8, <1>9, StatusWritten
<1> QED  BY <1>1, <1>7, <1>10

(* Accepted work has its verdict.                                          *)
LEMMA AcceptStatus ==
  ASSUME Inv, NEW c \in Client, AcceptCommit(c)
  PROVE  \A b \in Asg : Status(b)' = IF b = inflight[c].asg THEN inflight[c].verdict ELSE Status(b)
<1>1. PICK a, accepted, defective, verdict :
        /\ a = inflight[c].asg /\ accepted = inflight[c].accepted
        /\ defective = inflight[c].defective /\ verdict = inflight[c].verdict
  OBVIOUS
<1>2. a \in Asg  BY <1>1 DEF AcceptCommit, Running, Inv, TypeInv, HandlersOK, HandlerOK
<1>3. work[a] \in Row  BY <1>2, WorkTypes DEF Inv, TypeInv
<1>4. PICK rate, pay : rate = CurrentRate /\ pay = EarningFor(CurrentRate, accepted)  OBVIOUS
<1>5. PICK p1 : p1 = [work[a] EXCEPT !.rate = rate]  OBVIOUS
<1>6. PICK p2 : p2 = [p1 EXCEPT !.pay = pay]  OBVIOUS
<1>7. PICK paid : paid = IF accepted > 0 THEN p2 ELSE work[a]  OBVIOUS
<1>8. PICK r1 : r1 = [paid EXCEPT !.accepted = accepted]  OBVIOUS
<1>9. PICK r2 : r2 = [r1 EXCEPT !.defective = defective]  OBVIOUS
<1>10. PICK row : row = [r2 EXCEPT !.status = verdict]  OBVIOUS
<1>11. work' = [work EXCEPT ![a] = row]
  BY <1>1, <1>4, <1>5, <1>6, <1>7, <1>8, <1>9, <1>10, Zenon DEF AcceptCommit
<1>12. DOMAIN paid = DOMAIN work[a]  BY <1>3, <1>5, <1>6, <1>7 DEF Row
<1>13. DOMAIN r1 = DOMAIN work[a]  BY <1>3, <1>8, <1>12 DEF Row
<1>14. DOMAIN r2 = DOMAIN work[a]  BY <1>3, <1>9, <1>13 DEF Row
<1>15. DOMAIN row = DOMAIN work[a] /\ row.status = verdict  BY <1>3, <1>10, <1>14 DEF Row
<1>16. AssignmentTypeOK  BY DEF Inv, TypeInv
<1>17. \A b \in Asg : Status(b)' = IF b = a THEN row.status ELSE Status(b)
  BY <1>2, <1>11, <1>15, <1>16, StatusWritten
<1> QED  BY <1>1, <1>15, <1>17

-----------------------------------------------------------------------------
(* A late commit that moves nothing: the work has begun, so its kit is     *)
(* where the status it writes allows.                                      *)
LEMMA QuietCommitStep ==
  ASSUME KitInv, OrderKept, UNCHANGED <<shelf, home, moved>>, NEW a \in Asg,
         "ISSUE_TO_WORKER" \in TrailOf(a), NEW s, s \notin {"NONE", "READY_TO_DELIVER"},
         \A b \in Asg : Status(b)' = IF b = a THEN s ELSE Status(b)
  PROVE  CustodyStep
<1>1. \A b \in Asg : StatusFits(b)  BY DEF StatusFits
<1> QED  BY <1>1, NothingMovedStep

(* The reports, the declarations and the verdicts move nothing.            *)
LEMMA ReportStep ==
  ASSUME Inv, KitInv, OrderKept, NEW c \in Client,
         ProgressCommit(c) \/ ReadyCommit(c) \/ AcceptCommit(c)
  PROVE  CustodyStep
<1>1. PICK h : h = inflight[c]  OBVIOUS
<1>2. HandlerOK(h) /\ Remembered(h)  BY <1>1 DEF Inv, TypeInv, HandlersOK, KitInv
<1>3. UNCHANGED <<shelf, home, moved>>
  BY DEF ProgressCommit, ReadyCommit, AcceptCommit, stockVars
<1>4. CASE ProgressCommit(c)
  BY <1>3, <1>4, ProgressStatus, NothingMovedStep DEF StatusFits
<1>5. CASE ReadyCommit(c)
  <2>1. h.asg \in Asg /\ "ISSUE_TO_WORKER" \in TrailOf(h.asg)
    BY <1>1, <1>2, <1>5 DEF ReadyCommit, Running, HandlerOK, Remembered
  <2>2. \A b \in Asg : Status(b)' = IF b = h.asg THEN "READY_FOR_PICKUP" ELSE Status(b)
    BY <1>1, <1>5, ReadyStatus
  <2>3. "READY_FOR_PICKUP" \notin {"NONE", "READY_TO_DELIVER"}  OBVIOUS
  <2> QED  BY <1>3, <2>1, <2>2, <2>3, QuietCommitStep
<1>6. CASE AcceptCommit(c)
  <2>1. /\ h.asg \in Asg /\ "ISSUE_TO_WORKER" \in TrailOf(h.asg)
        /\ h.verdict \notin {"NONE", "READY_TO_DELIVER"}
    BY <1>1, <1>2, <1>6 DEF AcceptCommit, Running, HandlerOK, Remembered
  <2>2. \A b \in Asg : Status(b)' = IF b = h.asg THEN h.verdict ELSE Status(b)
    BY <1>1, <1>6, AcceptStatus
  <2> QED  BY <1>3, <2>1, <2>2, QuietCommitStep
<1> QED  BY <1>4, <1>5, <1>6

(* The kit that is somewhere has an ingredient, and its size is kept.      *)
LEMMA KitHasIngredient ==
  ASSUME AssignmentTypeOK, NEW a \in Asg, KitWhole(a), TrailOf(a) # {},
         work'[a].kits = work[a].kits
  PROVE  /\ work'[a].kits \in Nat
         /\ \A m \in Material : KitQuantity(a, m)' = KitQuantity(a, m)
         /\ \E m \in Material : KitQuantity(a, m)' > 0
<1>1. work'[a].kits \in Nat  BY WorkTypes
<1>2. \A m \in Material : KitQuantity(a, m)' = KitQuantity(a, m)  BY DEF KitQuantity
<1>3. PICK t \in TrailOf(a), m \in Material : moved[a][m][t] > 0  BY DEF TrailOf
<1>4. KitQuantity(a, m) > 0  BY <1>3 DEF KitWhole
<1> QED  BY <1>1, <1>2, <1>4

(* A kit on its way moves as a whole, and this is a step of MaterialCustody. *)
LEMMA WayStep ==
  ASSUME Inv, Inv', KitInv, OrderKept, NEW a \in Asg, NEW type \in MovementType,
         NEW toShelf \in Direction, NEW toHome \in Direction,
         NEW moves, RecordMovements(a, AssignedTo[a], moves),
         \A m \in Material : Meant(a, moves[m]),
         \A m \in Material :
           moves[m] = IF KitQuantity(a, m) > 0
                        THEN Movement(type, KitQuantity(a, m), Carried(toShelf, a, m),
                                      Carried(toHome, a, m))
                        ELSE NoMovement,
         \A b \in Asg \ {a} : work'[b] = work[b],
         Status(a)' \notin {"NONE", "READY_TO_DELIVER"},
         Status(a)' # "CANCELLED" => "ISSUE_TO_WORKER" \in TrailOf(a) \cup {type},
         \/ TrailOf(a) = OnShelf /\ type = "ISSUE_TO_WORKER" /\ toShelf = 0 /\ toHome = 1
         \/ TrailOf(a) = AtHome /\ type = "CONSUMPTION" /\ toShelf = 0 /\ toHome = -1
         \/ TrailOf(a) = AtHome /\ type = "WRITE_OFF" /\ toShelf = 0 /\ toHome = -1
         \/ TrailOf(a) = OnShelf /\ type = "ADJUSTMENT_IN" /\ toShelf = 1 /\ toHome = 0
         \/ TrailOf(a) = AtHome /\ type = "RETURN_FROM_WORKER" /\ toShelf = 1 /\ toHome = -1
  PROVE  CustodyStep
<1>1. KitWhole(a) /\ TrailOf(a) # {} /\ work'[a].kits = work[a].kits
  BY DEF KitInv, OnShelf, AtHome, OrderKept, SameOrder
<1>2. /\ work'[a].kits \in Nat
      /\ \A m \in Material : KitQuantity(a, m)' = KitQuantity(a, m)
      /\ \E m \in Material : KitQuantity(a, m)' > 0
  BY <1>1, KitHasIngredient DEF Inv, TypeInv
<1>3. PICK g \in Material : KitQuantity(a, g)' > 0  BY <1>2
<1>4. /\ type # "RECEIPT" /\ type \notin TrailOf(a) /\ TrailOf(a) \cup {type} \in Trails
  BY DEF OnShelf, AtHome, Trails
<1>5. \A m \in Material :
        moves[m] = IF KitQuantity(a, m)' > 0
                     THEN Movement(type, KitQuantity(a, m)', Carried(toShelf, a, m),
                                   Carried(toHome, a, m))
                     ELSE NoMovement
  BY <1>2
<1>6. KitMoved(a, type, toShelf, toHome)  BY <1>2, <1>3, <1>4, <1>5, KitMoves
<1>7. \A m \in Material : shelf'[m] \in Nat
  BY DEF Inv, TypeInv, AssignmentTypeOK, StockTypeOK
<1>8. work'[a].kits \in 1..3  BY <1>1 DEF KitWhole
<1>9. KitWhole(a)'  BY <1>1, <1>4, <1>6, <1>8, WholeMoves
<1> QED  BY <1>1, <1>6, <1>7, <1>9, KitMovedStep

(* A kit that stays where it is while its work is closed or goes on.       *)
LEMMA EmptyMoveStep ==
  ASSUME Inv, KitInv, OrderKept, NEW a \in Asg, StatusFits(a), UNCHANGED material,
         NEW moves, RecordMovements(a, AssignedTo[a], moves),
         \A m \in Material : moves[m] = NoMovement,
         \A b \in Asg \ {a} : work'[b] = work[b]
  PROVE  CustodyStep
<1>1. a \in Source /\ AssignedTo[a] \in Worker  BY AssignmentAssumption DEF Source
<1>2. UNCHANGED <<shelf, home, moved>>
  BY <1>1, NoMovementNoChange DEF Inv, TypeInv, AssignmentTypeOK
<1>3. \A b \in Asg : StatusFits(b)  BY DEF StatusFits, Status
<1> QED  BY <1>2, <1>3, NothingMovedStep

(* confirmHandoff: the kit that was prepared is with the worker.           *)
LEMMA ConfirmStep ==
  ASSUME Inv, Inv', KitInv, OrderKept, NEW a \in Asg, NEW i, ConfirmHandoff(a, i)
  PROVE  CustodyStep
<1> DEFINE moves == MoveKit("ISSUE_TO_WORKER", LAMBDA m : KitQuantity(a, m), 0, 1)
<1>1. RecordMovements(a, AssignedTo[a], moves)  BY Zenon DEF ConfirmHandoff
<1>2. /\ KitWhole(a) /\ TrailOf(a) = OnShelf /\ AssignmentTypeOK
      /\ work'[a].kits = work[a].kits
  BY DEF ConfirmHandoff, CanReceive, KitInv, KitWhole, Inv, TypeInv, OrderKept, SameOrder
<1>3. \A m \in Material : KitQuantity(a, m) \in Nat  BY <1>2, WorkTypes
<1>4. /\ work'[a].kits \in Nat
      /\ \A m \in Material : KitQuantity(a, m)' = KitQuantity(a, m)
  BY <1>2, KitHasIngredient DEF OnShelf
<1>5. \A m \in Material : Carried(0, a, m) = 0 /\ Carried(1, a, m) = KitQuantity(a, m)
  BY <1>4, CarriedIs
<1>6. \A m \in Material :
        moves[m] = IF KitQuantity(a, m) > 0
                     THEN Movement("ISSUE_TO_WORKER", KitQuantity(a, m), 0, KitQuantity(a, m))
                     ELSE NoMovement
  BY <1>3, TimesUnits DEF MoveKit
<1> HIDE DEF moves
<1>7. \A m \in Material : Meant(a, moves[m])  BY <1>3, <1>6, WorkMovementsMean
<1>8. \A m \in Material :
        moves[m] = IF KitQuantity(a, m) > 0
                     THEN Movement("ISSUE_TO_WORKER", KitQuantity(a, m), Carried(0, a, m),
                                   Carried(1, a, m))
                     ELSE NoMovement
  BY <1>5, <1>6
<1>9. Status(a)' = "IN_PROGRESS" /\ \A b \in Asg \ {a} : work'[b] = work[b]
  <2>1. PICK row : row = [work[a] EXCEPT !.status = "IN_PROGRESS"]  OBVIOUS
  <2>2. DOMAIN row = DOMAIN work[a] /\ row.status = "IN_PROGRESS"
    BY <1>2, <2>1, WorkTypes DEF Row
  <2>3. work' = [work EXCEPT ![a] = row]  BY <2>1 DEF ConfirmHandoff
  <2> QED  BY <1>2, <2>2, <2>3, StatusWritten
<1>10. "ISSUE_TO_WORKER" \in MovementType /\ 0 \in Direction /\ 1 \in Direction
  BY DEF MovementType, Direction
<1> QED  BY <1>1, <1>2, <1>7, <1>8, <1>9, <1>10, WayStep

(* completePickup: what she has is used.                                   *)
LEMMA PickupStep ==
  ASSUME Inv, Inv', KitInv, OrderKept, NEW c \in Client, PickupCommit(c)
  PROVE  CustodyStep
<1>1. PICK a : a = inflight[c].asg  OBVIOUS
<1>2. a \in Asg /\ "ISSUE_TO_WORKER" \in TrailOf(a)
  BY <1>1 DEF PickupCommit, Running, Inv, TypeInv, HandlersOK, HandlerOK, KitInv, Remembered
<1>3. KitWhole(a) /\ AssignmentTypeOK /\ work'[a].kits = work[a].kits
  BY <1>2 DEF KitInv, Inv, TypeInv, OrderKept, SameOrder
<1> DEFINE moves == MoveKit("CONSUMPTION", LAMBDA m : HeldFor(a, m), 0, -1)
<1>4. RecordMovements(a, AssignedTo[a], moves)  BY <1>1, Zenon DEF PickupCommit, MoveKit
<1>5. \A m \in Material : /\ KitQuantity(a, m) \in Nat
                          /\ HeldFor(a, m) = IF TrailOf(a) = AtHome THEN KitQuantity(a, m) ELSE 0
  BY <1>2, <1>3, WorkTypes, HeldByTrail
<1>6. \A m \in Material : HeldFor(a, m) \in Nat  BY <1>5
<1>7. \A m \in Material :
        moves[m] = IF HeldFor(a, m) > 0
                     THEN Movement("CONSUMPTION", HeldFor(a, m), 0, -HeldFor(a, m))
                     ELSE NoMovement
  BY <1>6, TimesUnits DEF MoveKit
<1> HIDE DEF moves
<1>8. Status(a)' = "UNDER_REVIEW" /\ \A b \in Asg \ {a} : work'[b] = work[b]
  BY <1>1, <1>2, PickupStatus
<1>9. CASE TrailOf(a) = AtHome
  <2>1. /\ work'[a].kits \in Nat
        /\ \A m \in Material : KitQuantity(a, m)' = KitQuantity(a, m)
    BY <1>2, <1>3, KitHasIngredient
  <2>2. \A m \in Material : Carried(0, a, m) = 0 /\ Carried(-1, a, m) = -KitQuantity(a, m)
    BY <1>2, <2>1, CarriedIs
  <2>3. \A m \in Material :
          moves[m] = IF KitQuantity(a, m) > 0
                       THEN Movement("CONSUMPTION", KitQuantity(a, m), Carried(0, a, m),
                                     Carried(-1, a, m))
                       ELSE NoMovement
    BY <1>5, <1>7, <1>9, <2>2
  <2>4. \A m \in Material : Meant(a, moves[m])
    BY <1>2, <1>6, <1>7, WorkMovementsMean
  <2>5. "CONSUMPTION" \in MovementType /\ 0 \in Direction /\ -1 \in Direction
    BY DEF MovementType, Direction
  <2> QED  BY <1>2, <1>4, <1>8, <1>9, <2>3, <2>4, <2>5, WayStep
<1>10. CASE TrailOf(a) # AtHome
  <2>1. \A m \in Material : moves[m] = NoMovement  BY <1>5, <1>7, <1>10
  <2>2. StatusFits(a)  BY <1>2, <1>8 DEF StatusFits
  <2>3. UNCHANGED material  BY DEF PickupCommit
  <2> QED  BY <1>2, <1>4, <1>8, <2>1, <2>2, <2>3, EmptyMoveStep
<1> QED  BY <1>9, <1>10

(* cancel: what she has comes back or is lost, a kit that waited comes     *)
(* back if somebody brings it.                                             *)
LEMMA CancelStep ==
  ASSUME Inv, Inv', KitInv, OrderKept, NEW a \in Asg, NEW returned \in BOOLEAN,
         Cancel(a, returned)
  PROVE  CustodyStep
<1> DEFINE moves == CancelKit(a, returned)
<1>1. RecordMovements(a, AssignedTo[a], moves) /\ Status(a) \in Cancellable /\ UNCHANGED material
  BY DEF Cancel
<1>2. KitWhole(a) /\ AssignmentTypeOK /\ work'[a].kits = work[a].kits
  BY DEF KitInv, Inv, TypeInv, OrderKept, SameOrder
<1>3. \A m \in Material : /\ KitQuantity(a, m) \in Nat
                          /\ HeldFor(a, m) = IF TrailOf(a) = AtHome THEN KitQuantity(a, m) ELSE 0
  BY <1>2, WorkTypes, HeldByTrail
<1>4. \A m \in Material :
        moves[m] = IF KitQuantity(a, m) > 0 /\ HeldFor(a, m) > 0
                     THEN IF returned THEN TakenBack(HeldFor(a, m)) ELSE WrittenOff(HeldFor(a, m))
                     ELSE IF KitQuantity(a, m) > 0 /\ returned /\ Status(a) = "READY_TO_DELIVER"
                            THEN Unpacked(KitQuantity(a, m))
                     ELSE NoMovement
  BY DEF CancelKit, ForEach
<1> HIDE DEF moves
<1>5. \A m \in Material : Meant(a, moves[m])
  <2>1. \A m \in Material : HeldFor(a, m) \in Nat  BY <1>3
  <2> QED  BY <1>3, <1>4, <2>1, WorkMovementsMean
<1>6. Status(a)' = "CANCELLED" /\ \A b \in Asg \ {a} : work'[b] = work[b]
  <2>1. PICK row : row = [work[a] EXCEPT !.status = "CANCELLED"]  OBVIOUS
  <2>2. DOMAIN row = DOMAIN work[a] /\ row.status = "CANCELLED"
    BY <1>2, <2>1, WorkTypes DEF Row
  <2>3. work' = [work EXCEPT ![a] = row]  BY <2>1 DEF Cancel
  <2> QED  BY <1>2, <2>2, <2>3, StatusWritten
<1>7. TrailOf(a) # {} /\ (TrailOf(a) = OnShelf <=> Status(a) = "READY_TO_DELIVER")
  <2>1. CASE Status(a) = "READY_TO_DELIVER"  BY <1>2, <2>1 DEF KitWhole, OnShelf
  <2>2. CASE Status(a) # "READY_TO_DELIVER"
    <3>1. "ISSUE_TO_WORKER" \in TrailOf(a)  BY <1>1, <1>2, <2>2 DEF KitWhole, Cancellable
    <3> QED  BY <2>2, <3>1 DEF OnShelf
  <2> QED  BY <2>1, <2>2
<1>8. /\ work'[a].kits \in Nat
      /\ \A m \in Material : KitQuantity(a, m)' = KitQuantity(a, m)
  BY <1>2, <1>7, KitHasIngredient
<1>9. \A m \in Material : /\ Carried(0, a, m) = 0 /\ Carried(1, a, m) = KitQuantity(a, m)
                          /\ Carried(-1, a, m) = -KitQuantity(a, m)
  BY <1>8, CarriedIs
<1>10. /\ {"RETURN_FROM_WORKER", "WRITE_OFF", "ADJUSTMENT_IN"} \subseteq MovementType
       /\ Direction = {-1, 0, 1}
  BY DEF MovementType, Direction
<1>11. CASE TrailOf(a) = AtHome /\ returned
  <2>1. \A m \in Material :
          moves[m] = IF KitQuantity(a, m) > 0
                       THEN Movement("RETURN_FROM_WORKER", KitQuantity(a, m), Carried(1, a, m),
                                     Carried(-1, a, m))
                       ELSE NoMovement
    BY <1>3, <1>4, <1>9, <1>11 DEF TakenBack
  <2> QED  BY <1>1, <1>5, <1>6, <1>10, <1>11, <2>1, WayStep
<1>12. CASE TrailOf(a) = AtHome /\ ~returned
  <2>1. \A m \in Material :
          moves[m] = IF KitQuantity(a, m) > 0
                       THEN Movement("WRITE_OFF", KitQuantity(a, m), Carried(0, a, m),
                                     Carried(-1, a, m))
                       ELSE NoMovement
    BY <1>3, <1>4, <1>9, <1>12 DEF WrittenOff
  <2> QED  BY <1>1, <1>5, <1>6, <1>10, <1>12, <2>1, WayStep
<1>13. CASE TrailOf(a) = OnShelf /\ returned
  <2>1. Status(a) = "READY_TO_DELIVER" /\ TrailOf(a) # AtHome
    BY <1>7, <1>13 DEF OnShelf, AtHome
  <2>2. \A m \in Material :
          moves[m] = IF KitQuantity(a, m) > 0
                       THEN Movement("ADJUSTMENT_IN", KitQuantity(a, m), Carried(1, a, m),
                                     Carried(0, a, m))
                       ELSE NoMovement
    BY <1>3, <1>4, <1>9, <1>13, <2>1 DEF Unpacked
  <2> QED  BY <1>1, <1>5, <1>6, <1>10, <1>13, <2>2, WayStep
<1>14. CASE TrailOf(a) # AtHome /\ ~(TrailOf(a) = OnShelf /\ returned)
  <2>1. \A m \in Material : moves[m] = NoMovement  BY <1>3, <1>4, <1>7, <1>14
  <2>2. StatusFits(a)  BY <1>1, <1>6 DEF StatusFits, Cancellable
  <2> QED  BY <1>1, <1>6, <2>1, <2>2, EmptyMoveStep
<1> QED  BY <1>11, <1>12, <1>13, <1>14

(* create: a kit that was nowhere is prepared.                             *)
LEMMA CreateStep ==
  ASSUME Inv, Inv', KitInv, NEW c \in Client, CreateCommit(c)
  PROVE  CustodyStep
<1>1. PICK made : made = inflight[c]  OBVIOUS
<1>2. /\ made.kits \in KitCounts /\ \E m \in Material : Recipe[m] > 0
  BY <1>1 DEF CreateCommit, Running, Inv, TypeInv, HandlersOK, HandlerOK, KitInv, Remembered
<1>3. PICK n : n = made.kits  OBVIOUS
<1>4. n \in 1..3 /\ n \in Nat
  <2>1. n \in KitCounts /\ KitCounts \subseteq 1..3  BY <1>2, <1>3, AssignmentAssumption
  <2>2. n \in 1..3  BY <2>1
  <2> QED  BY <2>2
<1>5. PICK row : row = [NoWork EXCEPT !.status = "READY_TO_DELIVER", !.req = made.req, !.kits = n]
  OBVIOUS
<1>6. PICK a \in Asg : /\ AssignedTo[a] = made.worker
                       /\ Status(a) = "NONE"
                       /\ RecordMovements(a, made.worker, IssueToKit(n))
                       /\ work' = [work EXCEPT ![a] = row]
  BY <1>1, <1>3, <1>5, Zenon DEF CreateCommit
<1>7. row.status = "READY_TO_DELIVER" /\ row.kits = n
  <2>1. PICK r1 : r1 = [NoWork EXCEPT !.status = "READY_TO_DELIVER"]  OBVIOUS
  <2>2. PICK r2 : r2 = [r1 EXCEPT !.req = made.req]  OBVIOUS
  <2>3. PICK r3 : r3 = [r2 EXCEPT !.kits = n]  OBVIOUS
  <2>4. row = r3  BY <1>5, <2>1, <2>2, <2>3, Zenon
  <2>5. DOMAIN r1 = DOMAIN NoWork /\ r1.status = "READY_TO_DELIVER"  BY <2>1 DEF NoWork
  <2>6. DOMAIN r2 = DOMAIN NoWork /\ r2.status = "READY_TO_DELIVER"  BY <2>2, <2>5 DEF NoWork
  <2> QED  BY <2>3, <2>4, <2>6 DEF NoWork
<1>8. work'[a] = row /\ \A b \in Asg \ {a} : work'[b] = work[b]
  BY <1>6 DEF Inv, TypeInv, AssignmentTypeOK
<1>9. work'[a].kits = n /\ Status(a)' = "READY_TO_DELIVER"  BY <1>7, <1>8 DEF Status
<1>10. KitWhole(a) /\ TrailOf(a) = {}  BY <1>6 DEF KitInv, KitWhole
<1>11. \A m \in Material : /\ KitQuantity(a, m)' \in Nat /\ Carried(0, a, m) = 0
                           /\ Carried(-1, a, m) = -KitQuantity(a, m)'
  BY <1>4, <1>9, CarriedIs
<1>12. \A m \in Material : /\ KitQuantity(a, m)' = Recipe[m] * n
                           /\ Recipe[m] \in Nat
                           /\ KitQuantity(a, m)' > 0 <=> Recipe[m] > 0
  <2>1. TAKE m \in Material
  <2>2. PICK r : r = Recipe[m]  OBVIOUS
  <2>3. r \in Nat  BY <2>2, StockAssumption
  <2>4. KitQuantity(a, m)' = n * r  BY <1>9, <2>2 DEF KitQuantity
  <2>5. CASE n = 1  BY <2>2, <2>3, <2>4, <2>5
  <2>6. CASE n = 2  BY <2>2, <2>3, <2>4, <2>6
  <2>7. CASE n = 3  BY <2>2, <2>3, <2>4, <2>7
  <2> QED  BY <1>4, <2>5, <2>6, <2>7
<1> DEFINE moves == IssueToKit(n)
<1>13. \A m \in Material :
         moves[m] = IF Recipe[m] = 0 THEN NoMovement
                    ELSE Movement("ISSUE_TO_KIT", Recipe[m] * n, -(Recipe[m] * n), 0)
  BY DEF IssueToKit
<1> HIDE DEF moves
<1>14. ASSUME NEW m \in Material
       PROVE  /\ moves[m] = IF KitQuantity(a, m)' > 0
                              THEN Movement("ISSUE_TO_KIT", KitQuantity(a, m)', Carried(-1, a, m),
                                            Carried(0, a, m))
                              ELSE NoMovement
              /\ Meant(a, moves[m])
  <2>1. PICK q : q = KitQuantity(a, m)'  OBVIOUS
  <2>2. q \in Nat /\ moves[m] = IF q > 0 THEN Movement("ISSUE_TO_KIT", q, -q, 0) ELSE NoMovement
    BY <1>11, <1>12, <1>13, <2>1
  <2>3. Meant(a, moves[m])  BY <2>2, WorkMovementsMean
  <2>4. Carried(-1, a, m) = -q /\ Carried(0, a, m) = 0  BY <1>11, <2>1
  <2> QED  BY <2>1, <2>2, <2>3, <2>4
<1>15. PICK g \in Material : KitQuantity(a, g)' > 0  BY <1>2, <1>12
<1>16. /\ "ISSUE_TO_KIT" \in MovementType /\ "ISSUE_TO_KIT" # "RECEIPT"
       /\ -1 \in Direction /\ 0 \in Direction /\ "ISSUE_TO_KIT" \notin TrailOf(a)
  BY <1>10 DEF MovementType, Direction
<1>17. RecordMovements(a, AssignedTo[a], moves) /\ work'[a].kits \in Nat
  BY <1>4, <1>6, <1>9 DEF moves
<1>18. KitMoved(a, "ISSUE_TO_KIT", -1, 0)
  BY <1>14, <1>15, <1>16, <1>17, KitMoves
<1>19. \A m \in Material : shelf'[m] \in Nat
  BY DEF Inv, TypeInv, AssignmentTypeOK, StockTypeOK
<1>20. TrailOf(a) \cup {"ISSUE_TO_KIT"} \in Trails  BY <1>10 DEF Trails, OnShelf
<1>21. KitWhole(a)'  BY <1>4, <1>9, <1>10, <1>16, <1>18, <1>20, WholeMoves
<1> QED  BY <1>8, <1>10, <1>16, <1>18, <1>19, <1>21, KitMovedStep

-----------------------------------------------------------------------------
(* What the office books changes the shelf and what was counted by as      *)
(* much, and nothing else.                                                 *)
LEMMA RestockStep ==
  ASSUME Inv, Inv', KitInv, NEW w \in Worker, NEW moves, RecordMovements(NoAsg, w, moves),
         \A m \in Material : Meant(NoAsg, moves[m]) /\ moves[m].worker = 0,
         UNCHANGED workVars
  PROVE  CustodyStep
<1>1. /\ moved \in [Source -> [Material -> [MovementType -> Nat]]]
      /\ shelf \in [Material -> Nat] /\ shelf' \in [Material -> Nat]
      /\ home \in [Worker -> [Material -> Nat]]
  BY DEF Inv, TypeInv, AssignmentTypeOK, StockTypeOK
<1>2. NoAsg \in Source /\ \A a \in Asg : a \in Source /\ a # NoAsg
  BY StockAssumption DEF Source
<1>3. /\ moved' \in [Source -> [Material -> [MovementType -> Nat]]]
      /\ \A a \in Asg : moved'[a] = moved[a]
      /\ \A m \in Material : ShelfTotal(NoAsg, m)' = ShelfTotal(NoAsg, m) + moves[m].warehouse
  BY <1>1, <1>2, RecordAddsUp
<1>4. home' = home  BY <1>1 DEF RecordMovements
<1>5. \A a \in Asg : /\ StatusFits(a) /\ work'[a].kits = work[a].kits /\ KitWhole(a)
  BY DEF workVars, StatusFits, Status, KitInv
<1>6. \A a \in Asg : KitWhole(a)' /\ TrailOf(a)' = TrailOf(a) /\ Place(a)' = Place(a)
  BY <1>3, <1>5, WholeStays
<1> DEFINE Stocked == [m \in Material |-> ShelfTotal(NoAsg, m)]
<1>7. \A m \in Material : ShelfTotal(NoAsg, m) \in Int /\ ShelfTotal(NoAsg, m)' \in Int
  <2>1. \A m \in Material : ShelfTotal(NoAsg, m) \in Int  BY <1>1, <1>2, TotalsAreInt
  <2>2. \A m \in Material : moves[m].warehouse \in Int  BY DEF Meant
  <2> QED  BY <1>3, <2>1, <2>2
<1>8. Stocked' \in [Material -> Int]  BY <1>7
<1>9. shelf' = [m \in Material |-> shelf[m] + Stocked'[m] - Stocked[m]]
  <2>1. shelf' = [m \in Material |-> shelf[m] + moves[m].warehouse]  BY DEF RecordMovements
  <2>2. ASSUME NEW m \in Material
        PROVE  shelf[m] + moves[m].warehouse = shelf[m] + ShelfTotal(NoAsg, m)' - ShelfTotal(NoAsg, m)
    <3>1. PICK s, t, u : s = shelf[m] /\ t = ShelfTotal(NoAsg, m) /\ u = moves[m].warehouse
      OBVIOUS
    <3>2. s \in Int /\ t \in Int /\ u \in Int  BY <1>1, <1>7, <3>1 DEF Meant
    <3>3. ShelfTotal(NoAsg, m)' = t + u  BY <1>3, <3>1
    <3> QED  BY <3>1, <3>2, <3>3
  <2> QED  BY <2>1, <2>2
<1>10. \A m \in Material : shelf'[m] >= 0  BY <1>1
<1>11. UNCHANGED <<[a \in Asg |-> work[a].kits], [a \in Asg |-> Place(a)]>>
  BY <1>5, <1>6
<1>12. Custody!Restock  BY <1>4, <1>8, <1>9, <1>10, <1>11 DEF Custody!Restock
<1>13. Custody!Next  BY <1>12 DEF Custody!Next
<1> QED  BY <1>6, <1>13 DEF CustodyStep

(* Receipts, counts, write-offs and batches are such bookings.             *)
LEMMA OfficeStep ==
  ASSUME Inv, Inv', KitInv, StockNext, UNCHANGED workVars
  PROVE  CustodyStep
<1>1. \A type, p, d : /\ Movement(type, p, d, 0).worker = 0 /\ NoMovement.worker = 0
  BY DEF Movement, NoMovement
<1>2. Meant(NoAsg, NoMovement)  BY DEF Meant, NoMovement, Movement, MovementType
<1>3. ASSUME NEW m \in Material, NEW q \in 1..MaxManual,
             Receipt(m, q) \/ AdjustIn(m, q) \/ AdjustOut(m, q) \/ WriteOff(m, q)
      PROVE  CustodyStep
  <2>1. q \in Nat  BY StockAssumption
  <2>2. /\ Meant(NoAsg, Movement("RECEIPT", q, q, 0))
        /\ Meant(NoAsg, Movement("ADJUSTMENT_IN", q, q, 0))
        /\ Meant(NoAsg, Movement("ADJUSTMENT_OUT", q, -q, 0))
        /\ Meant(NoAsg, Movement("WRITE_OFF", q, -q, 0))
    BY <2>1 DEF Meant, Movement, MovementType
  <2>3. PICK movement : /\ Meant(NoAsg, movement) /\ movement.worker = 0
                        /\ RecordManual(m, movement)
    BY <1>1, <1>3, <2>2 DEF Receipt, AdjustIn, AdjustOut, WriteOff
  <2> DEFINE moves == [x \in Material |-> IF x = m THEN movement ELSE NoMovement]
  <2>4. PICK w \in Worker : RecordMovements(NoAsg, w, moves)  BY <2>3 DEF RecordManual
  <2>5. \A x \in Material : Meant(NoAsg, moves[x]) /\ moves[x].worker = 0
    BY <1>1, <1>2, <2>3
  <2> HIDE DEF moves
  <2> QED  BY <2>4, <2>5, RestockStep
<1>4. CASE Assemble(1)
  <2>1. PICK w \in Worker : RecordMovements(NoAsg, w, IssueToKit(1))  BY <1>4 DEF Assemble
  <2>2. ASSUME NEW m \in Material
        PROVE  Meant(NoAsg, IssueToKit(1)[m]) /\ IssueToKit(1)[m].worker = 0
    <3>1. PICK taken : taken = Recipe[m] * 1  OBVIOUS
    <3>2. taken \in Nat  BY <3>1, StockAssumption
    <3>3. IssueToKit(1)[m] = IF Recipe[m] = 0 THEN NoMovement
                             ELSE Movement("ISSUE_TO_KIT", taken, -taken, 0)
      BY <3>1 DEF IssueToKit
    <3>4. Meant(NoAsg, Movement("ISSUE_TO_KIT", taken, -taken, 0))
      BY <3>2 DEF Meant, Movement, MovementType
    <3> QED  BY <1>1, <1>2, <3>3, <3>4
  <2> QED  BY <2>1, <2>2, RestockStep
<1>5. ASSUME NEW c \in Client, AbandonStock(c)
      PROVE  CustodyStep
  <2>1. UNCHANGED <<shelf, home, moved>> /\ OrderKept /\ \A a \in Asg : StatusFits(a)
    BY <1>5 DEF AbandonStock, stockVars, workVars, OrderKept, SameOrder, StatusFits, Status
  <2> QED  BY <2>1, NothingMovedStep
<1> QED  BY <1>3, <1>4, <1>5 DEF StockNext

(* Every step of the program is a step of MaterialCustody or none, and it  *)
(* leaves every kit whole.                                                 *)
LEMMA EveryStepIsCustody ==
  ASSUME Inv, Inv', KitInv, [AssignmentNext]_assignmentVars
  PROVE  CustodyStep
<1>1. CASE \E c \in Client : CreateCommit(c)  BY <1>1, CreateStep
<1>2. CASE \A c \in Client : ~CreateCommit(c)
  <2>1. OrderKept  BY <1>2, StepKeepsOrder
  <2>2. CASE UNCHANGED <<work, stockVars>>
    <3>1. UNCHANGED <<shelf, home, moved>> /\ \A a \in Asg : StatusFits(a)
      BY <2>2 DEF stockVars, StatusFits, Status
    <3> QED  BY <2>1, <3>1, NothingMovedStep
  <2>3. ASSUME NEW c \in Client, WorkStep(c)  PROVE CustodyStep
    <3>1. CASE ProgressCommit(c) \/ ReadyCommit(c) \/ AcceptCommit(c)
      BY <2>1, <3>1, ReportStep
    <3>2. CASE PickupCommit(c)  BY <2>1, <3>2, PickupStep
    <3> QED
      BY <1>2, <2>2, <2>3, <3>1, <3>2
         DEF WorkStep, CreateBegin, ScanBegin, PickupBegin, ReadyBegin, ProgressBegin, AcceptBegin,
             AsgBegin, ScanCommit, workVars
  <2>4. ASSUME NEW a \in Asg, LockedStep(a)  PROVE CustodyStep
    <3>1. CASE \E i \in DOMAIN handoffs[a] : ConfirmHandoff(a, i)
      BY <2>1, <3>1, ConfirmStep
    <3>2. CASE \E returned \in BOOLEAN : Cancel(a, returned)
      BY <2>1, <3>2, CancelStep
    <3> QED
      BY <2>2, <2>4, <3>1, <3>2 DEF LockedStep, StartHandoff, HandoffLapses, HandoffProblem
  <2>5. CASE StockNext /\ UNCHANGED workVars  BY <2>5, OfficeStep
  <2> QED  BY <2>2, <2>3, <2>4, <2>5 DEF AssignmentNext, assignmentVars, workVars
<1> QED  BY <1>1, <1>2

(* What a handler knows of the kit stays true, for a trail only grows.     *)
LEMMA RememberedStays ==
  ASSUME Inv, Inv', KitInv, \A a \in Asg : TrailOf(a) \subseteq TrailOf(a)',
         \A d \in Client : inflight'[d] = inflight[d] \/ Remembered(inflight'[d])
  PROVE  \A d \in Client : Remembered(inflight[d])'
<1> SUFFICES ASSUME NEW d \in Client  PROVE Remembered(inflight[d])'  OBVIOUS
<1>1. PICK h : h = inflight'[d]  OBVIOUS
<1>2. HandlerOK(h)
  <2>1. HandlerOK(inflight'[d])  BY DEF Inv, TypeInv, HandlersOK, HandlerOK
  <2> QED  BY <1>1, <2>1
<1>3. Remembered(h)  BY <1>1 DEF KitInv
<1>4. Remembered(h)'  BY <1>2, <1>3 DEF Remembered, HandlerOK
<1> QED  BY <1>1, <1>4

(* What a step leaves in the slots: what was there, nothing, or a handler  *)
(* that has just looked.                                                   *)
LEMMA SlotsRemember ==
  ASSUME Inv, KitInv, [AssignmentNext]_assignmentVars
  PROVE  \A d \in Client : inflight'[d] = inflight[d] \/ Remembered(inflight'[d])
<1>1. Remembered(NoHandler)  BY DEF Remembered, NoHandler
<1>2. CASE UNCHANGED inflight  BY <1>2
<1>3. ASSUME NEW c \in Client, NEW h, Remembered(h), Start(c, h) \/ Finish(c)
      PROVE  \A d \in Client : inflight'[d] = inflight[d] \/ Remembered(inflight'[d])
  BY <1>1, <1>3 DEF Start, Finish, Inv, TypeInv, HandlersOK
<1>4. ASSUME NEW c \in Client, Finish(c)
      PROVE  \A d \in Client : inflight'[d] = inflight[d] \/ Remembered(inflight'[d])
  <2>1. PICK h : h = NoHandler  OBVIOUS
  <2>2. Remembered(h)  BY <1>1, <2>1
  <2> QED  BY <1>3, <1>4, <2>2
<1>5. ASSUME NEW a \in Asg, Status(a) \in {"IN_PROGRESS", "READY_FOR_PICKUP", "UNDER_REVIEW"}
      PROVE  "ISSUE_TO_WORKER" \in TrailOf(a)
  BY <1>5 DEF KitInv, KitWhole
<1>6. ASSUME NEW c \in Client, WorkStep(c)
      PROVE  \A d \in Client : inflight'[d] = inflight[d] \/ Remembered(inflight'[d])
  <2>1. ASSUME NEW w, NEW r, NEW k, CreateBegin(c, w, r, k)
        PROVE  \E h : Remembered(h) /\ Start(c, h)
    <3>1. Remembered([op |-> "create", worker |-> w, req |-> r, kits |-> k])
      BY <2>1 DEF CreateBegin, Remembered
    <3> QED  BY <2>1, <3>1 DEF CreateBegin, AsgBegin
  <2>2. ASSUME NEW a \in Asg, NEW i, ScanBegin(c, a, i)
        PROVE  \E h : Remembered(h) /\ Start(c, h)
    <3>1. Remembered([op |-> "scan", asg |-> a, handoff |-> i])  BY DEF Remembered
    <3> QED  BY <2>2, <3>1 DEF ScanBegin, AsgBegin
  <2>3. ASSUME NEW a \in Asg, NEW i, PickupBegin(c, a, i)
        PROVE  \E h : Remembered(h) /\ Start(c, h)
    <3>1. Remembered([op |-> "pickup", asg |-> a, delivery |-> i, cm |-> ReportedLength(a)])
      BY <1>5, <2>3 DEF PickupBegin, Remembered
    <3> QED  BY <2>3, <3>1 DEF PickupBegin, AsgBegin
  <2>4. ASSUME NEW a \in Asg, NEW cm, ReadyBegin(c, a, cm)
        PROVE  \E h : Remembered(h) /\ Start(c, h)
    <3>1. Remembered([op |-> "ready", asg |-> a, cm |-> cm])
      BY <1>5, <2>4 DEF ReadyBegin, Remembered
    <3> QED  BY <2>4, <3>1 DEF ReadyBegin, AsgBegin
  <2>5. ASSUME NEW a \in Asg, NEW cm, NEW id, ProgressBegin(c, a, cm, id)
        PROVE  \E h : Remembered(h) /\ Start(c, h)
    <3>1. Remembered([op |-> "progress", asg |-> a, cm |-> cm, id |-> id])
      BY <1>5, <2>5 DEF ProgressBegin, Remembered
    <3> QED  BY <2>5, <3>1 DEF ProgressBegin, AsgBegin
  <2>6. ASSUME NEW a \in Asg, NEW brought, NEW accepted, NEW defective,
               AcceptBegin(c, a, brought, accepted, defective)
        PROVE  \E h : Remembered(h) /\ Start(c, h)
    <3>1. Remembered([op |-> "accept", asg |-> a, accepted |-> accepted, defective |-> defective,
                      verdict |-> Verdict(accepted, brought)])
      BY <1>5, <2>6 DEF AcceptBegin, Remembered
    <3> QED  BY <2>6, <3>1 DEF AcceptBegin, AsgBegin
  <2>7. (\E h : Remembered(h) /\ Start(c, h)) \/ Finish(c)
    BY <1>6, <2>1, <2>2, <2>3, <2>4, <2>5, <2>6
       DEF WorkStep, CreateCommit, ScanCommit, ProgressCommit, ReadyCommit, PickupCommit, AcceptCommit
  <2> QED  BY <1>3, <1>4, <2>7
<1>7. ASSUME NEW c \in Client, JobStep(c)
      PROVE  \A d \in Client : inflight'[d] = inflight[d] \/ Remembered(inflight'[d])
  <2>1. ASSUME NEW r, RequestBegin(c, r) \/ WithdrawBegin(c, r) \/ RejectBegin(c, r)
        PROVE  \E h : Remembered(h) /\ Start(c, h)
    <3>1. PICK op \in {"request", "withdraw", "reject"} : Start(c, [op |-> op, req |-> r])
      BY <2>1 DEF RequestBegin, WithdrawBegin, RejectBegin
    <3>2. Remembered([op |-> op, req |-> r])  BY DEF Remembered
    <3> QED  BY <3>1, <3>2
  <2>2. ASSUME NEW w, NEW s, SetStatusBegin(c, w, s)
        PROVE  \E h : Remembered(h) /\ Start(c, h)
    <3>1. Remembered([op |-> "setStatus", worker |-> w, status |-> s])  BY DEF Remembered
    <3> QED  BY <2>2, <3>1 DEF SetStatusBegin
  <2>3. (\E h : Remembered(h) /\ Start(c, h)) \/ Finish(c)
    BY <1>7, <2>1, <2>2
       DEF JobStep, RequestCommit, WithdrawCommit, RejectCommit, SetStatusCommit
  <2> QED  BY <1>3, <1>4, <2>3
<1>8. ASSUME NEW a \in Asg, LockedStep(a)  PROVE UNCHANGED inflight
  BY <1>8 DEF LockedStep, StartHandoff, HandoffLapses, ConfirmHandoff, HandoffProblem, Cancel
<1>9. ASSUME StockNext  PROVE UNCHANGED inflight \/ \E c \in Client : Finish(c)
  BY <1>9 DEF StockNext, Receipt, AdjustIn, AdjustOut, WriteOff, Assemble, AbandonStock, Abandon
<1> QED  BY <1>2, <1>4, <1>6, <1>7, <1>8, <1>9 DEF AssignmentNext, assignmentVars

(* Before the first work every kit is nowhere, and what is on the shelf    *)
(* was received.                                                           *)
LEMMA CustodyStart ==
  ASSUME AssignmentInit
  PROVE  KitInv /\ Custody!Init
<1>1. StockInit /\ HandlersInit  BY DEF AssignmentInit
<1>2. \A t \in MovementType : NothingMoved[t] = 0  BY DEF NothingMoved
<1>3. ASSUME NEW a \in Asg
      PROVE  /\ work[a] = NoWork /\ \A m \in Material : moved[a][m] = NothingMoved
  <2>1. a \in Source /\ a # NoAsg  BY StockAssumption DEF Source
  <2> QED  BY <1>1, <2>1 DEF AssignmentInit, StockInit
<1>4. ASSUME NEW a \in Asg  PROVE TrailOf(a) = {} /\ KitWhole(a) /\ Place(a) = "nowhere"
  <2>1. TrailOf(a) = {}  BY <1>2, <1>3 DEF TrailOf
  <2>2. Status(a) = "NONE"  BY <1>3 DEF Status, NoWork
  <2>3. KitWhole(a)  BY <2>1, <2>2 DEF KitWhole, Trails
  <2>4. Place(a) = "nowhere"  BY <2>1, PlaceOfTrail DEF PlaceFor
  <2> QED  BY <2>1, <2>3, <2>4
<1>5. KitInv
  <2>1. Remembered(NoHandler)  BY DEF Remembered, NoHandler
  <2> QED  BY <1>1, <1>4, <2>1 DEF KitInv, HandlersInit
<1>6. ASSUME NEW m \in Material  PROVE ShelfTotal(NoAsg, m) = Opening[m] /\ Opening[m] \in Nat
  <2>1. PICK opening : opening = Opening[m]  OBVIOUS
  <2>2. opening \in Nat  BY <2>1, StockAssumption
  <2>3. moved[NoAsg][m] = [NothingMoved EXCEPT !["RECEIPT"] = opening]
    BY <1>1, <2>1 DEF StockInit, Source
  <2>4. /\ moved[NoAsg][m]["RECEIPT"] = opening
        /\ \A t \in MovementType \ {"RECEIPT"} : moved[NoAsg][m][t] = 0
    BY <2>3 DEF NothingMoved, MovementType
  <2> QED  BY <2>1, <2>2, <2>4 DEF ShelfTotal, MovementType
<1>7. [m \in Material |-> ShelfTotal(NoAsg, m)] = Opening
  BY <1>6, StockAssumption
<1>8. Opening \in [Material -> Nat]  BY StockAssumption
<1>9. [a \in Asg |-> work[a].kits] = [a \in Asg |-> 0]  BY <1>3 DEF NoWork
<1>10. [a \in Asg |-> Place(a)] = [a \in Asg |-> "nowhere"]  BY <1>4
<1>11. Custody!Init  BY <1>1, <1>7, <1>8, <1>9, <1>10 DEF Custody!Init, StockInit
<1> QED  BY <1>5, <1>11

(* However handlers overlap, assignments move material the way             *)
(* MaterialCustody promises: a kit leaves the shelf whole, is with the     *)
(* worker at most once, and ends once.                                     *)
THEOREM CustodyIsKept == AssignmentSpec => CustodyKept
<1>1. AssignmentInit => KitInv /\ Custody!Init  BY CustodyStart
<1>2. Inv /\ Inv' /\ KitInv /\ [AssignmentNext]_assignmentVars
        => KitInv' /\ [Custody!Next]_(Custody!vars)
  <2> SUFFICES ASSUME Inv, Inv', KitInv, [AssignmentNext]_assignmentVars
               PROVE  KitInv' /\ [Custody!Next]_(Custody!vars)
    OBVIOUS
  <2>1. CustodyStep  BY EveryStepIsCustody
  <2>2. \A a \in Asg : KitWhole(a)' /\ TrailOf(a) \subseteq TrailOf(a)'
    BY <2>1 DEF CustodyStep
  <2>3. \A d \in Client : inflight'[d] = inflight[d] \/ Remembered(inflight'[d])
    BY SlotsRemember
  <2>4. \A d \in Client : Remembered(inflight[d])'  BY <2>2, <2>3, RememberedStays
  <2>5. KitInv'  BY <2>2, <2>4 DEF KitInv
  <2> QED  BY <2>1, <2>5 DEF CustodyStep
<1> QED  BY <1>1, <1>2, InvAlways, PTL DEF AssignmentSpec, CustodyKept, Custody!Spec

-----------------------------------------------------------------------------
(*                        What an acceptance pays                          *)

(* The pay shown on a work stays.                                          *)
SamePay(row, old) == row.pay = old.pay
PayKept == \A a \in Asg : SamePay(work'[a], work[a])

(* Only create, with a new row, and accept touch this column.              *)
LEMMA StepKeepsPay ==
  ASSUME Inv, [AssignmentNext]_assignmentVars,
         \A c \in Client : ~CreateCommit(c) /\ ~AcceptCommit(c)
  PROVE  PayKept
<1>0. \A a \in Asg : work[a] \in Row BY WorkTypes DEF Inv, TypeInv
<1>1. CASE UNCHANGED work BY <1>1 DEF PayKept, SamePay
<1>2. ASSUME NEW a, NEW row, work' = [work EXCEPT ![a] = row], SamePay(row, work[a])
      PROVE  PayKept
  BY <1>2 DEF PayKept, SamePay, Inv, TypeInv, AssignmentTypeOK
<1>3. ASSUME NEW c \in Client, ProgressCommit(c) PROVE PayKept
  <2>1. PICK a, cm : a = inflight[c].asg /\ cm = inflight[c].cm OBVIOUS
  <2>2. a \in Asg
    BY <1>3, <2>1 DEF ProgressCommit, Running, Inv, TypeInv, HandlersOK, HandlerOK
  <2>3. PICK row : row = [work[a] EXCEPT !.reported = cm] OBVIOUS
  <2>4. SamePay(row, work[a]) BY <1>0, <2>2, <2>3 DEF Row, SamePay
  <2>5. work' = [work EXCEPT ![a] = row] BY <1>3, <2>1, <2>3 DEF ProgressCommit
  <2> QED BY <1>2, <2>4, <2>5
<1>4. ASSUME NEW c \in Client, ReadyCommit(c) PROVE PayKept
  <2>1. PICK a, cm : a = inflight[c].asg /\ cm = inflight[c].cm OBVIOUS
  <2>2. a \in Asg BY <1>4, <2>1 DEF ReadyCommit, Running, Inv, TypeInv, HandlersOK, HandlerOK
  <2>3. PICK w1 : w1 = [work EXCEPT ![a].status = "READY_FOR_PICKUP"] OBVIOUS
  <2>4. work' = [w1 EXCEPT ![a].reported = cm] BY <1>4, <2>1, <2>3, Zenon DEF ReadyCommit
  <2>5. w1 \in [Asg -> Row] /\ \A b \in Asg : SamePay(w1[b], work[b])
    <3>1. PICK r1 : r1 = [work[a] EXCEPT !.status = "READY_FOR_PICKUP"] OBVIOUS
    <3>2. r1 \in Row /\ SamePay(r1, work[a]) BY <1>0, <2>2, <3>1 DEF Row, AssignmentStatus, SamePay
    <3> QED BY <2>2, <2>3, <3>1, <3>2 DEF Inv, TypeInv, AssignmentTypeOK, Row, SamePay
  <2>6. \A b \in Asg : SamePay(work'[b], w1[b])
    <3>1. PICK r2 : r2 = [w1[a] EXCEPT !.reported = cm] OBVIOUS
    <3>2. SamePay(r2, w1[a]) BY <2>2, <2>5, <3>1 DEF Row, SamePay
    <3> QED BY <2>2, <2>4, <2>5, <3>1, <3>2 DEF SamePay
  <2> QED BY <2>5, <2>6 DEF PayKept, SamePay
<1>5. ASSUME NEW c \in Client, PickupCommit(c) PROVE PayKept
  <2>1. PICK a, cm : a = inflight[c].asg /\ cm = inflight[c].cm OBVIOUS
  <2>2. a \in Asg BY <1>5, <2>1 DEF PickupCommit, Running, Inv, TypeInv, HandlersOK, HandlerOK
  <2>3. PICK r1 : r1 = [work[a] EXCEPT !.status = "UNDER_REVIEW"] OBVIOUS
  <2>4. PICK row : row = [r1 EXCEPT !.delivered = cm] OBVIOUS
  <2>5. r1 \in Row /\ SamePay(r1, work[a]) BY <1>0, <2>2, <2>3 DEF Row, AssignmentStatus, SamePay
  <2>6. SamePay(row, work[a]) BY <2>4, <2>5 DEF Row, SamePay
  <2>7. work' = [work EXCEPT ![a] = row] BY <1>5, <2>1, <2>3, <2>4, Zenon DEF PickupCommit
  <2> QED BY <1>2, <2>6, <2>7
<1>7. ASSUME NEW a \in Asg, NEW s \in AssignmentStatus, work' = [work EXCEPT ![a].status = s]
      PROVE  PayKept
  <2>1. PICK row : row = [work[a] EXCEPT !.status = s] OBVIOUS
  <2>2. SamePay(row, work[a]) BY <1>0, <2>1 DEF Row, SamePay
  <2>3. work' = [work EXCEPT ![a] = row] BY <1>7, <2>1
  <2> QED BY <1>2, <2>2, <2>3
<1>8. ASSUME NEW a \in Asg, LockedStep(a) PROVE PayKept
  <2>1. CASE UNCHANGED work BY <1>1, <2>1
  <2>2. CASE \E i \in DOMAIN handoffs[a] : ConfirmHandoff(a, i)
    BY <1>7, <2>2 DEF ConfirmHandoff, AssignmentStatus
  <2>3. CASE \E returned \in BOOLEAN : Cancel(a, returned)
    BY <1>7, <2>3 DEF Cancel, AssignmentStatus
  <2> QED BY <1>8, <2>1, <2>2, <2>3 DEF LockedStep, StartHandoff, HandoffLapses, HandoffProblem
<1>9. ASSUME NEW c \in Client, WorkStep(c) PROVE PayKept
  <2>1. CASE UNCHANGED work BY <1>1, <2>1
  <2> QED
    BY <1>3, <1>4, <1>5, <1>9, <2>1
       DEF WorkStep, CreateBegin, ScanBegin, PickupBegin, ReadyBegin, ProgressBegin, AcceptBegin,
           AsgBegin, workVars, ScanCommit
<1> QED BY <1>1, <1>8, <1>9 DEF AssignmentNext, assignmentVars, workVars

(* An entry is appended; it is an earning of a if it was written for a.    *)
LEMMA RowAdded ==
  ASSUME LedgerTypeOK, NEW w \in Worker, NEW type, NEW amount, NEW cause,
         ApplyEntry(w, type, amount, cause), NEW a \in Asg
  PROVE  /\ \A i \in EarningRows(a) : rows'[AssignedTo[a]][i] = rows[AssignedTo[a]][i]
         /\ EarningRows(a)' = EarningRows(a) \cup
              (IF w = AssignedTo[a] /\ type = "EARNING" /\ cause = a
               THEN {Len(rows[w]) + 1} ELSE {})
         /\ w = AssignedTo[a] => rows'[AssignedTo[a]][Len(rows[w]) + 1].amount = amount
<1> DEFINE row == Entry(w, type, amount, cause)
<1>1. row.type = type /\ row.cause = cause /\ row.amount = amount BY DEF Entry
<1>2. rows' = [rows EXCEPT ![w] = Append(rows[w], row)] BY DEF ApplyEntry
<1>3. rows \in [Worker -> Seq(LedgerRow)] BY DEF LedgerTypeOK
<1> HIDE DEF row
<1>4. AssignedTo[a] \in Worker BY AssignmentAssumption
<1>5. CASE w # AssignedTo[a]
  <2>1. rows'[AssignedTo[a]] = rows[AssignedTo[a]] BY <1>2, <1>3, <1>4, <1>5
  <2> QED BY <1>5, <2>1 DEF EarningRows
<1>6. CASE w = AssignedTo[a]
  <2>1. PICK s : s = rows[w] OBVIOUS
  <2>2. s \in Seq(LedgerRow) /\ rows'[w] = Append(s, row) BY <1>2, <1>3, <2>1
  <2>3. /\ DOMAIN rows'[w] = DOMAIN s \cup {Len(s) + 1} /\ Len(s) + 1 \notin DOMAIN s
        /\ rows'[w][Len(s) + 1] = row
        /\ \A i \in DOMAIN s : rows'[w][i] = s[i]
    BY <2>2
  <2>4. EarningRows(a) = {i \in DOMAIN s : s[i].type = "EARNING" /\ s[i].cause = a}
    BY <1>6, <2>1, Zenon DEF EarningRows
  <2>5. EarningRows(a)' = {i \in DOMAIN rows'[w] : rows'[w][i].type = "EARNING"
                                                   /\ rows'[w][i].cause = a}
    BY <1>6, Zenon DEF EarningRows
  <2> QED BY <1>1, <1>6, <2>1, <2>3, <2>4, <2>5
<1> QED BY <1>5, <1>6

(* What the office does with the ledger earns nobody anything.             *)
LEMMA OfficeEarnsNothing ==
  ASSUME LedgerTypeOK, LedgerNext, NEW a \in Asg
  PROVE  /\ EarningRows(a)' = EarningRows(a)
         /\ \A i \in EarningRows(a) : rows'[AssignedTo[a]][i] = rows[AssignedTo[a]][i]
<1>1. ASSUME NEW w \in Worker, NEW amount, NEW cause, NEW type \in {"PAYOUT_CASH", "BONUS"},
             ApplyEntry(w, type, amount, cause)
      PROVE  /\ EarningRows(a)' = EarningRows(a)
             /\ \A i \in EarningRows(a) : rows'[AssignedTo[a]][i] = rows[AssignedTo[a]][i]
  <2>1. type # "EARNING" OBVIOUS
  <2>2. /\ \A i \in EarningRows(a) : rows'[AssignedTo[a]][i] = rows[AssignedTo[a]][i]
        /\ EarningRows(a)' = EarningRows(a) \cup
             (IF w = AssignedTo[a] /\ type = "EARNING" /\ cause = a
              THEN {Len(rows[w]) + 1} ELSE {})
    BY <1>1, RowAdded, Zenon
  <2> QED BY <2>1, <2>2
<1>2. CASE UNCHANGED rows BY <1>2 DEF EarningRows
<1> QED BY <1>1, <1>2 DEF LedgerNext, Payout, Bonus, ChangeRate

(* What create makes of an id that was not used. *)
LEMMA CreatedWork ==
  ASSUME Inv, NEW c \in Client, CreateCommit(c)
  PROVE  \E a \in Asg : /\ Status(a) = "NONE" /\ Status(a)' = "READY_TO_DELIVER"
                        /\ work'[a].pay = 0
                        /\ \A b \in Asg \ {a} : work'[b] = work[b]
<1>1. PICK r, n : r = inflight[c].req /\ n = inflight[c].kits OBVIOUS
<1>2. PICK row : row = [NoWork EXCEPT !.status = "READY_TO_DELIVER", !.req = r, !.kits = n]
  OBVIOUS
<1>3. PICK a \in Asg : Status(a) = "NONE" /\ work' = [work EXCEPT ![a] = row]
  BY <1>1, <1>2, Zenon DEF CreateCommit
<1>4. row.status = "READY_TO_DELIVER" /\ row.pay = 0
  <2>1. PICK r1 : r1 = [NoWork EXCEPT !.status = "READY_TO_DELIVER"] OBVIOUS
  <2>2. PICK r2 : r2 = [r1 EXCEPT !.req = r] OBVIOUS
  <2>3. PICK r3 : r3 = [r2 EXCEPT !.kits = n] OBVIOUS
  <2>4. row = r3 BY <1>2, <2>1, <2>2, <2>3, Zenon
  <2>5. DOMAIN r1 = DOMAIN NoWork /\ r1.status = "READY_TO_DELIVER" /\ r1.pay = 0
    BY <2>1 DEF NoWork
  <2>6. DOMAIN r2 = DOMAIN NoWork /\ r2.status = "READY_TO_DELIVER" /\ r2.pay = 0
    BY <2>2, <2>5 DEF NoWork
  <2> QED BY <2>3, <2>4, <2>6 DEF NoWork
<1>5. work'[a] = row /\ \A b \in Asg \ {a} : work'[b] = work[b]
  BY <1>3 DEF Inv, TypeInv, AssignmentTypeOK
<1> QED BY <1>3, <1>4, <1>5 DEF Status

(* Nothing accepted, nothing earned. *)
LEMMA NothingEarnsNothing ==
  ASSUME NEW rate \in Nat
  PROVE  EarningFor(rate, 0) = 0
<1>1. 2 * rate \in Nat /\ \A n \in Nat : n * 0 = 0 OBVIOUS
<1>2. 2 * rate * 0 + KitCm = KitCm BY <1>1, LedgerAssumption
<1>3. \A n \in Nat \ {0} : n \div (2 * n) = 0 OBVIOUS
<1> QED BY <1>2, <1>3, LedgerAssumption DEF EarningFor

(* What an acceptance writes. *)
LEMMA AcceptWrites ==
  ASSUME Inv, NEW c \in Client, AcceptCommit(c)
  PROVE  \E a \in Asg, accepted \in Nat, rate \in Nat, pay \in Nat :
           /\ a = inflight[c].asg
           /\ pay = EarningFor(rate, accepted)
           /\ accepted = 0 => pay = 0
           /\ work'[a].pay = IF accepted > 0 THEN pay ELSE work[a].pay
           /\ \A b \in Asg \ {a} : work'[b] = work[b]
           /\ IF pay > 0 THEN ApplyEntry(AssignedTo[a], "EARNING", pay, a) ELSE UNCHANGED rows
<1>1. PICK a, accepted, defective, verdict :
        /\ a = inflight[c].asg /\ accepted = inflight[c].accepted
        /\ defective = inflight[c].defective /\ verdict = inflight[c].verdict
  OBVIOUS
<1>2. a \in Asg /\ accepted \in Nat 
  BY <1>1 DEF AcceptCommit, Running, Inv, TypeInv, HandlersOK, HandlerOK
<1>3. work[a] \in Row /\ AssignmentTypeOK /\ LedgerTypeOK
  BY <1>2, WorkTypes DEF Inv, TypeInv, LedgerInv
<1>4. PICK rate, pay : rate = CurrentRate /\ pay = EarningFor(CurrentRate, accepted) OBVIOUS
<1>5. rate \in Nat /\ pay \in Nat /\ (accepted = 0 => pay = 0)
  BY <1>2, <1>3, <1>4, CurrentRateIsRate, EarningIsNat, NothingEarnsNothing
<1>6. PICK p1 : p1 = [work[a] EXCEPT !.rate = rate] OBVIOUS
<1>7. PICK p2 : p2 = [p1 EXCEPT !.pay = pay] OBVIOUS
<1>8. PICK paid : paid = IF accepted > 0 THEN p2 ELSE work[a] OBVIOUS
<1>9. PICK r1 : r1 = [paid EXCEPT !.accepted = accepted] OBVIOUS
<1>10. PICK r2 : r2 = [r1 EXCEPT !.defective = defective] OBVIOUS
<1>11. PICK row : row = [r2 EXCEPT !.status = verdict] OBVIOUS
<1>12. /\ work' = [work EXCEPT ![a] = row]
       /\ EarnFor(AssignedTo[a], a, accepted)
  BY <1>1, <1>4, <1>6, <1>7, <1>8, <1>9, <1>10, <1>11, Zenon DEF AcceptCommit
<1>13. p1 \in Row /\ p1.pay = work[a].pay BY <1>3, <1>5, <1>6 DEF Row
<1>14. p2 \in Row /\ p2.pay = pay BY <1>5, <1>7, <1>13 DEF Row
<1>15. /\ paid \in Row
       /\ paid.pay = IF accepted > 0 THEN pay ELSE work[a].pay
  BY <1>3, <1>8, <1>14
<1>16. r1 \in Row /\ r1.pay = paid.pay
  BY <1>2, <1>9, <1>15 DEF Row
<1>17. DOMAIN r2 = DOMAIN r1 /\ r2.pay = paid.pay
  BY <1>10, <1>16 DEF Row
<1>18. row.pay = paid.pay
  BY <1>11, <1>16, <1>17 DEF Row
<1>19. work'[a] = row /\ \A b \in Asg \ {a} : work'[b] = work[b]
  BY <1>2, <1>3, <1>12 DEF AssignmentTypeOK
<1>20. IF pay > 0 THEN ApplyEntry(AssignedTo[a], "EARNING", pay, a) ELSE UNCHANGED rows
  BY <1>4, <1>12, Zenon DEF EarnFor, ledgerVars
<1> QED BY <1>1, <1>2, <1>4, <1>5, <1>15, <1>18, <1>19, <1>20

(* The ledger is written by the office and by acceptance.                  *)
LEMMA RowsWritten ==
  ASSUME [AssignmentNext]_assignmentVars
  PROVE  UNCHANGED rows \/ LedgerNext \/ \E c \in Client : AcceptCommit(c)
<1>1. ASSUME NEW c \in Client, WorkStep(c) PROVE UNCHANGED rows \/ AcceptCommit(c)
  BY <1>1 DEF WorkStep, CreateBegin, ScanBegin, PickupBegin, ReadyBegin, ProgressBegin, AcceptBegin,
       AsgBegin, CreateCommit, ScanCommit, ProgressCommit, ReadyCommit, PickupCommit, ledgerVars
<1>2. ASSUME NEW a \in Asg, LockedStep(a) PROVE UNCHANGED rows
  BY <1>2 DEF LockedStep, StartHandoff, HandoffLapses, ConfirmHandoff, HandoffProblem, Cancel,
       ledgerVars
<1> QED BY <1>1, <1>2 DEF AssignmentNext, assignmentVars, ledgerVars

(* PaidAsSettled, for one work. *)
Settled(a) == work[a].pay > 0 =>
  \E i \in EarningRows(a) : /\ rows[AssignedTo[a]][i].amount = work[a].pay
                            /\ \A j \in EarningRows(a) : j <= i

(* What her ledger says of a work stays, and so does what the work says.   *)
LEMMA SettledStays ==
  ASSUME NEW a \in Asg, Settled(a), work'[a].pay = work[a].pay,
         EarningRows(a)' = EarningRows(a),
         \A i \in EarningRows(a) : rows'[AssignedTo[a]][i] = rows[AssignedTo[a]][i]
  PROVE  Settled(a)'
<1> SUFFICES ASSUME work[a].pay > 0
             PROVE  \E i \in EarningRows(a) : /\ rows'[AssignedTo[a]][i].amount = work[a].pay
                                              /\ \A j \in EarningRows(a) : j <= i
  BY Zenon DEF Settled
<1> QED BY DEF Settled

(* An acceptance that pays writes the newest row of its work, whatever was *)
(* written for it before; one that pays nothing leaves both as they were.  *)
LEMMA AcceptSettles ==
  ASSUME Inv, PaidAsSettled, NEW c \in Client, AcceptCommit(c), NEW b \in Asg
  PROVE  Settled(b)'
<1>1. PICK a \in Asg, accepted \in Nat, rate \in Nat, pay \in Nat :
        /\ accepted = 0 => pay = 0
        /\ work'[a].pay = IF accepted > 0 THEN pay ELSE work[a].pay
        /\ \A d \in Asg \ {a} : work'[d] = work[d]
        /\ IF pay > 0 THEN ApplyEntry(AssignedTo[a], "EARNING", pay, a) ELSE UNCHANGED rows
  BY AcceptWrites
<1>2. PICK w \in Worker : w = AssignedTo[a] BY AssignmentAssumption
<1>3. Settled(b) BY DEF PaidAsSettled, Settled
<1>4. CASE pay = 0
  <2>1. UNCHANGED rows BY <1>1, <1>4
  <2>2. EarningRows(b)' = EarningRows(b) BY <2>1, Zenon DEF EarningRows
  <2>3. CASE b = a /\ accepted > 0
    <3>1. ~(work'[b].pay > 0) BY <1>1, <1>4, <2>3
    <3> QED BY <3>1, Zenon DEF Settled
  <2>4. CASE ~(b = a /\ accepted > 0)
    <3>1. work'[b].pay = work[b].pay BY <1>1, <2>4
    <3> QED BY <1>3, <2>1, <2>2, <3>1, SettledStays
  <2> QED BY <2>3, <2>4
<1>5. CASE pay > 0
  <2>1. ApplyEntry(w, "EARNING", pay, a) BY <1>1, <1>2, <1>5
  <2>2. LedgerTypeOK BY DEF Inv, LedgerInv
  <2>3. /\ \A i \in EarningRows(b) : rows'[AssignedTo[b]][i] = rows[AssignedTo[b]][i]
        /\ EarningRows(b)' = EarningRows(b) \cup
             (IF w = AssignedTo[b] /\ "EARNING" = "EARNING" /\ a = b
              THEN {Len(rows[w]) + 1} ELSE {})
        /\ w = AssignedTo[b] => rows'[AssignedTo[b]][Len(rows[w]) + 1].amount = pay
    BY <2>1, <2>2, RowAdded
  <2>4. CASE b # a
    <3>1. EarningRows(b)' = EarningRows(b) /\ work'[b].pay = work[b].pay
      BY <1>1, <2>3, <2>4
    <3> QED BY <1>3, <2>3, <3>1, SettledStays
  <2>5. CASE b = a
    <3>1. PICK n : n = Len(rows[w]) + 1 OBVIOUS
    <3>2. EarningRows(b)' = EarningRows(b) \cup {n} /\ rows'[AssignedTo[b]][n].amount = pay
      BY <1>2, <2>3, <2>5, <3>1
    <3>3. \A j \in EarningRows(b) : j <= n
      <4>1. rows[w] \in Seq(LedgerRow) BY <2>2 DEF LedgerTypeOK
      <4>2. EarningRows(b) \subseteq DOMAIN rows[w] BY <1>2, <2>5, Zenon DEF EarningRows
      <4> QED BY <3>1, <4>1, <4>2
    <3>4. n <= n
      <4>1. rows[w] \in Seq(LedgerRow) BY <2>2 DEF LedgerTypeOK
      <4> QED BY <3>1, <4>1
    <3>5. work'[b].pay = pay BY <1>1, <1>5, <2>5
    <3>6. \E i \in EarningRows(b)' : /\ rows'[AssignedTo[b]][i].amount = work'[b].pay
                                     /\ \A j \in EarningRows(b)' : j <= i
      BY <3>2, <3>3, <3>4, <3>5
    <3> QED BY <3>6, Zenon DEF Settled
  <2> QED BY <2>4, <2>5
<1> QED BY <1>1, <1>4, <1>5

(* Nobody else earns, and nobody else writes what was paid.                *)
LEMMA SettledStep ==
  ASSUME Inv, PaidAsSettled, [AssignmentNext]_assignmentVars
  PROVE  PaidAsSettled'
<1> SUFFICES ASSUME NEW b \in Asg PROVE Settled(b)' BY Zenon DEF PaidAsSettled, Settled
<1>1. Settled(b) BY DEF PaidAsSettled, Settled
<1>2. CASE \E c \in Client : AcceptCommit(c) BY <1>2, AcceptSettles
<1>3. CASE \E c \in Client : CreateCommit(c)
  <2>1. PICK a \in Asg : /\ work'[a].pay = 0
                         /\ \A d \in Asg \ {a} : work'[d] = work[d]
    BY <1>3, CreatedWork
  <2>2. UNCHANGED rows BY <1>3 DEF CreateCommit, ledgerVars
  <2>3. EarningRows(b)' = EarningRows(b) BY <2>2, Zenon DEF EarningRows
  <2>4. CASE b = a
    <3>1. ~(work'[b].pay > 0) BY <2>1, <2>4
    <3> QED BY <3>1, Zenon DEF Settled
  <2>5. CASE b # a
    <3>1. work'[b].pay = work[b].pay BY <2>1, <2>5
    <3> QED BY <1>1, <2>2, <2>3, <3>1, SettledStays
  <2> QED BY <2>4, <2>5
<1>4. CASE \A c \in Client : ~CreateCommit(c) /\ ~AcceptCommit(c)
  <2>1. work'[b].pay = work[b].pay BY <1>4, StepKeepsPay DEF PayKept, SamePay
  <2>2. /\ EarningRows(b)' = EarningRows(b)
        /\ \A i \in EarningRows(b) : rows'[AssignedTo[b]][i] = rows[AssignedTo[b]][i]
    <3>1. CASE UNCHANGED rows BY <3>1, Zenon DEF EarningRows
    <3>2. CASE LedgerNext BY <3>2, OfficeEarnsNothing DEF Inv, LedgerInv
    <3> QED BY <1>4, <3>1, <3>2, RowsWritten
  <2> QED BY <1>1, <2>1, <2>2, SettledStays
<1> QED BY <1>2, <1>3, <1>4

(* The pay shown on a work is the newest sum entered for it: for any       *)
(* works, prices, payouts and overlapping acceptances.                     *)
THEOREM PayIsSettled == AssignmentSpec => []PaidAsSettled
<1>1. AssignmentInit => PaidAsSettled BY DEF AssignmentInit, NoWork, PaidAsSettled
<1> QED BY <1>1, SettledStep, InvAlways, PTL DEF AssignmentSpec
=============================================================================
