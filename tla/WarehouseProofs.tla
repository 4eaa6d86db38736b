--------------------------- MODULE WarehouseProofs ---------------------------
(***************************************************************************)
(* Proofs about Warehouse, for any orders, recipes, materials, suppliers   *)
(* and number of overlapping requests.  What a request read stays true     *)
(* until its transaction as long as nobody crosses it: that is the         *)
(* strengthening (Fresh), and two requests that touch one thing have       *)
(* crossed (Apart).                                                        *)
(*                                                                         *)
(* The shelf is the sum of its movements (ShelfIsTheSum).  Each booking    *)
(* changes one movement and the shelf by the same quantity; that the sum   *)
(* over all movements changes by it too is proved from the recursion of    *)
(* the sum, by the smallest set on which it would fail.                    *)
(***************************************************************************)
EXTENDS Warehouse, FiniteSetTheorems, TLAPS

LineRow == [mat : Material, quantity : Nat \ {0}]
PurchaseStatus == {"none", "DRAFT", "ORDERED", "RECEIVED", "CANCELLED"}
PurchaseRow == [status : PurchaseStatus, lines : OrderLines, edition : Nat, told : OrderLines,
                reply : {"none", "ACCEPTED", "UNAVAILABLE"}, supplier : Supplier \cup {"none"}]
KitRow == [state : {"none", "live", "hidden", "erased"}, items : SUBSET Material,
           active : BOOLEAN]
PurchaseOp == {"createPurchase", "updatePurchase", "sendByBot", "receive"}
KitOp == {"createKit", "updateKit", "assemble", "removeKit"}

OfficeOK == /\ purchase \in [Purchase -> PurchaseRow]
            /\ received \in [Purchase -> Nat]
            /\ kit \in [Kit -> KitRow]
            /\ label \in [Kit -> {"none", "printed", "orphan"}]
            /\ inflight = [c \in Client |-> inflight[c]]

(* What handler h knows of its order is still so. *)
FreshPurchase(h) ==
  /\ h.op \in PurchaseOp => h.p \in Purchase /\ h.touches = {h.p}
  /\ h.op = "createPurchase" => h.lines \in OrderLines /\ h.s \in Supplier
  /\ h.op = "updatePurchase" =>
       /\ h.lines \in OrderLines /\ h.status \in {"same", "ORDERED", "CANCELLED"}
       /\ h.p \notin crossed => /\ Open(h.p)
                                /\ h.lines # NoLines => purchase[h.p].status = "DRAFT"
  /\ h.op = "sendByBot" =>
       /\ h.lines \in OrderLines
       /\ h.p \notin crossed => Open(h.p) /\ h.lines = purchase[h.p].lines
  /\ h.op = "receive" => /\ h.came \in [Material -> Nat] /\ h.arrival \in Arrivals
                         /\ h.p \notin crossed => Open(h.p)
  /\ h.op = "reply" => h.p \in Purchase /\ h.reply \in {"ACCEPTED", "UNAVAILABLE"}

(* What handler h knows of its recipe or material is still so. *)
FreshKit(h) ==
  /\ h.op \in KitOp => h.k \in Kit /\ h.k \in h.touches
  /\ h.op \in {"createKit", "updateKit"} =>
       /\ h.items \subseteq Material /\ h.items \subseteq h.touches
       /\ h.k \notin crossed => Listed(h.items)
  /\ h.op = "createKit" => h.items # {}
  /\ h.op = "updateKit" => h.active \in BOOLEAN /\ (h.k \notin crossed => Live(h.k))
  /\ h.op = "assemble" => (h.k \notin crossed => Live(h.k))
  /\ h.op = "removeKit" => /\ h.used \in BOOLEAN
                           /\ h.k \notin crossed => Live(h.k) /\ (h.used <=> label[h.k] # "none")
  /\ h.op = "removeMaterial" =>
       /\ h.mat \in Material
       /\ \A k \in Kit \ crossed : Live(k) => h.mat \notin kit[k].items

Fresh == \A c \in Client : FreshPurchase(inflight[c]) /\ FreshKit(inflight[c])

(* Two requests that touch one thing have crossed. *)
Apart == \A c, d \in Client :
  c # d => \/ Touched(inflight[c]) \cap Touched(inflight[d]) = {}
           \/ Touched(inflight[c]) \cup Touched(inflight[d]) \subseteq crossed

PurchaseSound(p) ==
  p \notin crossed =>
    /\ purchase[p].told # NoLines /\ purchase[p].status # "RECEIVED"
         => purchase[p].told = purchase[p].lines
    /\ purchase[p].status \in {"none", "DRAFT"} => purchase[p].told = NoLines

KitSound(k) ==
  k \notin crossed =>
    /\ Live(k) => kit[k].items # {} /\ \A m \in kit[k].items : material[m] = "listed"
    /\ label[k] # "none" => kit[k].state \in {"live", "hidden"}

OfficeInv ==
  /\ OfficeOK
  /\ material \in [Material -> {"listed", "hidden", "erased"}]
  /\ Fresh /\ Apart
  /\ \A p \in Purchase : PurchaseSound(p)
  /\ \A k \in Kit : KitSound(k)

-----------------------------------------------------------------------------
(*                                 Sums                                    *)

AnyOf(s) == CHOOSE x \in s : TRUE

(* it[s] adds up f over s, one element after another, up to n of them.     *)
AddsUp(f, it, domain) ==
  it = [s \in domain |-> IF s = {} THEN 0 ELSE f[AnyOf(s)] + it[s \ {AnyOf(s)}]]

UpTo(S, n) == {s \in SUBSET S : Cardinality(s) <= n}

(* A set of naturals has a least member.                                   *)
LEMMA LeastNatural ==
  ASSUME NEW S \in SUBSET Nat, S # {}
  PROVE  \E n \in S : \A y \in S : n <= y
<1> DEFINE Less == {ss \in Nat \X Nat : ss[1] < ss[2]}
<1>1. IsWellFoundedOn(Less, Nat)  BY NatLessThanWellFounded DEF OpToRel
<1>2. \A x, y \in Nat : <<x, y>> \in Less <=> x < y  OBVIOUS
<1> HIDE DEF Less
<1>3. PICK n \in S : \A y \in S : ~(<<y, n>> \in Less)  BY <1>1, WFMin
<1>4. \A y \in S : ~(y < n)  BY <1>2, <1>3
<1>5. \A y \in S : n <= y  BY <1>4
<1> QED  BY <1>5

(* So has a collection of subsets of a finite set.                         *)
LEMMA LeastSubset ==
  ASSUME NEW S, IsFiniteSet(S), NEW C \in SUBSET SUBSET S, C # {}
  PROVE  \E s \in C : \A x \in s : s \ {x} \notin C
<1>1. IsWellFoundedOn(StrictSubsetOrdering(S), SUBSET S)
  BY FS_StrictSubsetOrderingWellFounded, FS_FiniteSubsetsOfFinite
<1>2. PICK s \in C : \A t \in C : ~(<<t, s>> \in StrictSubsetOrdering(S))  BY <1>1, WFMin
<1>3. ASSUME NEW x \in s  PROVE s \ {x} \notin C
  BY <1>2 DEF StrictSubsetOrdering
<1> QED  BY <1>3

(* The sum that SumFunction means exists: it can be taken element by       *)
(* element, over sets that grow by one.                                    *)
LEMMA SumsExist ==
  ASSUME NEW f, IsFiniteSet(DOMAIN f)
  PROVE  \E it : AddsUp(f, it, SUBSET DOMAIN f)
<1> DEFINE S == DOMAIN f
           Bad == {n \in Nat : ~\E it : AddsUp(f, it, UpTo(S, n))}
<1> HIDE DEF S
<1>0. IsFiniteSet(S)  BY DEF S
<1>1. \A s \in SUBSET S : IsFiniteSet(s) /\ Cardinality(s) \in Nat
  BY <1>0, FS_Subset, FS_CardinalityType
<1>2. \A s \in SUBSET S : s # {} =>
        /\ AnyOf(s) \in s /\ s \ {AnyOf(s)} \in SUBSET S
        /\ Cardinality(s \ {AnyOf(s)}) = Cardinality(s) - 1
  BY <1>1, FS_RemoveElement DEF AnyOf
<1>3. Bad = {}
  <2> SUFFICES ASSUME Bad # {}  PROVE FALSE  OBVIOUS
  <2>a. PICK n \in Bad : \A y \in Bad : n <= y  BY LeastNatural
  <2>1. n \in Nat /\ n - 1 \notin Bad  BY <2>a
  <2>2. CASE n = 0
    <3> DEFINE it == [s \in UpTo(S, 0) |-> 0]
    <3>1. \A s \in UpTo(S, 0) : s = {}  BY <1>1, FS_EmptySet DEF UpTo
    <3>2. AddsUp(f, it, UpTo(S, 0))  BY <3>1 DEF AddsUp
    <3> QED  BY <2>2, <3>2
  <2>3. CASE n # 0
    <3>1. n \in Nat /\ n - 1 \in Nat  BY <2>3
    <3>2. PICK it : AddsUp(f, it, UpTo(S, n - 1))  BY <2>1, <3>1
    <3> DEFINE more == [s \in UpTo(S, n) |->
                          IF s = {} THEN 0 ELSE f[AnyOf(s)] + it[s \ {AnyOf(s)}]]
    <3>3. UpTo(S, n - 1) \subseteq UpTo(S, n)  BY <1>1, <3>1 DEF UpTo
    <3>4. \A s \in UpTo(S, n - 1) : more[s] = it[s]
      BY <3>2, <3>3 DEF AddsUp
    <3>5. \A s \in UpTo(S, n) : s # {} => s \ {AnyOf(s)} \in UpTo(S, n - 1)
      BY <1>1, <1>2, <3>1 DEF UpTo
    <3>6. \A s \in UpTo(S, n) : s # {} => more[s \ {AnyOf(s)}] = it[s \ {AnyOf(s)}]
      BY <3>4, <3>5
    <3>7. AddsUp(f, more, UpTo(S, n))  BY <3>6 DEF AddsUp
    <3> QED  BY <2>1, <3>7
  <2> QED  BY <2>2, <2>3
<1>4. \E it : AddsUp(f, it, UpTo(S, Cardinality(S)))  BY <1>0, <1>3, FS_CardinalityType
<1>5. UpTo(S, Cardinality(S)) = SUBSET S  BY <1>0, FS_Subset DEF UpTo
<1> QED  BY <1>4, <1>5 DEF S

(* SumFunction adds up what its argument holds.                            *)
LEMMA SumAddsUp ==
  ASSUME NEW f, IsFiniteSet(DOMAIN f)
  PROVE  \E it : AddsUp(f, it, SUBSET DOMAIN f) /\ SumFunction(f) = it[DOMAIN f]
<1> DEFINE it == CHOOSE it : AddsUp(f, it, SUBSET DOMAIN f)
<1>1. AddsUp(f, it, SUBSET DOMAIN f)  BY SumsExist
<1>2. SumFunction(f) = it[DOMAIN f]
  BY DEF SumFunction, SumFunctionOnSet, FoldFunctionOnSet, MapThenFoldSet, AddsUp, AnyOf
<1> QED  BY <1>1, <1>2

(* A sum of integers does not depend on which number is taken first.       *)
LEMMA TakeAny ==
  ASSUME NEW S, IsFiniteSet(S), NEW f \in [S -> Int], NEW F, AddsUp(f, F, SUBSET S)
  PROVE  \A s \in SUBSET S : F[s] \in Int /\ \A x \in s : F[s] = f[x] + F[s \ {x}]
<1> DEFINE Odd == {s \in SUBSET S : F[s] \notin Int}
           Bad == {s \in SUBSET S : ~\A x \in s : F[s] = f[x] + F[s \ {x}]}
<1>0. \A s \in SUBSET S : F[s] = IF s = {} THEN 0 ELSE f[AnyOf(s)] + F[s \ {AnyOf(s)}]
  BY DEF AddsUp
<1>a. F[{}] = 0
  <2>1. {} \in SUBSET S OBVIOUS
  <2> QED BY <1>0, <2>1
<1>1. Odd = {}
  <2> SUFFICES ASSUME Odd # {} PROVE FALSE OBVIOUS
  <2>1. PICK s \in Odd : \A x \in s : s \ {x} \notin Odd BY LeastSubset
  <2>2. CASE s = {} BY <1>a, <2>1, <2>2
  <2>3. CASE s # {}
    <3>1. PICK x : x = AnyOf(s) OBVIOUS
    <3>2. x \in s /\ s \ {x} \in SUBSET S /\ f[x] \in Int BY <2>1, <2>3, <3>1 DEF AnyOf
    <3>3. F[s \ {x}] \in Int BY <2>1, <3>2
    <3>4. F[s] = f[x] + F[s \ {x}] BY <1>0, <2>1, <2>3, <3>1
    <3> QED BY <2>1, <3>2, <3>3, <3>4
  <2> QED BY <2>2, <2>3
<1>2. \A s \in SUBSET S : F[s] \in Int BY <1>1
<1>3. Bad = {}
  <2> SUFFICES ASSUME Bad # {} PROVE FALSE OBVIOUS
  <2>1. PICK s \in Bad : \A x \in s : s \ {x} \notin Bad BY LeastSubset
  <2>2. PICK x \in s : F[s] # f[x] + F[s \ {x}] BY <2>1
  <2>3. PICK y : y = AnyOf(s) OBVIOUS
  <2>4. y \in s /\ F[s] = f[y] + F[s \ {y}] BY <1>0, <2>1, <2>2, <2>3 DEF AnyOf
  <2>5. x # y BY <2>2, <2>4
  <2>6. PICK t, u, v : t = s \ {y} /\ u = s \ {x} /\ v = (s \ {y}) \ {x} OBVIOUS
  <2>7. /\ t \in SUBSET S /\ u \in SUBSET S /\ v \in SUBSET S
        /\ x \in t /\ y \in u /\ v = t \ {x} /\ v = u \ {y}
    BY <2>1, <2>2, <2>4, <2>5, <2>6
  <2>8. F[t] = f[x] + F[v]
    <3>1. t \notin Bad BY <2>1, <2>4, <2>6
    <3> QED BY <2>7, <3>1
  <2>9. F[u] = f[y] + F[v]
    <3>1. u \notin Bad BY <2>1, <2>2, <2>6
    <3> QED BY <2>7, <3>1
  <2>10. f[x] \in Int /\ f[y] \in Int /\ F[v] \in Int BY <1>2, <2>1, <2>2, <2>4, <2>7
  <2> HIDE DEF Bad
  <2>11. F[s] = f[x] + F[u] BY <2>4, <2>6, <2>8, <2>9, <2>10
  <2> QED BY <2>2, <2>6, <2>11
<1> QED BY <1>2, <1>3

(* Changing one of the numbers changes the sum by as much.                 *)
LEMMA SumOfOneChange ==
  ASSUME NEW S, IsFiniteSet(S), NEW f \in [S -> Int], NEW g \in [S -> Int], NEW e \in S,
         \A x \in S : x # e => g[x] = f[x]
  PROVE  SumFunction(f) \in Int /\ SumFunction(g) = SumFunction(f) + g[e] - f[e]
<1>1. PICK F : AddsUp(f, F, SUBSET S) /\ SumFunction(f) = F[S]  BY SumAddsUp
<1>2. PICK G : AddsUp(g, G, SUBSET S) /\ SumFunction(g) = G[S]  BY SumAddsUp
<1> DEFINE Differ(s) == /\ F[s] \in Int
                        /\ G[s] = F[s] + (IF e \in s THEN g[e] - f[e] ELSE 0)
           Bad == {s \in SUBSET S : ~Differ(s)}
<1>3. Bad = {}
  <2> SUFFICES ASSUME Bad # {}  PROVE FALSE  OBVIOUS
  <2>1. PICK s \in Bad : \A x \in s : s \ {x} \notin Bad  BY LeastSubset
  <2>2. /\ F[s] = IF s = {} THEN 0 ELSE f[AnyOf(s)] + F[s \ {AnyOf(s)}]
        /\ G[s] = IF s = {} THEN 0 ELSE g[AnyOf(s)] + G[s \ {AnyOf(s)}]
    BY <1>1, <1>2, <2>1 DEF AddsUp
  <2>3. CASE s = {}  BY <2>1, <2>2, <2>3
  <2>4. CASE s # {}
    <3> DEFINE x == AnyOf(s)
               t == s \ {x}
    <3>1. x \in s /\ x \in S /\ t \in SUBSET S  BY <2>1, <2>4 DEF AnyOf
    <3>2. Differ(t)  BY <2>1, <3>1
    <3>3. F[s] = f[x] + F[t] /\ G[s] = g[x] + G[t]  BY <2>2, <2>4
    <3>4. e \in s <=> e \in t \/ e = x  BY <3>1
    <3>5. e \in t => e # x  OBVIOUS
    <3>6. f[x] \in Int /\ g[x] \in Int /\ f[e] \in Int /\ g[e] \in Int  BY <3>1
    <3> HIDE DEF x, t
    <3>7. Differ(s)  BY <3>1, <3>2, <3>3, <3>4, <3>5, <3>6
    <3> QED  BY <2>1, <3>7
  <2> QED  BY <2>3, <2>4
<1>4. Differ(S)  BY <1>3
<1> QED  BY <1>1, <1>2, <1>4

(* If only one of the numbers is not zero, it is their sum.                *)
LEMMA SumOfOne ==
  ASSUME NEW S, IsFiniteSet(S), NEW f \in [S -> Int], NEW e \in S,
         \A x \in S : x # e => f[x] = 0
  PROVE  SumFunction(f) = f[e]
<1>1. PICK F : AddsUp(f, F, SUBSET S) /\ SumFunction(f) = F[S]  BY SumAddsUp
<1> DEFINE One(s) == F[s] = IF e \in s THEN f[e] ELSE 0
           Bad == {s \in SUBSET S : ~One(s)}
<1>2. Bad = {}
  <2> SUFFICES ASSUME Bad # {}  PROVE FALSE  OBVIOUS
  <2>1. PICK s \in Bad : \A x \in s : s \ {x} \notin Bad  BY LeastSubset
  <2>2. F[s] = IF s = {} THEN 0 ELSE f[AnyOf(s)] + F[s \ {AnyOf(s)}]
    BY <1>1, <2>1 DEF AddsUp
  <2>3. CASE s = {}  BY <2>1, <2>2, <2>3
  <2>4. CASE s # {}
    <3> DEFINE x == AnyOf(s)
               t == s \ {x}
    <3>1. x \in s /\ x \in S /\ t \in SUBSET S  BY <2>1, <2>4 DEF AnyOf
    <3>2. One(t)  BY <2>1, <3>1
    <3>3. F[s] = f[x] + F[t]  BY <2>2, <2>4
    <3>4. (e \in s <=> e \in t \/ e = x) /\ (e \in t => e # x)  BY <3>1
    <3>5. f[x] \in Int /\ f[e] \in Int  BY <3>1
    <3> HIDE DEF x, t
    <3>6. One(s)  BY <3>1, <3>2, <3>3, <3>4, <3>5
    <3> QED  BY <2>1, <3>6
  <2> QED  BY <2>3, <2>4
<1>3. One(S)  BY <1>2
<1> QED  BY <1>1, <1>3

(* A sum of naturals is one.                                               *)
LEMMA SumIsNatural ==
  ASSUME NEW S, IsFiniteSet(S), NEW f \in [S -> Nat]
  PROVE  SumFunction(f) \in Nat
<1>1. PICK F : AddsUp(f, F, SUBSET S) /\ SumFunction(f) = F[S]  BY SumAddsUp
<1> DEFINE Bad == {s \in SUBSET S : F[s] \notin Nat}
<1>2. Bad = {}
  <2> SUFFICES ASSUME Bad # {}  PROVE FALSE  OBVIOUS
  <2>1. PICK s \in Bad : \A x \in s : s \ {x} \notin Bad  BY LeastSubset
  <2>2. F[s] = IF s = {} THEN 0 ELSE f[AnyOf(s)] + F[s \ {AnyOf(s)}]
    BY <1>1, <2>1 DEF AddsUp
  <2>3. CASE s = {}  BY <2>1, <2>2, <2>3
  <2>4. CASE s # {}
    <3>1. AnyOf(s) \in s /\ AnyOf(s) \in S /\ s \ {AnyOf(s)} \in SUBSET S
      BY <2>1, <2>4 DEF AnyOf
    <3>2. f[AnyOf(s)] \in Nat /\ F[s \ {AnyOf(s)}] \in Nat  BY <2>1, <3>1
    <3> QED  BY <2>1, <2>2, <2>4, <3>2
  <2> QED  BY <2>3, <2>4
<1> QED  BY <1>1, <1>2

(* What a receipt brings of a material is a natural number.                *)
LEMMA CameIsNumber ==
  ASSUME NEW lines, NEW arrival \in Arrivals
  PROVE  Came(lines, arrival) \in [Material -> Nat]
<1>1. PICK k \in 1..MaxLines :
        arrival \in [1..k -> [line : 1..MaxLines, quantity : 1..(MaxQuantity + 1)]]
  BY DEF Arrivals, UpToMany
<1>2. ASSUME NEW m \in Material
      PROVE  SumFunction([e \in DOMAIN arrival |->
               IF lines[arrival[e].line].mat = m THEN arrival[e].quantity ELSE 0]) \in Nat
  <2> DEFINE f == [e \in DOMAIN arrival |->
                     IF lines[arrival[e].line].mat = m THEN arrival[e].quantity ELSE 0]
  <2>1. f \in [1..k -> Nat]  BY <1>1, WarehouseAssumption
  <2>2. IsFiniteSet(1..k)  BY <1>1, WarehouseAssumption, FS_Interval
  <2> HIDE DEF f
  <2>3. SumFunction(f) \in Nat  BY <2>1, <2>2, SumIsNatural
  <2> QED  BY <2>3 DEF f
<1> QED  BY <1>2 DEF Came

(* The corrected lines of an order are lines.                              *)
LEMMA CorrectedAreLines ==
  ASSUME NEW lines \in OrderLines, NEW arrival \in Arrivals
  PROVE  Corrected(lines, arrival) \in OrderLines
<1>1. PICK k \in 1..MaxLines :
        arrival \in [1..k -> [line : 1..MaxLines, quantity : 1..(MaxQuantity + 1)]]
  BY DEF Arrivals, UpToMany
<1>2. ASSUME NEW i \in 1..Len(lines)
      PROVE  Corrected(lines, arrival)[i] \in LineRow
  <2> DEFINE said == Entries(arrival, i)
             last == CHOOSE e \in said : \A f \in said : f <= e
  <2>0. lines \in Seq(LineRow)  BY DEF OrderLines, LineRow
  <2>1. lines[i] \in LineRow /\ DOMAIN lines = 1..Len(lines)  BY <2>0
  <2>2. CASE said = {}  BY <2>1, <2>2 DEF Corrected
  <2>3. CASE said # {}
    <3>1. said \subseteq 1..k  BY <1>1 DEF Entries
    <3>2. \E e \in said : \A f \in said : f <= e
      <4> DEFINE Rest == {k - e : e \in said}
      <4>1. Rest \in SUBSET Nat /\ Rest # {}  BY <2>3, <3>1, <1>1, WarehouseAssumption
      <4>2. PICK n \in Rest : \A y \in Rest : n <= y  BY <4>1, LeastNatural
      <4>3. PICK e \in said : n = k - e  BY <4>2
      <4>4. \A f \in said : k - e <= k - f  BY <4>2, <4>3
      <4> QED  BY <4>3, <4>4, <3>1, <1>1
    <3>3. last \in said  BY <3>2
    <3>4. arrival[last].quantity \in Nat \ {0}
      <4>1. PICK e \in 1..k : e = last  BY <3>1, <3>3
      <4>2. arrival[e].quantity \in 1..(MaxQuantity + 1)  BY <1>1
      <4> QED  BY <4>1, <4>2, WarehouseAssumption
    <3>5. Corrected(lines, arrival)[i] = [lines[i] EXCEPT !.quantity = arrival[last].quantity]
      BY <2>1, <2>3 DEF Corrected
    <3> HIDE DEF last
    <3> QED  BY <2>1, <3>4, <3>5 DEF LineRow
  <2> QED  BY <2>2, <2>3
<1>3. DOMAIN Corrected(lines, arrival) = 1..Len(lines)  BY DEF Corrected, OrderLines
<1>4. Corrected(lines, arrival) = [i \in 1..Len(lines) |-> Corrected(lines, arrival)[i]]
  BY <1>3 DEF Corrected
<1>5. Len(lines) \in Nat  BY DEF OrderLines
<1> QED  BY <1>2, <1>4, <1>5 DEF OrderLines, LineRow

-----------------------------------------------------------------------------
(* A slot that is given back touches nothing and knows nothing. *)
LEMMA IdleIsFresh ==
  /\ Touched(NoHandler) = {}
  /\ FreshPurchase(NoHandler) /\ FreshKit(NoHandler)
BY DEF Touched, NoHandler, FreshPurchase, FreshKit, PurchaseOp, KitOp

(* Whatever a handler knows of an order stays so while that order does, or *)
(* once it has been crossed.                                               *)
LEMMA FreshPurchaseStays ==
  ASSUME NEW h, FreshPurchase(h), crossed \subseteq crossed',
         h.op \in PurchaseOp /\ h.p \notin crossed' =>
           /\ purchase'[h.p].status = purchase[h.p].status
           /\ purchase'[h.p].lines = purchase[h.p].lines
  PROVE  FreshPurchase(h)'
BY DEF FreshPurchase, Open, PurchaseOp, NoLines, OrderLines, Arrivals

(* The same of a recipe, and of a material that is being removed. *)
LEMMA FreshKitStays ==
  ASSUME NEW h, FreshKit(h), crossed \subseteq crossed',
         h.op \in KitOp /\ h.k \notin crossed' =>
           kit'[h.k].state = kit[h.k].state /\ label'[h.k] = label[h.k],
         h.op \in {"createKit", "updateKit"} /\ h.k \notin crossed' => Listed(h.items)',
         h.op = "removeMaterial" =>
           \A k \in Kit \ crossed' : Live(k)' => h.mat \notin kit'[k].items
  PROVE  FreshKit(h)'
BY DEF FreshKit, Live, KitOp

(* A request that begins: it read the present state, and what it crosses   *)
(* is remembered.                                                          *)
LEMMA BeginStep ==
  ASSUME OfficeInv, NEW c \in Client, NEW h, NEW touches, Start(c, h), Serve(touches),
         Touched(h) = touches, FreshPurchase(h), FreshKit(h),
         UNCHANGED <<officeVars, material>>
  PROVE  OfficeInv'
<1>1. crossed \subseteq crossed' BY DEF Serve
<1>2. \A d \in Client : inflight'[d] = IF d = c THEN h ELSE inflight[d]
  BY DEF Start, OfficeInv, OfficeOK
<1>3. OfficeOK' /\ material' \in [Material -> {"listed", "hidden", "erased"}]
  BY DEF OfficeInv, OfficeOK, officeVars, Start
<1>4. Fresh'
  <2> SUFFICES ASSUME NEW d \in Client PROVE FreshPurchase(inflight[d])' /\ FreshKit(inflight[d])'
    BY DEF Fresh
  <2>1. PICK x : x = inflight'[d] OBVIOUS
  <2>2. FreshPurchase(x) /\ FreshKit(x) BY <2>1, <1>2 DEF OfficeInv, Fresh
  <2>3. FreshPurchase(x)' BY <2>2, <1>1, FreshPurchaseStays DEF officeVars
  <2>4. FreshKit(x)'
    <3>1. UNCHANGED <<kit, label, material>> BY DEF officeVars
    <3>2. x.op \in {"createKit", "updateKit"} /\ x.k \notin crossed' => Listed(x.items)'
      BY <2>2, <1>1, <3>1 DEF FreshKit, Listed
    <3>3. x.op = "removeMaterial" =>
            \A k \in Kit \ crossed' : Live(k)' => x.mat \notin kit'[k].items
      BY <2>2, <1>1, <3>1 DEF FreshKit, Live
    <3> QED BY <2>2, <1>1, <3>1, <3>2, <3>3, FreshKitStays
  <2> QED BY <2>1, <2>3, <2>4 DEF FreshPurchase, FreshKit
<1>5. Apart'
  <2> SUFFICES ASSUME NEW d \in Client, NEW e \in Client, d # e
               PROVE  \/ Touched(inflight'[d]) \cap Touched(inflight'[e]) = {}
                      \/ Touched(inflight'[d]) \cup Touched(inflight'[e]) \subseteq crossed'
    BY DEF Apart, Touched
  <2>1. CASE d # c /\ e # c BY <2>1, <1>1, <1>2 DEF OfficeInv, Apart
  <2>2. ASSUME NEW x \in Client, x # c
        PROVE  \/ touches \cap Touched(inflight[x]) = {}
               \/ touches \cup Touched(inflight[x]) \subseteq crossed'
    BY DEF Serve, Crossing
  <2>3. CASE d = c BY <2>2, <2>3, <1>2
  <2>4. CASE e = c BY <2>2, <2>4, <1>2
  <2> QED BY <2>1, <2>3, <2>4
<1>6. \A p \in Purchase : PurchaseSound(p)'
  BY <1>1 DEF OfficeInv, PurchaseSound, officeVars, NoLines
<1>7. \A k \in Kit : KitSound(k)' BY <1>1 DEF OfficeInv, KitSound, Live, officeVars
<1> QED BY <1>3, <1>4, <1>5, <1>6, <1>7 DEF OfficeInv

(* What happens outside the request slots and the tables of this module.   *)
LEMMA OfficeQuiet ==
  ASSUME OfficeInv, UNCHANGED <<inflight, purchase, received, kit, label, material>>,
         crossed \subseteq crossed'
  PROVE  OfficeInv'
<1>1. OfficeOK' BY DEF OfficeInv, OfficeOK
<1>2. Fresh'
  <2> SUFFICES ASSUME NEW d \in Client PROVE FreshPurchase(inflight[d])' /\ FreshKit(inflight[d])'
    BY DEF Fresh
  <2>1. PICK x : x = inflight'[d] OBVIOUS
  <2>2. FreshPurchase(x) /\ FreshKit(x) BY <2>1 DEF OfficeInv, Fresh
  <2>3. FreshPurchase(x)' BY <2>2, FreshPurchaseStays
  <2>4. x.op \in {"createKit", "updateKit"} /\ x.k \notin crossed' => Listed(x.items)'
    BY <2>2 DEF FreshKit, Listed
  <2>5. x.op = "removeMaterial" =>
          \A k \in Kit \ crossed' : Live(k)' => x.mat \notin kit'[k].items
    BY <2>2 DEF FreshKit, Live
  <2>6. FreshKit(x)' BY <2>2, <2>4, <2>5, FreshKitStays
  <2> QED BY <2>1, <2>3, <2>6 DEF FreshPurchase, FreshKit
<1>3. Apart' BY DEF OfficeInv, Apart, Touched
<1>4. \A p \in Purchase : PurchaseSound(p)' BY DEF OfficeInv, PurchaseSound, NoLines
<1>5. \A k \in Kit : KitSound(k)' BY DEF OfficeInv, KitSound, Live
<1> QED BY <1>1, <1>2, <1>3, <1>4, <1>5 DEF OfficeInv

-----------------------------------------------------------------------------
(* The transaction of slot c frees it; the others stay as far apart.       *)
LEMMA FinishSlots ==
  ASSUME OfficeInv, NEW c \in Client, Finish(c), crossed' = crossed
  PROVE  /\ inflight' = [d \in Client |-> inflight'[d]]
         /\ \A d \in Client : inflight'[d] = IF d = c THEN NoHandler ELSE inflight[d]
         /\ Apart'
<1>1. \A d \in Client : inflight'[d] = IF d = c THEN NoHandler ELSE inflight[d]
  BY DEF Finish, OfficeInv, OfficeOK
<1>2. inflight' = [d \in Client |-> inflight'[d]] BY DEF Finish, OfficeInv, OfficeOK
<1>3. Apart'
  <2> SUFFICES ASSUME NEW d \in Client, NEW e \in Client, d # e
               PROVE  \/ Touched(inflight'[d]) \cap Touched(inflight'[e]) = {}
                      \/ Touched(inflight'[d]) \cup Touched(inflight'[e]) \subseteq crossed'
    BY DEF Apart, Touched
  <2>1. CASE d = c \/ e = c BY <2>1, <1>1, IdleIsFresh
  <2>2. CASE d # c /\ e # c BY <2>2, <1>1 DEF OfficeInv, Apart
  <2> QED BY <2>1, <2>2
<1> QED BY <1>1, <1>2, <1>3

(* A transaction that writes one order: who else works on it has crossed.  *)
LEMMA PurchaseCommit ==
  ASSUME OfficeInv, NEW c \in Client, inflight[c].op \in PurchaseOp, Finish(c), Served,
         NEW p, p = inflight[c].p, NEW row \in PurchaseRow, PurchaseBecomes(p, row),
         received' \in [Purchase -> Nat],
         \A q \in Purchase : q # p => received'[q] = received[q],
         UNCHANGED <<kit, label, material>>,
         PurchaseSound(p)'
  PROVE  OfficeInv'
<1>1. p \in Purchase /\ p \in Touched(inflight[c])
  BY DEF OfficeInv, Fresh, FreshPurchase, Touched, PurchaseOp
<1>2. /\ purchase' \in [Purchase -> PurchaseRow]
      /\ \A q \in Purchase : q # p => purchase'[q] = purchase[q]
  BY <1>1 DEF PurchaseBecomes, OfficeInv, OfficeOK
<1>3. crossed' = crossed BY DEF Served
<1>4. /\ inflight' = [d \in Client |-> inflight'[d]]
      /\ \A d \in Client : inflight'[d] = IF d = c THEN NoHandler ELSE inflight[d]
      /\ Apart'
  BY <1>3, FinishSlots
<1>5. OfficeOK' BY <1>2, <1>4 DEF OfficeInv, OfficeOK
<1>6. Fresh'
  <2> SUFFICES ASSUME NEW d \in Client PROVE FreshPurchase(inflight[d])' /\ FreshKit(inflight[d])'
    BY DEF Fresh
  <2>1. PICK x : x = inflight'[d] OBVIOUS
  <2>2. FreshPurchase(x) /\ FreshKit(x) BY <2>1, <1>4, IdleIsFresh DEF OfficeInv, Fresh
  <2>3. x.op \in PurchaseOp /\ x.p \notin crossed => x.p \in Purchase /\ x.p # p
    <3> SUFFICES ASSUME x.op \in PurchaseOp, x.p \notin crossed, x.p = p PROVE FALSE
      BY <2>2 DEF FreshPurchase
    <3>1. d # c /\ x = inflight[d] BY <2>1, <1>4 DEF NoHandler, PurchaseOp
    <3>2. p \in Touched(x) BY <2>2 DEF FreshPurchase, Touched, PurchaseOp
    <3> QED BY <1>1, <3>1, <3>2 DEF OfficeInv, Apart
  <2>4. FreshPurchase(x)' BY <2>2, <2>3, <1>2, <1>3, FreshPurchaseStays
  <2>5. x.op \in {"createKit", "updateKit"} /\ x.k \notin crossed' => Listed(x.items)'
    BY <2>2, <1>3 DEF FreshKit, Listed
  <2>6. x.op = "removeMaterial" =>
          \A k \in Kit \ crossed' : Live(k)' => x.mat \notin kit'[k].items
    BY <2>2, <1>3 DEF FreshKit, Live
  <2>7. FreshKit(x)' BY <2>2, <2>5, <2>6, <1>3, FreshKitStays
  <2> QED BY <2>1, <2>4, <2>7 DEF FreshPurchase, FreshKit
<1>7. ASSUME NEW q \in Purchase PROVE PurchaseSound(q)'
  <2>1. CASE q = p BY <2>1
  <2>2. CASE q # p BY <2>2, <1>2, <1>3 DEF OfficeInv, PurchaseSound, NoLines
  <2> QED BY <2>1, <2>2
<1>8. \A k \in Kit : KitSound(k)' BY <1>3 DEF OfficeInv, KitSound, Live
<1> QED BY <1>4, <1>5, <1>6, <1>7, <1>8 DEF OfficeInv

(* A transaction that writes one recipe, and may take away the material of *)
(* none: who else works on it, or removes what it now needs, has crossed.  *)
LEMMA KitCommit ==
  ASSUME OfficeInv, NEW c \in Client, inflight[c].op \in KitOp, Finish(c), Served,
         NEW k, k = inflight[c].k,
         kit' \in [Kit -> KitRow], label' \in [Kit -> {"none", "printed", "orphan"}],
         \A j \in Kit : j # k => kit'[j] = kit[j] /\ label'[j] = label[j],
         k \notin crossed => kit'[k].items \subseteq kit[k].items \cup Touched(inflight[c]),
         k \notin crossed /\ kit[k].state # "live" =>
           kit'[k].items \subseteq Touched(inflight[c]),
         UNCHANGED <<purchase, received, material>>,
         KitSound(k)'
  PROVE  OfficeInv'
<1>1. k \in Kit /\ k \in Touched(inflight[c])
  BY DEF OfficeInv, Fresh, FreshKit, Touched, KitOp
<1>3. crossed' = crossed BY DEF Served
<1>4. /\ inflight' = [d \in Client |-> inflight'[d]]
      /\ \A d \in Client : inflight'[d] = IF d = c THEN NoHandler ELSE inflight[d]
      /\ Apart'
  BY <1>3, FinishSlots
<1>5. OfficeOK' BY <1>4 DEF OfficeInv, OfficeOK
<1>6. Fresh'
  <2> SUFFICES ASSUME NEW d \in Client PROVE FreshPurchase(inflight[d])' /\ FreshKit(inflight[d])'
    BY DEF Fresh
  <2>1. PICK x : x = inflight'[d] OBVIOUS
  <2>2. FreshPurchase(x) /\ FreshKit(x) BY <2>1, <1>4, IdleIsFresh DEF OfficeInv, Fresh
  <2>3. FreshPurchase(x)' BY <2>2, <1>3, FreshPurchaseStays
  <2>4. x.op # "idle" => d # c /\ x = inflight[d] BY <2>1, <1>4 DEF NoHandler
  <2>5. x.op \in KitOp /\ x.k \notin crossed => x.k \in Kit /\ x.k # k
    <3> SUFFICES ASSUME x.op \in KitOp, x.k \notin crossed, x.k = k PROVE FALSE
      BY <2>2 DEF FreshKit
    <3>1. k \in Touched(x) BY <2>2 DEF FreshKit, Touched, KitOp
    <3> QED BY <1>1, <2>4, <3>1 DEF OfficeInv, Apart, KitOp
  <2>6. x.op = "removeMaterial" =>
          \A j \in Kit \ crossed' : Live(j)' => x.mat \notin kit'[j].items
    <3> SUFFICES ASSUME x.op = "removeMaterial", NEW j \in Kit, j \notin crossed, Live(j)',
                        x.mat \in kit'[j].items
                 PROVE  FALSE
      BY <1>3
    <3>1. x.mat \in Touched(x) BY DEF Touched
    <3>2. CASE j # k BY <3>2, <2>2 DEF FreshKit, Live
    <3>3. CASE j = k
      <4>1. x.mat \notin Touched(inflight[c])
        BY <3>1, <3>3, <2>4, <1>1 DEF OfficeInv, Apart
      <4>2. Live(k) => x.mat \notin kit[k].items BY <2>2, <3>3, <1>1 DEF FreshKit
      <4> QED BY <4>1, <4>2, <3>3 DEF Live
    <3> QED BY <3>2, <3>3
  <2>7. x.op \in {"createKit", "updateKit"} /\ x.k \notin crossed' => Listed(x.items)'
    BY <2>2, <1>3 DEF FreshKit, Listed
  <2>8. FreshKit(x)' BY <2>2, <2>5, <2>6, <2>7, <1>3, FreshKitStays
  <2> QED BY <2>1, <2>3, <2>8 DEF FreshPurchase, FreshKit
<1>7. \A p \in Purchase : PurchaseSound(p)' BY <1>3 DEF OfficeInv, PurchaseSound, NoLines
<1>8. ASSUME NEW j \in Kit PROVE KitSound(j)'
  <2>1. CASE j = k BY <2>1
  <2>2. CASE j # k BY <2>2, <1>3 DEF OfficeInv, KitSound, Live
  <2> QED BY <2>1, <2>2
<1> QED BY <1>4, <1>5, <1>6, <1>7, <1>8 DEF OfficeInv

(* An answer changes no status and no line. *)
LEMMA ReplyStep ==
  ASSUME OfficeInv, NEW c \in Client, ReplyCommit(c)
  PROVE  OfficeInv'
<1> DEFINE p == inflight[c].p
           reply == inflight[c].reply
           row == [purchase[p] EXCEPT !.reply = reply]
<1>1. p \in Purchase /\ reply \in {"ACCEPTED", "UNAVAILABLE"}
  BY DEF OfficeInv, Fresh, FreshPurchase, ReplyCommit, Running
<1>2. /\ PurchaseBecomes(p, row) /\ Finish(c) /\ crossed' = crossed
      /\ UNCHANGED <<received, kit, label, material>>
  BY DEF ReplyCommit, Served, stockVars
<1>3. /\ row \in PurchaseRow /\ row.status = purchase[p].status
      /\ row.lines = purchase[p].lines /\ row.told = purchase[p].told
  <2>1. PICK old : old = purchase[p] OBVIOUS
  <2>2. old \in PurchaseRow BY <1>1, <2>1 DEF OfficeInv, OfficeOK
  <2>3. row = [old EXCEPT !.reply = reply] BY <2>1
  <2> HIDE DEF p, reply, row
  <2>4. /\ row \in PurchaseRow /\ row.status = old.status
        /\ row.lines = old.lines /\ row.told = old.told
    BY <1>1, <2>2, <2>3 DEF PurchaseRow
  <2> QED BY <2>1, <2>4
<1> HIDE DEF p, reply, row
<1>4. /\ purchase' \in [Purchase -> PurchaseRow]
      /\ \A q \in Purchase : /\ purchase'[q].status = purchase[q].status
                            /\ purchase'[q].lines = purchase[q].lines
                            /\ purchase'[q].told = purchase[q].told
  BY <1>1, <1>2, <1>3 DEF PurchaseBecomes, OfficeInv, OfficeOK
<1>5. /\ inflight' = [d \in Client |-> inflight'[d]]
      /\ \A d \in Client : inflight'[d] = IF d = c THEN NoHandler ELSE inflight[d]
      /\ Apart'
  BY <1>2, FinishSlots
<1>6. OfficeOK' BY <1>2, <1>4, <1>5 DEF OfficeInv, OfficeOK
<1>7. Fresh'
  <2> SUFFICES ASSUME NEW d \in Client PROVE FreshPurchase(inflight[d])' /\ FreshKit(inflight[d])'
    BY DEF Fresh
  <2>1. PICK x : x = inflight'[d] OBVIOUS
  <2>2. FreshPurchase(x) /\ FreshKit(x) BY <2>1, <1>5, IdleIsFresh DEF OfficeInv, Fresh
  <2>3. FreshPurchase(x)' BY <2>2, <1>2, <1>4, FreshPurchaseStays DEF FreshPurchase
  <2>4. x.op \in {"createKit", "updateKit"} /\ x.k \notin crossed' => Listed(x.items)'
    BY <2>2, <1>2 DEF FreshKit, Listed
  <2>5. x.op = "removeMaterial" =>
          \A k \in Kit \ crossed' : Live(k)' => x.mat \notin kit'[k].items
    BY <2>2, <1>2 DEF FreshKit, Live
  <2>6. FreshKit(x)' BY <2>2, <2>4, <2>5, <1>2, FreshKitStays
  <2> QED BY <2>1, <2>3, <2>6 DEF FreshPurchase, FreshKit
<1>8. \A q \in Purchase : PurchaseSound(q)' BY <1>2, <1>4 DEF OfficeInv, PurchaseSound, NoLines
<1>9. \A k \in Kit : KitSound(k)' BY <1>2 DEF OfficeInv, KitSound, Live
<1> QED BY <1>2, <1>5, <1>6, <1>7, <1>8, <1>9 DEF OfficeInv

(* A request that fails, or one that only concerns a supplier, ends.       *)
LEMMA EndStep ==
  ASSUME OfficeInv, NEW c \in Client, Finish(c), Served,
         UNCHANGED <<purchase, received, kit, label, material>>
  PROVE  OfficeInv'
<1>2. crossed' = crossed BY DEF Served
<1>5. /\ inflight' = [d \in Client |-> inflight'[d]]
      /\ \A d \in Client : inflight'[d] = IF d = c THEN NoHandler ELSE inflight[d]
      /\ Apart'
  BY <1>2, FinishSlots
<1>6. OfficeOK' BY <1>5 DEF OfficeInv, OfficeOK
<1>7. Fresh'
  <2> SUFFICES ASSUME NEW d \in Client PROVE FreshPurchase(inflight[d])' /\ FreshKit(inflight[d])'
    BY DEF Fresh
  <2>1. PICK x : x = inflight'[d] OBVIOUS
  <2>2. FreshPurchase(x) /\ FreshKit(x) BY <2>1, <1>5, IdleIsFresh DEF OfficeInv, Fresh
  <2>3. FreshPurchase(x)' BY <2>2, <1>2, FreshPurchaseStays
  <2>4. x.op \in {"createKit", "updateKit"} /\ x.k \notin crossed' => Listed(x.items)'
    BY <2>2, <1>2 DEF FreshKit, Listed
  <2>5. x.op = "removeMaterial" =>
          \A k \in Kit \ crossed' : Live(k)' => x.mat \notin kit'[k].items
    BY <2>2, <1>2 DEF FreshKit, Live
  <2>6. FreshKit(x)' BY <2>2, <2>4, <2>5, <1>2, FreshKitStays
  <2> QED BY <2>1, <2>3, <2>6 DEF FreshPurchase, FreshKit
<1>8. \A q \in Purchase : PurchaseSound(q)' BY <1>2 DEF OfficeInv, PurchaseSound, NoLines
<1>9. \A k \in Kit : KitSound(k)' BY <1>2 DEF OfficeInv, KitSound, Live
<1> QED BY <1>5, <1>6, <1>7, <1>8, <1>9 DEF OfficeInv

(* A material that goes is in no live recipe, and in no recipe that is     *)
(* being written - or whoever writes it has been crossed.                  *)
LEMMA RemoveStep ==
  ASSUME OfficeInv, NEW c \in Client, RemoveCommit(c)
  PROVE  OfficeInv'
<1> DEFINE m == inflight[c].mat
<1>1. /\ m \in Material /\ Touched(inflight[c]) = {m}
      /\ \A k \in Kit \ crossed : Live(k) => m \notin kit[k].items
  BY DEF OfficeInv, Fresh, FreshKit, RemoveCommit, RemoveMaterialCommit, Running, Touched
<1>2. /\ Finish(c) /\ crossed' = crossed /\ UNCHANGED <<purchase, received, label>>
      /\ material' \in [Material -> {"listed", "hidden", "erased"}]
      /\ \A x \in Material : x # m => material'[x] = material[x]
      /\ kit' = [k \in Kit |-> Spared(k, m)] \/ kit' = kit
  BY <1>1 DEF RemoveCommit, RemoveMaterialCommit, Served, OfficeInv
<1>3. \A k \in Kit : /\ Spared(k, m) \in KitRow /\ Spared(k, m).state = kit[k].state
                     /\ Spared(k, m).items = kit[k].items \ {m}
  BY DEF Spared, OfficeInv, OfficeOK, KitRow
<1> HIDE DEF m
<1>4. /\ kit' \in [Kit -> KitRow]
      /\ \A k \in Kit : kit'[k].state = kit[k].state /\ kit'[k].items \subseteq kit[k].items
      /\ \A k \in Kit : m \notin kit[k].items => kit'[k].items = kit[k].items
  <2>1. CASE kit' = kit BY <2>1 DEF OfficeInv, OfficeOK
  <2>2. CASE kit' = [k \in Kit |-> Spared(k, m)] BY <2>2, <1>3
  <2> QED BY <2>1, <2>2, <1>2
<1>5. /\ inflight' = [d \in Client |-> inflight'[d]]
      /\ \A d \in Client : inflight'[d] = IF d = c THEN NoHandler ELSE inflight[d]
      /\ Apart'
  BY <1>2, FinishSlots
<1>6. OfficeOK' BY <1>2, <1>4, <1>5 DEF OfficeInv, OfficeOK
<1>7. Fresh'
  <2> SUFFICES ASSUME NEW d \in Client PROVE FreshPurchase(inflight[d])' /\ FreshKit(inflight[d])'
    BY DEF Fresh
  <2>1. PICK x : x = inflight'[d] OBVIOUS
  <2>2. FreshPurchase(x) /\ FreshKit(x) BY <2>1, <1>5, IdleIsFresh DEF OfficeInv, Fresh
  <2>3. FreshPurchase(x)' BY <2>2, <1>2, FreshPurchaseStays
  <2>4. x.op # "idle" => d # c /\ x = inflight[d] BY <2>1, <1>5 DEF NoHandler
  <2>5. x.op \in {"createKit", "updateKit"} /\ x.k \notin crossed' => Listed(x.items)'
    <3> SUFFICES ASSUME x.op \in {"createKit", "updateKit"}, x.k \notin crossed
                 PROVE  Listed(x.items)'
      BY <1>2
    <3>1. /\ Touched(x) = x.touches /\ x.k \in x.touches
          /\ x.items \subseteq Material /\ x.items \subseteq x.touches /\ Listed(x.items)
      BY <2>2 DEF FreshKit, Touched, KitOp
    <3>2. m \notin x.items BY <3>1, <2>4, <1>1 DEF OfficeInv, Apart
    <3> QED BY <3>1, <3>2, <1>2 DEF Listed
  <2>6. x.op = "removeMaterial" =>
          \A k \in Kit \ crossed' : Live(k)' => x.mat \notin kit'[k].items
    BY <2>2, <1>2, <1>4 DEF FreshKit, Live
  <2>7. x.op \in KitOp => x.k \in Kit BY <2>2 DEF FreshKit
  <2>8. FreshKit(x)' BY <2>2, <2>5, <2>6, <2>7, <1>2, <1>4, FreshKitStays
  <2> QED BY <2>1, <2>3, <2>8 DEF FreshPurchase, FreshKit
<1>8. \A q \in Purchase : PurchaseSound(q)' BY <1>2 DEF OfficeInv, PurchaseSound, NoLines
<1>9. ASSUME NEW k \in Kit, k \notin crossed' PROVE KitSound(k)'
  <2>1. KitSound(k) /\ kit[k].items \subseteq Material BY DEF OfficeInv, OfficeOK, KitRow
  <2>2. Live(k)' => kit'[k].items = kit[k].items /\ m \notin kit[k].items
    BY <1>9, <1>1, <1>2, <1>4 DEF Live
  <2> QED BY <1>9, <2>1, <2>2, <1>2, <1>4 DEF KitSound, Live
<1>10. \A k \in Kit : KitSound(k)' BY <1>9 DEF KitSound
<1> QED BY <1>2, <1>5, <1>6, <1>7, <1>8, <1>10 DEF OfficeInv

(* What an order is created with are lines, and never none. *)
LEMMA LineSets ==
  Lines \subseteq OrderLines /\ NoLines \in OrderLines /\ NoLines \notin Lines
<1>1. ASSUME NEW lines \in Lines PROVE lines \in OrderLines /\ lines # NoLines
  <2>1. PICK k \in 1..MaxLines : lines \in [1..k -> [mat : Material, quantity : 1..MaxQuantity]]
    BY <1>1 DEF Lines, UpToMany
  <2>2. k \in Nat /\ k > 0  BY WarehouseAssumption
  <2>3. \A i \in 1..k : lines[i] \in LineRow  BY <2>1, WarehouseAssumption DEF LineRow
  <2>4. lines \in [1..k -> LineRow]  BY <2>1, <2>3
  <2>5. lines \in Seq(LineRow)  BY <2>2, <2>4
  <2>6. Len(lines) = k  BY <2>1, <2>2, <2>5
  <2> QED  BY <2>2, <2>5, <2>6 DEF OrderLines, LineRow, NoLines
<1>2. NoLines \in OrderLines  BY DEF OrderLines, NoLines
<1> QED  BY <1>1, <1>2

(* A request that begins keeps the invariant. *)
LEMMA Begins ==
  ASSUME OfficeInv, NEW c \in Client
  PROVE  /\ \A p \in Purchase, s \in Supplier, lines \in Lines :
              CreatePurchaseBegin(c, p, s, lines) => OfficeInv'
         /\ \A p \in Purchase, status \in {"same", "ORDERED", "CANCELLED"},
               lines \in Lines \cup {NoLines} : UpdatePurchaseBegin(c, p, status, lines) => OfficeInv'
         /\ \A p \in Purchase : SendByBotBegin(c, p) => OfficeInv'
         /\ \A p \in Purchase, arrival \in Arrivals : ReceiveBegin(c, p, arrival) => OfficeInv'
         /\ \A s \in Supplier, chat \in Chat : CompleteLinkBegin(c, s, chat) => OfficeInv'
         /\ \A chat \in Chat, p \in Purchase, reply \in {"ACCEPTED", "UNAVAILABLE"} :
              ReplyBegin(c, chat, p, reply) => OfficeInv'
         /\ \A k \in Kit, items \in (SUBSET Material) \ {{}} : CreateKitBegin(c, k, items) => OfficeInv'
         /\ \A k \in Kit, active \in BOOLEAN, items \in SUBSET Material :
              UpdateKitBegin(c, k, active, items) => OfficeInv'
         /\ \A k \in Kit : (AssembleKitBegin(c, k) => OfficeInv') /\ (RemoveKitBegin(c, k) => OfficeInv')
         /\ \A m \in Material : RemoveBegin(c, m) => OfficeInv'
<1>1. ASSUME NEW p \in Purchase, NEW s \in Supplier, NEW lines \in Lines, CreatePurchaseBegin(c, p, s, lines) PROVE OfficeInv'
  <2>1. PICK h : h = [op |-> "createPurchase", touches |-> {p}, p |-> p, s |-> s, lines |-> lines] OBVIOUS
  <2>2. Start(c, h) /\ Serve({p}) /\ Touched(h) = {p}
    BY <1>1, <2>1 DEF CreatePurchaseBegin, Touched
  <2>3. FreshPurchase(h) /\ FreshKit(h)
    BY <1>1, <2>1, LineSets DEF CreatePurchaseBegin, FreshPurchase, FreshKit, PurchaseOp, KitOp
  <2> QED BY <1>1, <2>2, <2>3, BeginStep DEF CreatePurchaseBegin, stockVars
<1>2. ASSUME NEW p \in Purchase, NEW status \in {"same", "ORDERED", "CANCELLED"},
             NEW lines \in Lines \cup {NoLines}, UpdatePurchaseBegin(c, p, status, lines) PROVE OfficeInv'
  <2>1. PICK h : h = [op |-> "updatePurchase", touches |-> {p}, p |-> p,
                    status |-> status, lines |-> lines] OBVIOUS
  <2>2. Start(c, h) /\ Serve({p}) /\ Touched(h) = {p}
    BY <1>2, <2>1 DEF UpdatePurchaseBegin, Touched
  <2>3. FreshPurchase(h) /\ FreshKit(h)
    BY <1>2, <2>1, LineSets DEF UpdatePurchaseBegin, FreshPurchase, FreshKit, PurchaseOp, KitOp, LinesFrozen
  <2> QED BY <1>2, <2>2, <2>3, BeginStep DEF UpdatePurchaseBegin, stockVars
<1>3. ASSUME NEW p \in Purchase, SendByBotBegin(c, p) PROVE OfficeInv'
  <2>1. PICK h : h = [op |-> "sendByBot", touches |-> {p}, p |-> p, lines |-> purchase[p].lines] OBVIOUS
  <2>2. Start(c, h) /\ Serve({p}) /\ Touched(h) = {p}
    BY <1>3, <2>1 DEF SendByBotBegin, Touched
  <2>3. FreshPurchase(h) /\ FreshKit(h)
    BY <1>3, <2>1, LineSets DEF SendByBotBegin, FreshPurchase, FreshKit, PurchaseOp, KitOp, OfficeInv, OfficeOK, PurchaseRow
  <2> QED BY <1>3, <2>2, <2>3, BeginStep DEF SendByBotBegin, stockVars
<1>4. ASSUME NEW p \in Purchase, NEW arrival \in Arrivals, ReceiveBegin(c, p, arrival) PROVE OfficeInv'
  <2>1. PICK h : h = [op |-> "receive", touches |-> {p}, p |-> p, arrival |-> arrival,
                    came |-> Came(purchase[p].lines, arrival), edition |-> purchase[p].edition]
    OBVIOUS
  <2>2. Start(c, h) /\ Serve({p}) /\ Touched(h) = {p}
    BY <1>4, <2>1 DEF ReceiveBegin, Touched
  <2>3. FreshPurchase(h) /\ FreshKit(h)
    BY <1>4, <2>1, CameIsNumber DEF ReceiveBegin, FreshPurchase, FreshKit, PurchaseOp, KitOp, Receivable
  <2> QED BY <1>4, <2>2, <2>3, BeginStep DEF ReceiveBegin, stockVars
<1>5. ASSUME NEW s \in Supplier, NEW chat \in Chat, CompleteLinkBegin(c, s, chat) PROVE OfficeInv'
  <2>1. PICK h : h = [op |-> "completeLink", touches |-> {}, s |-> s, chat |-> chat] OBVIOUS
  <2>2. Start(c, h) /\ Serve({}) /\ Touched(h) = {}
    BY <1>5, <2>1 DEF CompleteLinkBegin, Touched
  <2>3. FreshPurchase(h) /\ FreshKit(h)
    BY <1>5, <2>1, LineSets DEF CompleteLinkBegin, FreshPurchase, FreshKit, PurchaseOp, KitOp
  <2> QED BY <1>5, <2>2, <2>3, BeginStep DEF CompleteLinkBegin, stockVars
<1>6. ASSUME NEW chat \in Chat, NEW p \in Purchase, NEW reply \in {"ACCEPTED", "UNAVAILABLE"}, ReplyBegin(c, chat, p, reply) PROVE OfficeInv'
  <2>1. PICK h : h = [op |-> "reply", touches |-> {}, p |-> p, reply |-> reply] OBVIOUS
  <2>2. Start(c, h) /\ Serve({}) /\ Touched(h) = {}
    BY <1>6, <2>1 DEF ReplyBegin, Touched
  <2>3. FreshPurchase(h) /\ FreshKit(h)
    BY <1>6, <2>1, LineSets DEF ReplyBegin, FreshPurchase, FreshKit, PurchaseOp, KitOp
  <2> QED BY <1>6, <2>2, <2>3, BeginStep DEF ReplyBegin, stockVars
<1>7. ASSUME NEW k \in Kit, NEW items \in (SUBSET Material) \ {{}}, CreateKitBegin(c, k, items) PROVE OfficeInv'
  <2>1. PICK h : h = [op |-> "createKit", touches |-> {k} \cup items, k |-> k, items |-> items] OBVIOUS
  <2>2. Start(c, h) /\ Serve({k} \cup items) /\ Touched(h) = {k} \cup items
    BY <1>7, <2>1 DEF CreateKitBegin, Touched
  <2>3. FreshPurchase(h) /\ FreshKit(h)
    BY <1>7, <2>1, LineSets DEF CreateKitBegin, FreshPurchase, FreshKit, PurchaseOp, KitOp
  <2> QED BY <1>7, <2>2, <2>3, BeginStep DEF CreateKitBegin, stockVars
<1>8. ASSUME NEW k \in Kit, NEW active \in BOOLEAN, NEW items \in SUBSET Material, UpdateKitBegin(c, k, active, items) PROVE OfficeInv'
  <2>1. PICK h : h = [op |-> "updateKit", touches |-> {k} \cup items, k |-> k,
                    active |-> active, items |-> items] OBVIOUS
  <2>2. Start(c, h) /\ Serve({k} \cup items) /\ Touched(h) = {k} \cup items
    BY <1>8, <2>1 DEF UpdateKitBegin, Touched
  <2>3. FreshPurchase(h) /\ FreshKit(h)
    BY <1>8, <2>1, LineSets DEF UpdateKitBegin, FreshPurchase, FreshKit, PurchaseOp, KitOp
  <2> QED BY <1>8, <2>2, <2>3, BeginStep DEF UpdateKitBegin, stockVars
<1>9. ASSUME NEW k \in Kit, AssembleKitBegin(c, k) PROVE OfficeInv'
  <2>1. PICK h : h = [op |-> "assemble", touches |-> {k}, k |-> k, items |-> kit[k].items] OBVIOUS
  <2>2. Start(c, h) /\ Serve({k}) /\ Touched(h) = {k}
    BY <1>9, <2>1 DEF AssembleKitBegin, Touched
  <2>3. FreshPurchase(h) /\ FreshKit(h)
    BY <1>9, <2>1, LineSets DEF AssembleKitBegin, FreshPurchase, FreshKit, PurchaseOp, KitOp
  <2> QED BY <1>9, <2>2, <2>3, BeginStep DEF AssembleKitBegin, stockVars
<1>10. ASSUME NEW k \in Kit, RemoveKitBegin(c, k) PROVE OfficeInv'
  <2>1. PICK h : h = [op |-> "removeKit", touches |-> {k}, k |-> k, used |-> Used(k)] OBVIOUS
  <2>2. Start(c, h) /\ Serve({k}) /\ Touched(h) = {k}
    BY <1>10, <2>1 DEF RemoveKitBegin, Touched
  <2>3. FreshPurchase(h) /\ FreshKit(h)
    BY <1>10, <2>1, LineSets DEF RemoveKitBegin, FreshPurchase, FreshKit, PurchaseOp, KitOp, Used
  <2> QED BY <1>10, <2>2, <2>3, BeginStep DEF RemoveKitBegin, stockVars
<1>11. ASSUME NEW m \in Material, RemoveBegin(c, m) PROVE OfficeInv'
  <2>1. PICK h : h = [op |-> "removeMaterial", mat |-> m, left |-> shelf[m]] OBVIOUS
  <2>2. Start(c, h) /\ Serve({m}) /\ Touched(h) = {m}
    BY <1>11, <2>1 DEF RemoveBegin, RemoveMaterialBegin, Touched
  <2>3. FreshPurchase(h) /\ FreshKit(h)
    BY <1>11, <2>1 DEF RemoveBegin, InLiveKit, FreshPurchase, FreshKit, PurchaseOp, KitOp
  <2> QED BY <1>11, <2>2, <2>3, BeginStep DEF RemoveBegin, RemoveMaterialBegin, stockVars
<1> QED BY <1>1, <1>2, <1>3, <1>4, <1>5, <1>6, <1>7, <1>8, <1>9, <1>10, <1>11

(* The four transactions that write an order. *)
LEMMA PurchaseCommits ==
  ASSUME OfficeInv, NEW c \in Client,
         \/ CreatePurchaseCommit(c) \/ UpdatePurchaseCommit(c)
         \/ SendByBotCommit(c) \/ ReceiveCommit(c)
  PROVE  OfficeInv'
<1>h. PICK h : h = inflight[c] OBVIOUS
<1>p. PICK p : p = h.p OBVIOUS
<1>0. /\ purchase \in [Purchase -> PurchaseRow] /\ received \in [Purchase -> Nat]
      /\ FreshPurchase(h)
  BY <1>h DEF OfficeInv, OfficeOK, Fresh
<1>1. CASE CreatePurchaseCommit(c)
  <2>1. /\ h.op = "createPurchase" /\ p \in Purchase
        /\ h.lines \in OrderLines /\ h.s \in Supplier
    BY <1>0, <1>1, <1>h, <1>p DEF CreatePurchaseCommit, Running, FreshPurchase, PurchaseOp
  <2>2. PICK row : row = [NoPurchase EXCEPT !.status = "DRAFT", !.lines = h.lines, !.supplier = h.s]
    OBVIOUS
  <2>3. /\ row \in PurchaseRow /\ row.status = "DRAFT" /\ row.told = NoLines
    BY <2>1, <2>2, LineSets DEF NoPurchase, PurchaseRow, PurchaseStatus
  <2>4. /\ Finish(c) /\ Served /\ PurchaseBecomes(p, row) /\ purchase[p].status = "none"
        /\ UNCHANGED <<received, kit, label, material>>
    BY <1>1, <2>2, <1>h, <1>p DEF CreatePurchaseCommit, stockVars
  <2>5. purchase'[p] = row /\ crossed' = crossed
    BY <2>1, <2>4, <1>0 DEF PurchaseBecomes, Served
  <2>6. PurchaseSound(p) BY <2>1 DEF OfficeInv
  <2>7. PurchaseSound(p)' BY <2>3, <2>4, <2>5, <2>6 DEF PurchaseSound, NoLines
  <2> QED BY <2>1, <2>3, <2>4, <2>7, <1>0, <1>h, <1>p, PurchaseCommit DEF PurchaseOp
<1>2. CASE UpdatePurchaseCommit(c)
  <2>1. /\ h.op = "updatePurchase" /\ p \in Purchase /\ h.lines \in OrderLines
        /\ h.status \in {"same", "ORDERED", "CANCELLED"}
        /\ p \notin crossed => Open(p) /\ (h.lines # NoLines => purchase[p].status = "DRAFT")
    BY <1>0, <1>2, <1>h, <1>p DEF UpdatePurchaseCommit, Running, FreshPurchase, PurchaseOp
  <2> DEFINE o == purchase[p]
  <2>a. PICK st, ln, ed : /\ st = IF h.status = "same" THEN o.status ELSE h.status
                          /\ ln = IF h.lines = NoLines THEN o.lines ELSE h.lines
                          /\ ed = IF h.lines = NoLines THEN o.edition ELSE o.edition + 1
    OBVIOUS
  <2>2. PICK row : row = [o EXCEPT !.status = st, !.lines = ln, !.edition = ed] OBVIOUS
  <2>b. o \in PurchaseRow BY <2>1, <1>0
  <2>c. st \in PurchaseStatus BY <2>a, <2>b, <2>1 DEF PurchaseRow, PurchaseStatus
  <2>d. ln \in OrderLines BY <2>a, <2>b, <2>1 DEF PurchaseRow
  <2>e. ed \in Nat BY <2>a, <2>b DEF PurchaseRow
  <2>f. /\ row \in PurchaseRow /\ row.told = o.told /\ row.status = st /\ row.lines = ln
    BY <2>b, <2>c, <2>d, <2>e, <2>2 DEF PurchaseRow
  <2>3. /\ row \in PurchaseRow /\ row.told = o.told
        /\ row.status = IF h.status = "same" THEN o.status ELSE h.status
        /\ row.lines = IF h.lines = NoLines THEN o.lines ELSE h.lines
    BY <2>f, <2>a
  <2>4. /\ Finish(c) /\ Served /\ PurchaseBecomes(p, row)
        /\ UNCHANGED <<received, kit, label, material>>
    BY <1>2, <2>a, <2>2, <1>h, <1>p DEF UpdatePurchaseCommit, stockVars
  <2>5. purchase'[p] = row /\ crossed' = crossed
    BY <2>1, <2>4, <1>0 DEF PurchaseBecomes, Served
  <2>6. PurchaseSound(p) BY <2>1 DEF OfficeInv
  <2>7. PurchaseSound(p)' BY <2>1, <2>3, <2>4, <2>5, <2>6 DEF PurchaseSound, NoLines, Open
  <2> QED BY <2>1, <2>3, <2>4, <2>7, <1>0, <1>h, <1>p, PurchaseCommit DEF PurchaseOp
<1>3. CASE SendByBotCommit(c)
  <2>1. /\ h.op = "sendByBot" /\ p \in Purchase /\ h.lines \in OrderLines
        /\ p \notin crossed => Open(p) /\ h.lines = purchase[p].lines
    BY <1>0, <1>3, <1>h, <1>p DEF SendByBotCommit, Running, FreshPurchase, PurchaseOp
  <2> DEFINE o == purchase[p]
  <2>2. PICK row : row = [o EXCEPT !.status = "ORDERED", !.told = h.lines, !.reply = "none"]
    OBVIOUS
  <2>3. /\ row \in PurchaseRow /\ row.told = h.lines /\ row.status = "ORDERED"
        /\ row.lines = o.lines
    BY <2>1, <2>2, <1>0 DEF PurchaseRow, PurchaseStatus
  <2>4. /\ Finish(c) /\ Served /\ PurchaseBecomes(p, row)
        /\ UNCHANGED <<received, kit, label, material>>
    BY <1>3, <2>2, <1>h, <1>p DEF SendByBotCommit, stockVars
  <2>5. purchase'[p] = row /\ crossed' = crossed
    BY <2>1, <2>4, <1>0 DEF PurchaseBecomes, Served
  <2>6. PurchaseSound(p) BY <2>1 DEF OfficeInv
  <2>7. PurchaseSound(p)' BY <2>1, <2>3, <2>4, <2>5, <2>6 DEF PurchaseSound, NoLines, Open
  <2> QED BY <2>1, <2>3, <2>4, <2>7, <1>0, <1>h, <1>p, PurchaseCommit DEF PurchaseOp
<1>4. CASE ReceiveCommit(c)
  <2>1. /\ h.op = "receive" /\ p \in Purchase /\ h.arrival \in Arrivals
        /\ p \notin crossed => Open(p)
    BY <1>0, <1>4, <1>h, <1>p DEF ReceiveCommit, Running, FreshPurchase, PurchaseOp
  <2> DEFINE o == purchase[p]
             lines == Corrected(purchase[p].lines, h.arrival)
  <2>2. PICK row : row = [o EXCEPT !.status = "RECEIVED", !.lines = lines]
    OBVIOUS
  <2>3. lines \in OrderLines
    <3>1. purchase[p].lines \in OrderLines BY <2>1, <1>0 DEF PurchaseRow
    <3> QED BY <2>1, <3>1, CorrectedAreLines
  <2>4. /\ row \in PurchaseRow /\ row.status = "RECEIVED" /\ row.lines = lines
    <3> HIDE DEF lines
    <3>1. o \in PurchaseRow BY <2>1, <1>0
    <3>2. PICK r1 : r1 = [o EXCEPT !.status = "RECEIVED"] OBVIOUS
    <3>3. r1 \in PurchaseRow /\ r1.status = "RECEIVED" BY <3>1, <3>2 DEF PurchaseRow, PurchaseStatus
    <3>4. row = [r1 EXCEPT !.lines = lines] BY <2>2, <3>2, Zenon
    <3> HIDE DEF o
    <3> QED BY <2>3, <3>3, <3>4 DEF PurchaseRow
  <2>5. /\ Finish(c) /\ Served /\ PurchaseBecomes(p, row)
        /\ UNCHANGED <<kit, label, material>>
        /\ received' = [received EXCEPT ![p] = received[p] + 1]
    BY <1>4, <2>2, <1>h, <1>p DEF ReceiveCommit, stockVars
  <2>6. purchase'[p] = row /\ crossed' = crossed
    BY <2>1, <2>5, <1>0 DEF PurchaseBecomes, Served
  <2>7. /\ received' \in [Purchase -> Nat]
        /\ \A q \in Purchase : q # p => received'[q] = received[q]
    BY <2>1, <2>5, <1>0
  <2>8. PurchaseSound(p) BY <2>1 DEF OfficeInv
  <2> HIDE DEF lines
  <2>10. PurchaseSound(p)' BY <2>4, <2>6 DEF PurchaseSound, NoLines
  <2> QED BY <2>1, <2>4, <2>5, <2>7, <2>10, <1>0, <1>h, <1>p, PurchaseCommit DEF PurchaseOp
<1> QED BY <1>1, <1>2, <1>3, <1>4

(* The four transactions that write a recipe or its printed labels. *)
LEMMA KitCommits ==
  ASSUME OfficeInv, NEW c \in Client,
         \/ CreateKitCommit(c) \/ UpdateKitCommit(c)
         \/ AssembleKitCommit(c) \/ RemoveKitCommit(c)
  PROVE  OfficeInv'
<1>h. PICK h : h = inflight[c] OBVIOUS
<1>k. PICK k : k = h.k OBVIOUS
<1>0. /\ kit \in [Kit -> KitRow] /\ label \in [Kit -> {"none", "printed", "orphan"}]
      /\ FreshKit(h)
  BY <1>h DEF OfficeInv, OfficeOK, Fresh
<1>1. CASE CreateKitCommit(c)
  <2>1. /\ h.op = "createKit" /\ k \in Kit /\ h.items \subseteq Material
        /\ h.items \subseteq Touched(h) /\ h.items # {}
        /\ k \notin crossed => Listed(h.items)
    BY <1>0, <1>1, <1>h, <1>k DEF CreateKitCommit, Running, FreshKit, KitOp, Touched
  <2>2. PICK row : row = [state |-> "live", items |-> h.items, active |-> TRUE] OBVIOUS
  <2>3. /\ Finish(c) /\ Served /\ KitBecomes(k, row) /\ kit[k].state = "none"
        /\ UNCHANGED <<purchase, received, label, material>>
    BY <1>1, <2>2, <1>h, <1>k DEF CreateKitCommit, stockVars
  <2>4. row \in KitRow /\ row.state = "live" /\ row.items = h.items
    BY <2>1, <2>2 DEF KitRow
  <2>5. /\ kit' \in [Kit -> KitRow] /\ kit'[k] = row /\ crossed' = crossed
        /\ \A j \in Kit : j # k => kit'[j] = kit[j]
    BY <2>1, <2>3, <2>4, <1>0 DEF KitBecomes, Served
  <2>6. KitSound(k) BY <2>1 DEF OfficeInv
  <2>7. KitSound(k)' BY <2>1, <2>3, <2>4, <2>5, <2>6 DEF KitSound, Live, Listed
  <2> QED BY <2>1, <2>3, <2>4, <2>5, <2>7, <1>0, <1>h, <1>k, KitCommit DEF KitOp
<1>2. CASE UpdateKitCommit(c)
  <2>1. /\ h.op = "updateKit" /\ k \in Kit /\ h.items \subseteq Material
        /\ h.items \subseteq Touched(h) /\ h.active \in BOOLEAN
        /\ k \notin crossed => Listed(h.items) /\ Live(k)
    BY <1>0, <1>2, <1>h, <1>k DEF UpdateKitCommit, Running, FreshKit, KitOp, Touched
  <2>a. PICK its : its = IF h.items = {} THEN kit[k].items ELSE h.items OBVIOUS
  <2>2. PICK row : row = [state |-> kit[k].state, active |-> h.active, items |-> its] OBVIOUS
  <2>3. /\ Finish(c) /\ Served /\ KitBecomes(k, row)
        /\ UNCHANGED <<purchase, received, label, material>>
    BY <1>2, <2>a, <2>2, <1>h, <1>k DEF UpdateKitCommit, stockVars
  <2>b. kit[k] \in KitRow BY <2>1, <1>0
  <2>4. row \in KitRow /\ row.state = kit[k].state /\ row.items = its
    BY <2>1, <2>a, <2>b, <2>2 DEF KitRow
  <2>5. /\ kit' \in [Kit -> KitRow] /\ kit'[k] = row /\ crossed' = crossed
        /\ \A j \in Kit : j # k => kit'[j] = kit[j]
    BY <2>1, <2>3, <2>4, <1>0 DEF KitBecomes, Served
  <2>6. KitSound(k) BY <2>1 DEF OfficeInv
  <2>7. KitSound(k)' BY <2>1, <2>a, <2>3, <2>4, <2>5, <2>6 DEF KitSound, Live, Listed
  <2>8. /\ k \notin crossed => kit'[k].items \subseteq kit[k].items \cup Touched(h)
        /\ k \notin crossed /\ kit[k].state # "live" => kit'[k].items \subseteq Touched(h)
    BY <2>1, <2>a, <2>4, <2>5 DEF Live
  <2> QED BY <2>1, <2>3, <2>5, <2>7, <2>8, <1>0, <1>h, <1>k, KitCommit DEF KitOp
<1>3. CASE AssembleKitCommit(c)
  <2>1. h.op = "assemble" /\ k \in Kit /\ (k \notin crossed => Live(k))
    BY <1>0, <1>3, <1>h, <1>k DEF AssembleKitCommit, Running, FreshKit, KitOp
  <2>2. /\ Finish(c) /\ Served /\ label' = [label EXCEPT ![k] = "printed"]
        /\ UNCHANGED <<purchase, received, kit, material>>
    BY <1>3, <1>h, <1>k DEF AssembleKitCommit, stockVars
  <2>3. /\ label' \in [Kit -> {"none", "printed", "orphan"}]
        /\ \A j \in Kit : j # k => label'[j] = label[j]
    BY <2>1, <2>2, <1>0
  <2>4. KitSound(k) /\ crossed' = crossed BY <2>1, <2>2 DEF OfficeInv, Served
  <2>5. KitSound(k)' BY <2>1, <2>2, <2>4 DEF KitSound, Live
  <2>6. k \notin crossed => kit[k].state = "live" BY <2>1 DEF Live
  <2> QED BY <2>1, <2>2, <2>3, <2>5, <2>6, <1>0, <1>h, <1>k, KitCommit DEF KitOp
<1>4. CASE RemoveKitCommit(c)
  <2>1. /\ h.op = "removeKit" /\ k \in Kit /\ h.used \in BOOLEAN
        /\ k \notin crossed => Live(k) /\ (h.used <=> label[k] # "none")
    BY <1>0, <1>4, <1>h, <1>k DEF RemoveKitCommit, Running, FreshKit, KitOp
  <2>2. PICK row : row = IF h.used
                         THEN [state |-> "hidden", items |-> kit[k].items, active |-> FALSE]
                         ELSE [state |-> "erased", items |-> {}, active |-> TRUE]
    OBVIOUS
  <2>3. /\ Finish(c) /\ Served /\ KitBecomes(k, row)
        /\ UNCHANGED <<purchase, received, material>>
    BY <1>4, <2>2, <1>h, <1>k DEF RemoveKitCommit, stockVars
  <2>4. IF h.used THEN label' = label
        ELSE label' = [label EXCEPT ![k] = IF label[k] = "printed" THEN "orphan" ELSE label[k]]
    BY <1>4, <1>h, <1>k DEF RemoveKitCommit
  <2>b. kit[k] \in KitRow BY <2>1, <1>0
  <2>5. /\ row \in KitRow /\ row.items \subseteq kit[k].items
        /\ row.state = IF h.used THEN "hidden" ELSE "erased"
    BY <2>1, <2>2, <2>b DEF KitRow
  <2>6. /\ kit' \in [Kit -> KitRow] /\ kit'[k] = row /\ crossed' = crossed
        /\ \A j \in Kit : j # k => kit'[j] = kit[j]
    BY <2>1, <2>3, <2>5, <1>0 DEF KitBecomes, Served
  <2>7. /\ label' \in [Kit -> {"none", "printed", "orphan"}]
        /\ \A j \in Kit : j # k => label'[j] = label[j]
        /\ label[k] = "none" => label'[k] = "none"
    BY <2>1, <2>4, <1>0
  <2>8. KitSound(k) BY <2>1 DEF OfficeInv
  <2>9. KitSound(k)'
    <3>1. CASE h.used BY <3>1, <2>5, <2>6 DEF KitSound, Live
    <3>2. CASE ~h.used BY <3>2, <2>1, <2>5, <2>6, <2>7 DEF KitSound, Live
    <3> QED BY <3>1, <3>2
  <2>10. k \notin crossed => kit[k].state = "live" BY <2>1 DEF Live
  <2> QED BY <2>1, <2>3, <2>5, <2>6, <2>7, <2>9, <2>10, <1>0, <1>h, <1>k, KitCommit DEF KitOp
<1> QED BY <1>1, <1>2, <1>3, <1>4

-----------------------------------------------------------------------------
(* The office opens with no order and no recipe, and no request in flight. *)
LEMMA InitHolds == WarehouseInit => OfficeInv
<1> SUFFICES ASSUME WarehouseInit PROVE OfficeInv OBVIOUS
<1>1. /\ \A c \in Client : inflight[c] = NoHandler
      /\ inflight = [c \in Client |-> inflight[c]]
  BY DEF WarehouseInit, HandlersInit
<1>2. NoPurchase \in PurchaseRow /\ NoKit \in KitRow
  BY LineSets DEF NoPurchase, NoKit, PurchaseRow, PurchaseStatus, KitRow
<1>4. OfficeOK BY <1>1, <1>2 DEF OfficeOK, WarehouseInit
<1>5. material \in [Material -> {"listed", "hidden", "erased"}]
  BY DEF WarehouseInit, StockInit
<1>6. Fresh /\ Apart BY <1>1, IdleIsFresh DEF Fresh, Apart
<1>7. \A p \in Purchase : PurchaseSound(p)
  BY DEF WarehouseInit, PurchaseSound, NoPurchase
<1>8. \A k \in Kit : KitSound(k) BY DEF WarehouseInit, KitSound, NoKit, Live
<1> QED BY <1>4, <1>5, <1>6, <1>7, <1>8 DEF OfficeInv

(* Every step keeps the invariant. *)
LEMMA NextStep == OfficeInv /\ [WarehouseNext]_warehouseVars => OfficeInv'
<1> SUFFICES ASSUME OfficeInv, [WarehouseNext]_warehouseVars PROVE OfficeInv' OBVIOUS
<1>1. CASE BookByHand
  <2>1. UNCHANGED <<inflight, purchase, received, kit, label, material>> /\ crossed \subseteq crossed'
    BY <1>1 DEF BookByHand, officeVars, Serve, Receipt, AdjustIn, AdjustOut, WriteOff
  <2> QED BY <2>1, OfficeQuiet
<1>2. ASSUME NEW s \in Supplier, BotLink(s) \/ BotUnlink(s) PROVE OfficeInv'
  <2>1. UNCHANGED <<inflight, purchase, received, kit, label, material>> /\ crossed \subseteq crossed'
    BY <1>2 DEF BotLink, BotUnlink, stockVars, Serve
  <2> QED BY <2>1, OfficeQuiet
<1>3. ASSUME NEW c \in Client, CompleteLinkCommit(c) \/ GiveUp(c) PROVE OfficeInv'
  <2>1. /\ Finish(c) /\ Served
        /\ UNCHANGED <<purchase, received, kit, label, material>>
    <3>1. CASE CompleteLinkCommit(c) BY <3>1 DEF CompleteLinkCommit, stockVars
    <3>2. CASE GiveUp(c)
      BY <3>2 DEF GiveUp, AbandonStock, Abandon, officeVars, stockVars
    <3> QED BY <1>3, <3>1, <3>2
  <2> QED BY <2>1, EndStep
<1>4. CASE UNCHANGED warehouseVars
  BY <1>4, OfficeQuiet DEF warehouseVars, stockVars, officeVars
<1> QED BY <1>1, <1>2, <1>3, <1>4, Begins, PurchaseCommits, KitCommits, ReplyStep, RemoveStep
        DEF WarehouseNext

(* Every reachable state satisfies the invariant. *)
LEMMA Always == WarehouseSpec => []OfficeInv
<1>1. WarehouseInit => OfficeInv BY InitHolds
<1>2. OfficeInv /\ [WarehouseNext]_warehouseVars => OfficeInv' BY NextStep
<1> QED BY <1>1, <1>2, PTL DEF WarehouseSpec

(* The supplier holds the lines that are ordered.                          *)
THEOREM SupplierWasToldRight == WarehouseSpec => []ToldAsOrdered
<1>1. OfficeInv => ToldAsOrdered BY DEF OfficeInv, PurchaseSound, ToldAsOrdered
<1> QED BY <1>1, Always, PTL

(* A live recipe names only materials that are in stock-keeping.           *)
THEOREM RecipesAreKeptWhole == WarehouseSpec => []RecipesStayWhole
<1>1. OfficeInv => RecipesStayWhole BY DEF OfficeInv, KitSound, RecipesStayWhole
<1> QED BY <1>1, Always, PTL

(* A printed label always has its recipe.                                  *)
THEOREM LabelsKeepRecipes == WarehouseSpec => []LabelKeepsRecipe
<1>1. OfficeInv => LabelKeepsRecipe BY DEF OfficeInv, KitSound, LabelKeepsRecipe
<1> QED BY <1>1, Always, PTL

-----------------------------------------------------------------------------
(*                  The shelf is what the movements say                    *)

(* A movement whose warehouseDelta is what its type means for the shelf:   *)
(* written off by hand it leaves the shelf, for an assignment her home.    *)
Meant(s, movement) ==
  /\ movement.type \in MovementType /\ movement.quantity \in Nat
  /\ movement.warehouse =
       IF movement.type \in {"RECEIPT", "RETURN_FROM_WORKER", "ADJUSTMENT_IN"}
       THEN movement.quantity
       ELSE IF \/ movement.type \in {"ISSUE_TO_KIT", "ADJUSTMENT_OUT"}
               \/ movement.type = "WRITE_OFF" /\ s = NoAsg
            THEN -movement.quantity
       ELSE 0

StockCounts == /\ shelf \in [Material -> Int]
               /\ moved \in [Source -> [Material -> [MovementType -> Nat]]]
               /\ ShelfMatchesMovements

NoTrail == \A m \in Material : material[m] = "erased" =>
             \A s \in Source, t \in MovementType : moved[s][m][t] = 0

(* What a source did to the shelf is an integer.                           *)
LEMMA TotalsAreInt ==
  ASSUME moved \in [Source -> [Material -> [MovementType -> Nat]]],
         NEW s \in Source, NEW m \in Material
  PROVE  ShelfTotal(s, m) \in Int
<1>1. \A t \in MovementType : moved[s][m][t] \in Nat  OBVIOUS
<1> QED  BY <1>1 DEF ShelfTotal, MovementType

(* One transaction of movements, each meaning what its type says, changes  *)
(* the totals of its source by what they mean, and no other.               *)
LEMMA RecordAddsUp ==
  ASSUME moved \in [Source -> [Material -> [MovementType -> Nat]]],
         NEW s \in Source, NEW w, NEW moves,
         \A m \in Material : Meant(s, moves[m]), RecordMovements(s, w, moves)
  PROVE  /\ moved' \in [Source -> [Material -> [MovementType -> Nat]]]
         /\ \A m \in Material, t \in MovementType :
              moved'[s][m][t] = moved[s][m][t] + (IF t = moves[m].type THEN moves[m].quantity ELSE 0)
         /\ \A x \in Source : x # s => moved'[x] = moved[x]
         /\ \A m \in Material : ShelfTotal(s, m)' = ShelfTotal(s, m) + moves[m].warehouse
<1> DEFINE Total == [m \in Material |->
                       [moved[s][m] EXCEPT ![moves[m].type] = @ + moves[m].quantity]]
<1>1. moved' = [moved EXCEPT ![s] = Total]  BY DEF RecordMovements
<1>2. \A m \in Material : moves[m].type \in MovementType /\ moves[m].quantity \in Nat
  BY DEF Meant
<1>3. Total \in [Material -> [MovementType -> Nat]]  BY <1>2
<1>4. \A m \in Material, t \in MovementType :
        Total[m][t] = moved[s][m][t] + (IF t = moves[m].type THEN moves[m].quantity ELSE 0)
  BY <1>2
<1> HIDE DEF Total
<1>5. /\ moved' \in [Source -> [Material -> [MovementType -> Nat]]] /\ moved'[s] = Total
      /\ \A x \in Source : x # s => moved'[x] = moved[x]
  BY <1>1, <1>3
<1>6. ASSUME NEW m \in Material
      PROVE  ShelfTotal(s, m)' = ShelfTotal(s, m) + moves[m].warehouse
  <2> DEFINE q == moves[m].quantity
             type == moves[m].type
             here == moves[m].warehouse
             before == moved[s][m]
             after == moved'[s][m]
  <2>1. type \in MovementType /\ q \in Nat  BY <1>2
  <2>2. here = IF type \in {"RECEIPT", "RETURN_FROM_WORKER", "ADJUSTMENT_IN"} THEN q
               ELSE IF \/ type \in {"ISSUE_TO_KIT", "ADJUSTMENT_OUT"}
                       \/ type = "WRITE_OFF" /\ s = NoAsg
                    THEN -q ELSE 0
    BY DEF Meant
  <2>3. \A t \in MovementType : /\ before[t] \in Nat
                                /\ after[t] = before[t] + (IF t = type THEN q ELSE 0)
    BY <1>4, <1>5
  <2>4. ShelfTotal(s, m) = before["RECEIPT"] + before["RETURN_FROM_WORKER"]
          + before["ADJUSTMENT_IN"] - before["ISSUE_TO_KIT"] - before["ADJUSTMENT_OUT"]
          - (IF s = NoAsg THEN before["WRITE_OFF"] ELSE 0)
    BY DEF ShelfTotal
  <2>5. ShelfTotal(s, m)' = after["RECEIPT"] + after["RETURN_FROM_WORKER"]
          + after["ADJUSTMENT_IN"] - after["ISSUE_TO_KIT"] - after["ADJUSTMENT_OUT"]
          - (IF s = NoAsg THEN after["WRITE_OFF"] ELSE 0)
    BY DEF ShelfTotal
  <2> HIDE DEF q, type, here, before, after
  <2>6. ShelfTotal(s, m)' = ShelfTotal(s, m) + here
    <3>1. CASE type \in {"RECEIPT", "RETURN_FROM_WORKER", "ADJUSTMENT_IN"}
      BY <2>1, <2>2, <2>3, <2>4, <2>5, <3>1 DEF MovementType
    <3>2. CASE type \in {"ISSUE_TO_KIT", "ADJUSTMENT_OUT"}
      BY <2>1, <2>2, <2>3, <2>4, <2>5, <3>2 DEF MovementType
    <3>3. CASE type = "WRITE_OFF"
      BY <2>1, <2>2, <2>3, <2>4, <2>5, <3>3 DEF MovementType
    <3>4. CASE type \in {"ISSUE_TO_WORKER", "CONSUMPTION"}
      BY <2>1, <2>2, <2>3, <2>4, <2>5, <3>4 DEF MovementType
    <3> QED  BY <2>1, <3>1, <3>2, <3>3, <3>4 DEF MovementType
  <2> QED  BY <2>6 DEF here
<1> QED  BY <1>4, <1>5, <1>6

(* So it keeps the shelf equal to the sum, and moves nothing that is       *)
(* erased.                                                                 *)
LEMMA RecordKeepsShelf ==
  ASSUME IsFiniteSet(Asg), StockCounts, NEW s \in Source, NEW w, NEW moves,
         \A m \in Material : Meant(s, moves[m]), RecordMovements(s, w, moves)
  PROVE  /\ StockCounts'
         /\ \A m \in Material, x \in Source, t \in MovementType :
              material[m] = "erased" => moved'[x][m][t] = moved[x][m][t]
<1>1. /\ shelf' = [m \in Material |-> shelf[m] + moves[m].warehouse]
      /\ \A m \in Material : moves[m].quantity > 0 => material[m] # "erased"
  BY DEF RecordMovements
<1>2. \A m \in Material : moves[m].quantity \in Nat /\ moves[m].warehouse \in Int
  BY DEF Meant
<1>3. moved \in [Source -> [Material -> [MovementType -> Nat]]] /\ shelf \in [Material -> Int]
  BY DEF StockCounts
<1>4. /\ moved' \in [Source -> [Material -> [MovementType -> Nat]]]
      /\ \A m \in Material, t \in MovementType :
           moved'[s][m][t] = moved[s][m][t] + (IF t = moves[m].type THEN moves[m].quantity ELSE 0)
      /\ \A x \in Source : x # s => moved'[x] = moved[x]
      /\ \A m \in Material : ShelfTotal(s, m)' = ShelfTotal(s, m) + moves[m].warehouse
  BY <1>3, RecordAddsUp
<1>5. shelf' \in [Material -> Int]  BY <1>1, <1>2, <1>3
<1>6. ASSUME NEW m \in Material
      PROVE  shelf'[m] = SumFunction([x \in Source |-> ShelfTotal(x, m)'])
  <2> DEFINE f == [x \in Source |-> ShelfTotal(x, m)]
             g == [x \in Source |-> ShelfTotal(x, m)']
  <2>1. f \in [Source -> Int]  BY <1>3, TotalsAreInt
  <2>2. \A x \in Source : x # s => ShelfTotal(x, m)' = ShelfTotal(x, m)
    BY <1>4 DEF ShelfTotal
  <2>3. ShelfTotal(s, m)' = ShelfTotal(s, m) + moves[m].warehouse /\ ShelfTotal(s, m) \in Int
    BY <1>3, <1>4, TotalsAreInt
  <2>4. g \in [Source -> Int]  BY <1>2, <2>1, <2>2, <2>3
  <2>5. f[s] = ShelfTotal(s, m) /\ g[s] = ShelfTotal(s, m)'  OBVIOUS
  <2>6. \A x \in Source : x # s => g[x] = f[x]  BY <2>2
  <2>7. IsFiniteSet(Source)  BY FS_AddElement DEF Source
  <2> HIDE DEF f, g
  <2>8. SumFunction(f) \in Int /\ SumFunction(g) = SumFunction(f) + g[s] - f[s]
    BY <2>1, <2>4, <2>6, <2>7, SumOfOneChange
  <2>9. SumFunction(g) = SumFunction(f) + moves[m].warehouse
    BY <1>2, <2>3, <2>5, <2>8
  <2>10. shelf[m] = SumFunction(f)  BY DEF StockCounts, ShelfMatchesMovements, f
  <2>11. shelf'[m] = SumFunction(g)  BY <1>1, <2>9, <2>10
  <2> QED  BY <2>11 DEF g
<1>7. ShelfMatchesMovements'  BY <1>6 DEF ShelfMatchesMovements
<1>8. ASSUME NEW m \in Material, NEW x \in Source, NEW t \in MovementType, material[m] = "erased"
      PROVE  moved'[x][m][t] = moved[x][m][t]
  <2>1. moves[m].quantity = 0  BY <1>1, <1>2, <1>8
  <2>2. moved[x][m][t] \in Nat  BY <1>3
  <2> QED  BY <1>4, <2>1, <2>2
<1> QED  BY <1>4, <1>5, <1>7, <1>8 DEF StockCounts

(* The manual movements of one material.                                   *)
LEMMA ManualKeepsShelf ==
  ASSUME IsFiniteSet(Asg), StockCounts, NEW m \in Material, NEW movement,
         Meant(NoAsg, movement), RecordManual(m, movement)
  PROVE  /\ StockCounts'
         /\ \A x \in Material, s \in Source, t \in MovementType :
              material[x] = "erased" => moved'[s][x][t] = moved[s][x][t]
<1> DEFINE moves == [x \in Material |-> IF x = m THEN movement ELSE NoMovement]
<1>1. PICK w \in Worker : RecordMovements(NoAsg, w, moves)  BY DEF RecordManual
<1>2. Meant(NoAsg, NoMovement)  BY DEF Meant, NoMovement, Movement, MovementType
<1>3. \A x \in Material : Meant(NoAsg, moves[x])  BY <1>2
<1>4. NoAsg \in Source  BY DEF Source
<1> HIDE DEF moves
<1> QED  BY <1>1, <1>3, <1>4, RecordKeepsShelf

(* Everything the office books by hand: receipts, counts, write-offs.      *)
LEMMA BookingKeepsShelf ==
  ASSUME IsFiniteSet(Asg), StockCounts, NEW m \in Material, NEW q \in Nat,
         Receipt(m, q) \/ AdjustIn(m, q) \/ AdjustOut(m, q) \/ WriteOff(m, q)
  PROVE  /\ StockCounts'
         /\ \A x \in Material, s \in Source, t \in MovementType :
              material[x] = "erased" => moved'[s][x][t] = moved[s][x][t]
<1>1. /\ Meant(NoAsg, Movement("RECEIPT", q, q, 0))
      /\ Meant(NoAsg, Movement("ADJUSTMENT_IN", q, q, 0))
      /\ Meant(NoAsg, Movement("ADJUSTMENT_OUT", q, -q, 0))
      /\ Meant(NoAsg, Movement("WRITE_OFF", q, -q, 0))
  BY DEF Meant, Movement, MovementType
<1>2. \E movement : Meant(NoAsg, movement) /\ RecordManual(m, movement)
  BY <1>1 DEF Receipt, AdjustIn, AdjustOut, WriteOff
<1> QED  BY <1>2, ManualKeepsShelf

(* If no source moved anything of a material, none of it is on the shelf.  *)
LEMMA NothingMovedNothingThere ==
  ASSUME IsFiniteSet(Asg), StockCounts, NEW m \in Material,
         \A s \in Source, t \in MovementType : moved[s][m][t] = 0
  PROVE  shelf[m] = 0
<1> DEFINE f == [s \in Source |-> ShelfTotal(s, m)]
<1>1. \A s \in Source : ShelfTotal(s, m) = 0  BY DEF ShelfTotal, MovementType
<1>2. f \in [Source -> Int] /\ NoAsg \in Source /\ \A s \in Source : f[s] = 0
  BY <1>1 DEF Source
<1>3. IsFiniteSet(Source)  BY FS_AddElement DEF Source
<1>4. shelf[m] = SumFunction(f)  BY DEF StockCounts, ShelfMatchesMovements
<1> HIDE DEF f
<1> QED  BY <1>2, <1>3, <1>4, SumOfOne

(* The stock opens with what was received before.                          *)
LEMMA ShelfOpens ==
  ASSUME IsFiniteSet(Asg), StockInit
  PROVE  StockCounts /\ NoTrail
<1>1. NothingMoved \in [MovementType -> Nat] /\ \A t \in MovementType : NothingMoved[t] = 0
  BY DEF NothingMoved
<1>2. ASSUME NEW m \in Material
      PROVE  /\ [NothingMoved EXCEPT !["RECEIPT"] = Opening[m]] \in [MovementType -> Nat]
             /\ Opening[m] \in Nat
  BY <1>1, StockAssumption
<1>3. moved \in [Source -> [Material -> [MovementType -> Nat]]]  BY <1>1, <1>2 DEF StockInit
<1>4. shelf \in [Material -> Int]  BY <1>2, StockAssumption DEF StockInit
<1>5. ASSUME NEW m \in Material  PROVE shelf[m] = SumFunction([s \in Source |-> ShelfTotal(s, m)])
  <2> DEFINE f == [s \in Source |-> ShelfTotal(s, m)]
  <2>1. \A s \in Source : s # NoAsg => moved[s][m] = NothingMoved  BY DEF StockInit
  <2>2. \A s \in Source : s # NoAsg => ShelfTotal(s, m) = 0
    BY <1>1, <2>1 DEF ShelfTotal, MovementType
  <2>3. NoAsg \in Source /\ moved[NoAsg][m] = [NothingMoved EXCEPT !["RECEIPT"] = Opening[m]]
    BY DEF StockInit, Source
  <2>4. /\ moved[NoAsg][m]["RECEIPT"] = Opening[m]
        /\ \A t \in MovementType : t # "RECEIPT" => moved[NoAsg][m][t] = 0
    BY <1>1, <2>3 DEF MovementType
  <2>5. ShelfTotal(NoAsg, m) = Opening[m]  BY <1>2, <2>4 DEF ShelfTotal, MovementType
  <2>6. f \in [Source -> Int]  BY <1>3, TotalsAreInt
  <2>7. \A s \in Source : s # NoAsg => f[s] = 0  BY <2>2
  <2>8. f[NoAsg] = shelf[m]  BY <2>3, <2>5 DEF StockInit
  <2>9. IsFiniteSet(Source)  BY FS_AddElement DEF Source
  <2> HIDE DEF f
  <2>10. SumFunction(f) = shelf[m]  BY <2>3, <2>6, <2>7, <2>8, <2>9, SumOfOne
  <2> QED  BY <2>10 DEF f
<1>6. NoTrail  BY DEF NoTrail, StockInit
<1> QED  BY <1>3, <1>4, <1>5, <1>6 DEF StockCounts, ShelfMatchesMovements
-----------------------------------------------------------------------------
(* A removal that is under way remembers a number for what is left.        *)
LeftIsNumber == \A c \in Client : inflight[c].op = "removeMaterial" => inflight[c].left \in Int

ShelfInv == StockCounts /\ NoTrail /\ LeftIsNumber

(* Nothing was moved.                                                      *)
LEMMA StillShelf ==
  ASSUME StockCounts, NoTrail, UNCHANGED stockVars
  PROVE  StockCounts' /\ NoTrail'
<1>1. UNCHANGED <<shelf, moved, material>>  BY DEF stockVars
<1>2. ShelfMatchesMovements'  BY <1>1 DEF StockCounts, ShelfMatchesMovements, ShelfTotal
<1> QED  BY <1>1, <1>2 DEF StockCounts, NoTrail

(* What was moved was of no material that is erased.                       *)
LEMMA TrailStays ==
  ASSUME NoTrail, UNCHANGED material,
         \A m \in Material, x \in Source, t \in MovementType :
           material[m] = "erased" => moved'[x][m][t] = moved[x][m][t]
  PROVE  NoTrail'
BY DEF NoTrail

(* A request that begins remembers what it read of the shelf.              *)
LEMMA StartLeft ==
  ASSUME OfficeInv, LeftIsNumber, NEW c \in Client, NEW h, Start(c, h),
         h.op = "removeMaterial" => h.left \in Int
  PROVE  LeftIsNumber'
<1>1. \A d \in Client : inflight'[d] = IF d = c THEN h ELSE inflight[d]
  BY DEF Start, OfficeInv, OfficeOK
<1> QED  BY <1>1 DEF LeftIsNumber

(* A slot that is freed remembers nothing.                                 *)
LEMMA FinishLeft ==
  ASSUME OfficeInv, LeftIsNumber, NEW c \in Client, Finish(c)
  PROVE  LeftIsNumber'
<1>1. \A d \in Client : inflight'[d] = IF d = c THEN NoHandler ELSE inflight[d]
  BY DEF Finish, OfficeInv, OfficeOK
<1> QED  BY <1>1 DEF LeftIsNumber, NoHandler

(* The requests that begin move nothing.                                   *)
LEMMA BeginsKeepShelf ==
  ASSUME OfficeInv, ShelfInv, NEW c \in Client,
         \/ \E p \in Purchase, s \in Supplier, lines \in Lines : CreatePurchaseBegin(c, p, s, lines)
         \/ \E p \in Purchase, status \in {"same", "ORDERED", "CANCELLED"},
               lines \in Lines \cup {NoLines} : UpdatePurchaseBegin(c, p, status, lines)
         \/ \E p \in Purchase : SendByBotBegin(c, p)
         \/ \E p \in Purchase, arrival \in Arrivals : ReceiveBegin(c, p, arrival)
         \/ \E s \in Supplier, chat \in Chat : CompleteLinkBegin(c, s, chat)
         \/ \E chat \in Chat, p \in Purchase, reply \in {"ACCEPTED", "UNAVAILABLE"} :
              ReplyBegin(c, chat, p, reply)
         \/ \E k \in Kit, items \in (SUBSET Material) \ {{}} : CreateKitBegin(c, k, items)
         \/ \E k \in Kit, active \in BOOLEAN, items \in SUBSET Material :
              UpdateKitBegin(c, k, active, items)
         \/ \E k \in Kit : AssembleKitBegin(c, k) \/ RemoveKitBegin(c, k)
         \/ \E m \in Material : RemoveBegin(c, m)
  PROVE  ShelfInv'
<1>1. \E h : Start(c, h) /\ (h.op = "removeMaterial" => h.left \in Int)
  <2>1. CASE \E p \in Purchase, s \in Supplier, lines \in Lines : CreatePurchaseBegin(c, p, s, lines)
    BY <2>1 DEF CreatePurchaseBegin
  <2>2. CASE \E p \in Purchase, status \in {"same", "ORDERED", "CANCELLED"},
               lines \in Lines \cup {NoLines} : UpdatePurchaseBegin(c, p, status, lines)
    BY <2>2 DEF UpdatePurchaseBegin
  <2>3. CASE \E p \in Purchase : SendByBotBegin(c, p)  BY <2>3 DEF SendByBotBegin
  <2>4. CASE \E p \in Purchase, arrival \in Arrivals : ReceiveBegin(c, p, arrival)
    BY <2>4 DEF ReceiveBegin
  <2>5. CASE \E s \in Supplier, chat \in Chat : CompleteLinkBegin(c, s, chat)
    BY <2>5 DEF CompleteLinkBegin
  <2>6. CASE \E chat \in Chat, p \in Purchase, reply \in {"ACCEPTED", "UNAVAILABLE"} :
               ReplyBegin(c, chat, p, reply)
    BY <2>6 DEF ReplyBegin
  <2>7. CASE \E k \in Kit, items \in (SUBSET Material) \ {{}} : CreateKitBegin(c, k, items)
    BY <2>7 DEF CreateKitBegin
  <2>8. CASE \E k \in Kit, active \in BOOLEAN, items \in SUBSET Material :
               UpdateKitBegin(c, k, active, items)
    BY <2>8 DEF UpdateKitBegin
  <2>9. CASE \E k \in Kit : AssembleKitBegin(c, k) \/ RemoveKitBegin(c, k)
    BY <2>9 DEF AssembleKitBegin, RemoveKitBegin
  <2>10. CASE \E m \in Material : RemoveBegin(c, m)
    BY <2>10 DEF RemoveBegin, RemoveMaterialBegin, ShelfInv, StockCounts
  <2> QED  BY <2>1, <2>2, <2>3, <2>4, <2>5, <2>6, <2>7, <2>8, <2>9, <2>10
<1>2. UNCHANGED stockVars
  BY DEF CreatePurchaseBegin, UpdatePurchaseBegin, SendByBotBegin, ReceiveBegin,
         CompleteLinkBegin, ReplyBegin, CreateKitBegin, UpdateKitBegin, AssembleKitBegin,
         RemoveKitBegin, RemoveBegin, RemoveMaterialBegin
<1> QED  BY <1>1, <1>2, StartLeft, StillShelf DEF ShelfInv

(* Nor do the transactions about orders, recipes, links and answers, save  *)
(* the three below.                                                        *)
LEMMA CommitsKeepShelf ==
  ASSUME OfficeInv, ShelfInv, NEW c \in Client,
         \/ CreatePurchaseCommit(c) \/ UpdatePurchaseCommit(c) \/ SendByBotCommit(c)
         \/ CompleteLinkCommit(c) \/ ReplyCommit(c)
         \/ CreateKitCommit(c) \/ UpdateKitCommit(c) \/ RemoveKitCommit(c) \/ GiveUp(c)
  PROVE  ShelfInv'
<1>1. Finish(c) /\ UNCHANGED stockVars
  BY DEF CreatePurchaseCommit, UpdatePurchaseCommit, SendByBotCommit, CompleteLinkCommit,
         ReplyCommit, CreateKitCommit, UpdateKitCommit, RemoveKitCommit, GiveUp, AbandonStock,
         Abandon
<1> QED  BY <1>1, FinishLeft, StillShelf DEF ShelfInv

(* The arrival of an order: a receipt per line that came.                  *)
LEMMA ReceiveKeepsShelf ==
  ASSUME IsFiniteSet(Asg), OfficeInv, ShelfInv, NEW c \in Client, ReceiveCommit(c)
  PROVE  ShelfInv'
<1> DEFINE came == inflight[c].came
           moves == [m \in Material |->
                       IF came[m] > 0 THEN Movement("RECEIPT", came[m], came[m], 0)
                       ELSE NoMovement]
<1>1. came \in [Material -> Nat]
  BY DEF ReceiveCommit, Running, OfficeInv, Fresh, FreshPurchase
<1>2. PICK w \in Worker : RecordMovements(NoAsg, w, moves)  BY DEF ReceiveCommit
<1>3. Finish(c) /\ UNCHANGED material  BY DEF ReceiveCommit
<1>4. \A m \in Material : came[m] \in Nat
  BY <1>1
<1> HIDE DEF came
<1>5. \A m \in Material : Meant(NoAsg, moves[m])
  BY <1>4 DEF Meant, NoMovement, Movement, MovementType
<1>6. NoAsg \in Source  BY DEF Source
<1> HIDE DEF moves
<1> QED  BY <1>2, <1>3, <1>5, <1>6, RecordKeepsShelf, TrailStays, FinishLeft DEF ShelfInv

(* A batch of one kit: one of every ingredient.                            *)
LEMMA AssembleKeepsShelf ==
  ASSUME IsFiniteSet(Asg), OfficeInv, ShelfInv, NEW c \in Client, AssembleKitCommit(c)
  PROVE  ShelfInv'
<1> DEFINE items == inflight[c].items
           moves == [m \in Material |->
                       IF m \in items THEN Movement("ISSUE_TO_KIT", 1, -1, 0) ELSE NoMovement]
<1>1. PICK w \in Worker : RecordMovements(NoAsg, w, moves)  BY DEF AssembleKitCommit
<1>2. Finish(c) /\ UNCHANGED material  BY DEF AssembleKitCommit
<1>3. \A m \in Material : Meant(NoAsg, moves[m])
  BY DEF Meant, NoMovement, Movement, MovementType
<1>4. NoAsg \in Source  BY DEF Source
<1> HIDE DEF moves
<1> QED  BY <1>1, <1>2, <1>3, <1>4, RecordKeepsShelf, TrailStays, FinishLeft DEF ShelfInv

(* The removal of a material: what was left is written off, and it is      *)
(* erased only if nothing was ever moved.                                  *)
LEMMA RemovalKeepsShelf ==
  ASSUME IsFiniteSet(Asg), OfficeInv, ShelfInv, NEW c \in Client, RemoveCommit(c)
  PROVE  ShelfInv'
<1> DEFINE mat == inflight[c].mat
           left == inflight[c].left
<1>1. /\ mat \in Material /\ left \in Int
      /\ Finish(c)
      /\ IF left > 0 THEN RecordManual(mat, Movement("WRITE_OFF", left, -left, 0))
                     ELSE UNCHANGED <<shelf, home, moved>>
      /\ material' = [material EXCEPT ![mat] = IF HasHistory(mat) THEN "hidden" ELSE "erased"]
  BY DEF RemoveCommit, RemoveMaterialCommit, Running, OfficeInv, Fresh, FreshKit, ShelfInv,
         LeftIsNumber
<1> HIDE DEF mat, left
<1>2. /\ StockCounts'
      /\ \A m \in Material, s \in Source, t \in MovementType :
           material[m] = "erased" => moved'[s][m][t] = moved[s][m][t]
  <2>1. CASE left > 0
    <3>1. left \in Nat  BY <1>1, <2>1
    <3>2. Meant(NoAsg, Movement("WRITE_OFF", left, -left, 0))
      BY <3>1 DEF Meant, Movement, MovementType
    <3> QED  BY <1>1, <2>1, <3>2, ManualKeepsShelf DEF ShelfInv
  <2>2. CASE ~(left > 0)
    <3>1. UNCHANGED <<shelf, moved>>  BY <1>1, <2>2
    <3>2. StockCounts'
      BY <3>1 DEF ShelfInv, StockCounts, ShelfMatchesMovements, ShelfTotal
    <3> QED  BY <3>1, <3>2
  <2> QED  BY <2>1, <2>2
<1>3. NoTrail'
  <2> SUFFICES ASSUME NEW m \in Material, material'[m] = "erased",
                      NEW s \in Source, NEW t \in MovementType
               PROVE  moved'[s][m][t] = 0
    BY DEF NoTrail
  <2>1. moved'[s][m][t] \in Nat  BY <1>2 DEF StockCounts
  <2>2. material \in [Material -> {"listed", "hidden", "erased"}]  BY DEF OfficeInv
  <2>3. CASE m = mat
    <3>1. ~HasHistory(m)  BY <1>1, <2>2, <2>3
    <3> QED  BY <2>1, <3>1 DEF HasHistory
  <2>4. CASE m # mat
    <3>1. material[m] = "erased"  BY <1>1, <2>2, <2>4
    <3> QED  BY <1>2, <3>1 DEF ShelfInv, NoTrail
  <2> QED  BY <2>3, <2>4
<1> QED  BY <1>1, <1>2, <1>3, FinishLeft DEF ShelfInv

(* Every step keeps the shelf equal to the sum of its movements.           *)
LEMMA ShelfStep ==
  ASSUME IsFiniteSet(Asg)
  PROVE  OfficeInv /\ ShelfInv /\ [WarehouseNext]_warehouseVars => ShelfInv'
<1> SUFFICES ASSUME OfficeInv, ShelfInv, [WarehouseNext]_warehouseVars PROVE ShelfInv'
  OBVIOUS
<1>1. CASE BookByHand
  <2>1. PICK m \in Material, q \in 1..MaxManual :
          Receipt(m, q) \/ AdjustIn(m, q) \/ AdjustOut(m, q) \/ WriteOff(m, q)
    BY <1>1 DEF BookByHand
  <2>2. q \in Nat  BY StockAssumption
  <2>3. UNCHANGED <<material, inflight>>
    BY <2>1 DEF Receipt, AdjustIn, AdjustOut, WriteOff
  <2>4. /\ StockCounts'
        /\ \A x \in Material, s \in Source, t \in MovementType :
             material[x] = "erased" => moved'[s][x][t] = moved[s][x][t]
    BY <2>1, <2>2, BookingKeepsShelf DEF ShelfInv
  <2> QED  BY <2>3, <2>4, TrailStays DEF ShelfInv, LeftIsNumber
<1>2. ASSUME NEW s \in Supplier, BotLink(s) \/ BotUnlink(s) PROVE ShelfInv'
  <2>1. UNCHANGED <<stockVars, inflight>>  BY <1>2 DEF BotLink, BotUnlink
  <2> QED  BY <2>1, StillShelf DEF ShelfInv, LeftIsNumber
<1>3. CASE UNCHANGED warehouseVars
  <2>1. UNCHANGED <<stockVars, inflight>>  BY <1>3 DEF warehouseVars
  <2> QED  BY <2>1, StillShelf DEF ShelfInv, LeftIsNumber
<1> QED  BY <1>1, <1>2, <1>3, BeginsKeepShelf, CommitsKeepShelf, ReceiveKeepsShelf,
            AssembleKeepsShelf, RemovalKeepsShelf
         DEF WarehouseNext

(* At every moment.                                                        *)
LEMMA ShelfAlways ==
  ASSUME IsFiniteSet(Asg)
  PROVE  WarehouseSpec => []ShelfInv
<1>1. WarehouseInit => ShelfInv
  <2> SUFFICES ASSUME WarehouseInit PROVE ShelfInv  OBVIOUS
  <2>1. \A c \in Client : inflight[c] = NoHandler  BY DEF WarehouseInit, HandlersInit
  <2>2. LeftIsNumber  BY <2>1 DEF LeftIsNumber, NoHandler
  <2> QED  BY <2>2, ShelfOpens DEF WarehouseInit, ShelfInv
<1>2. OfficeInv /\ ShelfInv /\ [WarehouseNext]_warehouseVars => ShelfInv'  BY ShelfStep
<1> QED  BY <1>1, <1>2, Always, PTL DEF WarehouseSpec

(* stock_balances is what stock_movements add up to, whatever requests     *)
(* overlap and however many materials, orders and kits there are.          *)
THEOREM ShelfIsTheSum ==
  ASSUME IsFiniteSet(Asg)
  PROVE  WarehouseSpec => []ShelfMatchesMovements
<1>1. ShelfInv => ShelfMatchesMovements  BY DEF ShelfInv, StockCounts
<1> QED  BY <1>1, ShelfAlways, PTL

(* A material that is erased leaves no movement behind and nothing on the  *)
(* shelf, although its removal decides with what it read beforehand.       *)
THEOREM ErasedLeavesNothing ==
  ASSUME IsFiniteSet(Asg)
  PROVE  WarehouseSpec => []ErasedHasNoTrail
<1>1. ShelfInv => ErasedHasNoTrail
  BY NothingMovedNothingThere DEF ShelfInv, NoTrail, ErasedHasNoTrail
<1> QED  BY <1>1, ShelfAlways, PTL
=============================================================================
