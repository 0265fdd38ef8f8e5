---------------------------- MODULE OrderMoneyProofs ----------------------------
(***************************************************************************)
(* Proofs about OrderMoney, for any number of orders and requests, any     *)
(* carts and any precision of the amounts: its types, which totals an      *)
(* order is ever told with and how far they are from the exact price, and  *)
(* that nobody is told a part of an order.                                 *)
(*                                                                         *)
(* The first section is about sums.  A theorem about every sum takes       *)
(* induction; here it is over the subsets of the set that is summed over,  *)
(* one of which is the smallest that is wrong, if any is.                  *)
(***************************************************************************)
EXTENDS OrderMoney, FiniteSetTheorems, TLAPS

-----------------------------------------------------------------------------
(* Sums.  SumFunction takes one element after the other out of the domain. *)

\* The element that is taken out of s.
Pick(s) == CHOOSE x \in s : TRUE

\* What is left of s.
Rest(s) == s \ {Pick(s)}

\* The recursion of SumFunction, over the subsets of S.
Sums(f, S, g) == g = [s \in SUBSET S |-> IF s = {} THEN 0 ELSE f[Pick(s)] + g[Rest(s)]]

\* The sum of f over a subset of S.
SumOver(f, S, s) == (CHOOSE g : Sums(f, S, g))[s]

LEMMA SumIsSumOver ==
  ASSUME NEW f
  PROVE  SumFunction(f) = SumOver(f, DOMAIN f, DOMAIN f)
BY DEF SumFunction, SumFunctionOnSet, FoldFunctionOnSet, MapThenFoldSet, SumOver, Sums, Pick, Rest

LEMMA PickProperties ==
  ASSUME NEW s, s # {}
  PROVE  /\ Pick(s) \in s /\ s = {Pick(s)} \cup Rest(s)
         /\ Pick(s) \notin Rest(s) /\ Rest(s) \subseteq s
BY DEF Pick, Rest

\* Induction over the subsets of a finite set, in the order of the recursion:
\* among the subsets that are not in Good, one is smallest.
LEMMA SubsetInduction ==
  ASSUME NEW S, IsFiniteSet(S), NEW Good, {} \in Good,
         \A s \in SUBSET S : s # {} /\ Rest(s) \in Good => s \in Good
  PROVE  \A s \in SUBSET S : s \in Good
<1> DEFINE Bad == {s \in SUBSET S : s \notin Good}
<1> SUFFICES ASSUME Bad # {}
             PROVE  FALSE
  OBVIOUS
<1>1. IsWellFoundedOn(StrictSubsetOrdering(S), SUBSET S)
  <2>1. FiniteSubsetsOf(S) = SUBSET S
    BY FS_FiniteSubsetsOfFinite
  <2>2. IsWellFoundedOn(StrictSubsetOrdering(S), FiniteSubsetsOf(S))
    BY FS_StrictSubsetOrderingWellFounded
  <2>3. QED
    BY <2>1, <2>2
<1>2. Bad \subseteq SUBSET S
  OBVIOUS
<1> HIDE DEF Bad
<1>3. PICK s \in Bad : \A t \in Bad : ~(<<t, s>> \in StrictSubsetOrdering(S))
  BY <1>1, <1>2, WFMin
<1> USE DEF Bad
<1>4. s # {} /\ s \in SUBSET S /\ s \notin Good
  BY <1>3
<1>5. Rest(s) \in SUBSET S /\ Rest(s) \subseteq s /\ Rest(s) # s
  BY <1>4, PickProperties
<1>6. <<Rest(s), s>> \in StrictSubsetOrdering(S)
  BY <1>4, <1>5 DEF StrictSubsetOrdering
<1>7. QED
  BY <1>3, <1>4, <1>5, <1>6

\* The sum of f over s, counted out: f[x] pairs for every x.
Units(f, s) == {p \in s \X Nat : 1 <= p[2] /\ p[2] <= f[p[1]]}

LEMMA NoUnits ==
  ASSUME NEW f
  PROVE  IsFiniteSet(Units(f, {})) /\ Cardinality(Units(f, {})) = 0
<1>1. Units(f, {}) = {}
  BY DEF Units
<1>2. QED
  BY <1>1, FS_EmptySet

LEMMA IntervalFinite ==
  ASSUME NEW n \in Nat
  PROVE  IsFiniteSet(1..n) /\ Cardinality(1..n) = n
<1>1. IsFiniteSet(1..n) /\ Cardinality(1..n) = IF 1 > n THEN 0 ELSE n - 1 + 1
  BY FS_Interval
<1>2. QED
  BY <1>1

\* The units of an element are counted apart from those of the rest.
LEMMA UnitsOfPick ==
  ASSUME NEW S, NEW f \in [S -> Nat], NEW s \in SUBSET S, s # {}, IsFiniteSet(Units(f, Rest(s)))
  PROVE  /\ IsFiniteSet(Units(f, s))
         /\ Cardinality(Units(f, s)) = f[Pick(s)] + Cardinality(Units(f, Rest(s)))
<1> DEFINE x == Pick(s)
           old == Units(f, Rest(s))
           new == {x} \X (1..f[x])
<1>1. x \in s /\ s = {x} \cup Rest(s) /\ x \notin Rest(s) /\ f[x] \in Nat
  BY PickProperties
<1>2. IsFiniteSet(new) /\ Cardinality(new) = f[x]
  <2>1. IsFiniteSet(1..f[x]) /\ Cardinality(1..f[x]) = f[x]
    BY <1>1, IntervalFinite
  <2>2. IsFiniteSet({x}) /\ Cardinality({x}) = 1
    BY FS_Singleton
  <2>3. IsFiniteSet(new) /\ Cardinality(new) = Cardinality({x}) * Cardinality(1..f[x])
    <3> HIDE DEF x
    <3>1. QED
      BY <2>1, <2>2, FS_Product
  <2>4. QED
    BY <1>1, <2>1, <2>2, <2>3
<1> HIDE DEF x
<1>3. Units(f, s) = new \cup old /\ new \cap old = {}
  BY <1>1 DEF Units
<1> HIDE DEF new, old
<1>4. IsFiniteSet(old) /\ Cardinality(old) \in Nat
  BY FS_CardinalityType DEF old
<1>5. /\ IsFiniteSet(new \cup old)
      /\ Cardinality(new \cup old) = Cardinality(new) + Cardinality(old) - Cardinality(new \cap old)
  BY <1>2, <1>4, FS_Union
<1>6. Cardinality(new \cap old) = 0
  BY <1>3, FS_EmptySet
<1>7. QED
  BY <1>1, <1>2, <1>3, <1>4, <1>5, <1>6 DEF x, old

LEMMA UnitsFinite ==
  ASSUME NEW S, IsFiniteSet(S), NEW f \in [S -> Nat]
  PROVE  \A s \in SUBSET S : IsFiniteSet(Units(f, s))
<1> DEFINE Good == {s \in SUBSET S : IsFiniteSet(Units(f, s))}
<1>1. {} \in Good
  BY NoUnits
<1>2. \A s \in SUBSET S : s # {} /\ Rest(s) \in Good => s \in Good
  BY UnitsOfPick
<1> HIDE DEF Good
<1>3. \A s \in SUBSET S : s \in Good
  BY <1>1, <1>2, SubsetInduction
<1>4. QED
  BY <1>3 DEF Good

\* So the recursion has a solution, and SumOver is one.
LEMMA SumOverStep ==
  ASSUME NEW S, IsFiniteSet(S), NEW f \in [S -> Nat]
  PROVE  /\ SumOver(f, S, {}) = 0
         /\ \A s \in SUBSET S : s # {} => SumOver(f, S, s) = f[Pick(s)] + SumOver(f, S, Rest(s))
<1> DEFINE count == [s \in SUBSET S |-> Cardinality(Units(f, s))]
           sum == CHOOSE g : Sums(f, S, g)
<1>1. \A s \in SUBSET S : s # {} => Rest(s) \in SUBSET S
  BY PickProperties
<1>2. \A s \in SUBSET S : s # {} => count[s] = f[Pick(s)] + count[Rest(s)]
  BY <1>1, UnitsOfPick, UnitsFinite
<1>3. count[{}] = 0 /\ count = [s \in SUBSET S |-> count[s]]
  BY NoUnits
<1> HIDE DEF count
<1>4. Sums(f, S, count)
  BY <1>2, <1>3 DEF Sums
<1>5. Sums(f, S, sum)
  BY <1>4
<1> HIDE DEF sum
<1>6. sum[{}] = 0 /\ \A s \in SUBSET S : s # {} => sum[s] = f[Pick(s)] + sum[Rest(s)]
  BY <1>5 DEF Sums
<1>7. QED
  BY <1>6 DEF SumOver, sum

LEMMA SumOverNat ==
  ASSUME NEW S, IsFiniteSet(S), NEW f \in [S -> Nat]
  PROVE  \A s \in SUBSET S : SumOver(f, S, s) \in Nat
<1> DEFINE Good == {s \in SUBSET S : SumOver(f, S, s) \in Nat}
<1>1. {} \in Good
  BY SumOverStep
<1>2. ASSUME NEW s \in SUBSET S, s # {}, Rest(s) \in Good
      PROVE  s \in Good
  <2>1. SumOver(f, S, s) = f[Pick(s)] + SumOver(f, S, Rest(s))
    BY <1>2, SumOverStep
  <2>2. f[Pick(s)] \in Nat
    BY <1>2, PickProperties
  <2>3. QED
    BY <1>2, <2>1, <2>2
<1> HIDE DEF Good
<1>3. \A s \in SUBSET S : s \in Good
  BY <1>1, <1>2, SubsetInduction
<1>4. QED
  BY <1>3 DEF Good

LEMMA Distributive ==
  ASSUME NEW a \in Nat, NEW m \in Nat, NEW n \in Nat
  PROVE  a * (m + n) = a * m + a * n
OBVIOUS

LEMMA BoundsAdd ==
  ASSUME NEW a \in Nat, NEW b \in Nat, NEW c \in Nat,
         NEW p \in Nat, NEW q \in Nat, NEW r \in Nat,
         NEW F \in Nat, NEW G \in Nat, NEW H \in Nat,
         a * p <= b * q + c * r, a * F <= b * G + c * H
  PROVE  a * (p + F) <= b * (q + G) + c * (r + H)
<1>1. a * (p + F) = a * p + a * F
  BY Distributive
<1>2. b * (q + G) = b * q + b * G
  BY Distributive
<1>3. c * (r + H) = c * r + c * H
  BY Distributive
<1>4. \A x, y \in Nat : x * y \in Nat
  OBVIOUS
<1>5. \A u, v, w, x, y, z \in Nat : u <= v + w /\ x <= y + z => u + x <= (v + y) + (w + z)
  OBVIOUS
<1>6. QED
  BY <1>1, <1>2, <1>3, <1>4, <1>5

\* A bound on every element is one on the sum.
LEMMA SumsCompare ==
  ASSUME NEW n \in Nat, NEW f \in [1..n -> Nat], NEW g \in [1..n -> Nat], NEW h \in [1..n -> Nat],
         NEW a \in Nat, NEW b \in Nat, NEW c \in Nat,
         \A x \in 1..n : a * f[x] <= b * g[x] + c * h[x]
  PROVE  /\ SumFunction(f) \in Nat /\ SumFunction(g) \in Nat /\ SumFunction(h) \in Nat
         /\ a * SumFunction(f) <= b * SumFunction(g) + c * SumFunction(h)
<1> DEFINE S == 1..n
           Good == {s \in SUBSET S :
                      a * SumOver(f, S, s) <= b * SumOver(g, S, s) + c * SumOver(h, S, s)}
<1>1. IsFiniteSet(S) /\ f \in [S -> Nat] /\ g \in [S -> Nat] /\ h \in [S -> Nat]
      /\ DOMAIN f = S /\ DOMAIN g = S /\ DOMAIN h = S
  BY IntervalFinite
<1>1a. \A x \in S : a * f[x] <= b * g[x] + c * h[x]
  OBVIOUS
<1> HIDE DEF S
<1>2. {} \in Good
  <2>1. SumOver(f, S, {}) = 0 /\ SumOver(g, S, {}) = 0 /\ SumOver(h, S, {}) = 0
    BY <1>1, SumOverStep
  <2>2. QED
    BY <2>1
<1>3. ASSUME NEW s \in SUBSET S, s # {}, Rest(s) \in Good
      PROVE  s \in Good
  <2>1. Pick(s) \in S /\ Rest(s) \in SUBSET S
    BY <1>3, PickProperties
  <2> DEFINE x == Pick(s)
             F == SumOver(f, S, Rest(s))
             G == SumOver(g, S, Rest(s))
             H == SumOver(h, S, Rest(s))
  <2>2. F \in Nat /\ G \in Nat /\ H \in Nat
    BY <1>1, <2>1, SumOverNat
  <2>3. f[x] \in Nat /\ g[x] \in Nat /\ h[x] \in Nat
    BY <1>1, <2>1
  <2>4. /\ SumOver(f, S, s) = f[x] + F
        /\ SumOver(g, S, s) = g[x] + G
        /\ SumOver(h, S, s) = h[x] + H
    BY <1>1, <1>3, SumOverStep
  <2>5. a * F <= b * G + c * H
    BY <1>3
  <2>6. a * f[x] <= b * g[x] + c * h[x]
    BY <1>1a, <2>1
  <2> HIDE DEF x, F, G, H
  <2>7. a * (f[x] + F) <= b * (g[x] + G) + c * (h[x] + H)
    BY <2>2, <2>3, <2>5, <2>6, BoundsAdd
  <2>8. QED
    BY <1>3, <2>4, <2>7
<1> HIDE DEF Good
<1>4. \A s \in SUBSET S : s \in Good
  BY <1>1, <1>2, <1>3, SubsetInduction
<1>5. S \in Good
  BY <1>4
<1>6. QED
  BY <1>1, <1>5, SumOverNat, SumIsSumOver DEF Good

-----------------------------------------------------------------------------
(* The inductive invariant *)

\* The lines with which the Order of o was made.
Made(o) == IF via[o] = "checkout" THEN Priced(asked[o]) ELSE asked[o]

\* What the table keeps of some lines.
Kept(lines) == [i \in DOMAIN lines |-> StoredLine(lines[i])]

\* The lines that o may be told with: as made, and as kept.
Versions(o) == {Made(o), Kept(Made(o))}

\* An Order with some lines, its total recomputed.
Of(lines) == [total |-> Total(lines), lines |-> lines]

MoneyTypes ==
  /\ stored \subseteq Orders
  /\ total = [o \in Orders |-> total[o]]
  /\ items = [o \in Orders |-> items[o]]
  /\ pc \in [Requests -> PCs]
  /\ entity = [r \in Requests |-> entity[r]]
  /\ \A r \in Requests : InMemory(r) \subseteq Orders
  /\ inserted \in [Requests -> Seq(Line)]
  /\ asked \in [Orders -> Seq(Line)]
  /\ via = [o \in Orders |-> via[o]]

\* An order that was asked for is stored with the lines kept, and it is only
\* told, and only counted, with lines as made or as kept.
OrderOK(o) ==
  /\ asked[o] = <<>> => o \notin stored
  /\ o \in stored =>
       /\ items[o] = Kept(Made(o))
       /\ \E lines \in Versions(o) : total[o] = Round(Total(lines))
  /\ \A a \in told[o] : o \in stored /\ \E lines \in Versions(o) : a = Shown(Of(lines))

\* What r's transaction has inserted so far: the first lines, as kept.
Copied(r, o) ==
  /\ Len(inserted[r]) <= Len(Made(o))
  /\ \A i \in 1..Len(inserted[r]) : inserted[r][i] = StoredLine(Made(o)[i])

\* What r has in memory of o: the order as made while it is inserted; only its
\* row between the two queries; the lines as kept after them.
Holds(r, o) ==
  /\ asked[o] # <<>>
  /\ pc[r] \in {"row", "lines"} => entity[r][o] = Of(Made(o)) /\ Copied(r, o)
  /\ pc[r] \in {"items", "write", "tell"} => o \in stored
  /\ pc[r] = "items" => entity[r][o] = [total |-> entity[r][o].total, lines |-> <<>>]
  /\ pc[r] = "write" => entity[r][o] = Of(Kept(Made(o)))
  /\ pc[r] = "tell" => \E lines \in Versions(o) : entity[r][o] = Of(lines)

RequestOK(r) ==
  /\ pc[r] \in {"idle", "row"} => inserted[r] = <<>>
  /\ pc[r] = "idle" => InMemory(r) = {}
  /\ pc[r] \in {"row", "lines"} => \A o, p \in InMemory(r) : o = p
  /\ \A o \in InMemory(r) : Holds(r, o)

MInv ==
  /\ MoneyTypes
  /\ \A o \in Orders : OrderOK(o)
  /\ \A r \in Requests : RequestOK(r)

-----------------------------------------------------------------------------
(* Amounts and lines *)

LEMMA DivExact ==
  ASSUME NEW k \in Nat, NEW d \in Nat \ {0}, NEW r \in Nat, r < d
  PROVE  (k * d + r) \div d = k
BY SMTT(30)

\* Amounts in whole cents stay as they are when they are rounded.
LEMMA RoundExact ==
  ASSUME NEW k \in Nat
  PROVE  Round(k * Cent) = k * Cent
<1>1. 2 * Cent \in Nat \ {0} /\ Cent \in Nat /\ Cent < 2 * Cent
  BY CentAssumption
<1>2. (k * (2 * Cent) + Cent) \div (2 * Cent) = k
  BY <1>1, DivExact
<1>3. 2 * (k * Cent) + Cent = k * (2 * Cent) + Cent
  BY <1>1
<1>4. QED
  BY <1>2, <1>3 DEF Round

LEMMA DivNat ==
  ASSUME NEW x \in Nat, NEW d \in Nat \ {0}
  PROVE  x \div d \in Nat
BY SMTT(30)

LEMMA DivBounds ==
  ASSUME NEW x \in Nat, NEW d \in Nat \ {0}
  PROVE  (x \div d) * d <= x /\ x < (x \div d) * d + d
BY SMTT(30)

LEMMA RoundTwice ==
  ASSUME NEW x \in Nat
  PROVE  Round(x) \in Nat /\ Round(Round(x)) = Round(x)
<1> DEFINE k == (2 * x + Cent) \div (2 * Cent)
<1>1. 2 * x + Cent \in Nat /\ 2 * Cent \in Nat \ {0} /\ Cent \in Nat
  BY CentAssumption
<1>2. k \in Nat
  BY <1>1, DivNat
<1>3. Round(x) = k * Cent
  BY DEF Round
<1> HIDE DEF k
<1>4. PICK n \in Nat : n = k * Cent
  BY <1>1, <1>2
<1>5. Round(n) = n
  BY <1>2, <1>4, RoundExact
<1>6. Round(x) = n
  BY <1>3, <1>4
<1>7. QED
  BY <1>5, <1>6

\* The line with its price rounded.
LEMMA StoredRecord ==
  ASSUME NEW n, NEW price
  PROVE  StoredLine([quantity |-> n, unitPrice |-> price]) =
           [quantity |-> n, unitPrice |-> Round(price)]
BY DEF StoredLine

\* A stored line is a line, and one of whole cents is stored as it is.
LEMMA StoredLineType ==
  ASSUME NEW line \in Line
  PROVE  /\ StoredLine(line) \in Line
         /\ StoredLine(line).quantity = line.quantity
         /\ StoredLine(StoredLine(line)) = StoredLine(line)
<1>1. /\ StoredLine(line) = [quantity |-> line.quantity, unitPrice |-> Round(line.unitPrice)]
      /\ line.quantity \in Nat \ {0} /\ line.unitPrice \in Nat
  BY DEF StoredLine, Line
<1>2. Round(line.unitPrice) \in Nat /\ Round(Round(line.unitPrice)) = Round(line.unitPrice)
  BY <1>1, RoundTwice
<1>3. StoredLine(line) \in Line
  BY <1>1, <1>2 DEF Line
<1>4. StoredLine(StoredLine(line)) =
        [quantity |-> line.quantity, unitPrice |-> Round(Round(line.unitPrice))]
  BY <1>1, StoredRecord
<1>5. QED
  BY <1>1, <1>2, <1>3, <1>4

\* What is kept of some lines is as long, and the same in number of units.
LEMMA KeptLines ==
  ASSUME NEW lines \in Seq(Line)
  PROVE  /\ Kept(lines) \in Seq(Line) /\ Len(Kept(lines)) = Len(lines)
         /\ \A i \in 1..Len(lines) :
              Kept(lines)[i] = StoredLine(lines[i]) /\ Kept(lines)[i].quantity = lines[i].quantity
         /\ Kept(Kept(lines)) = Kept(lines)
<1>1. DOMAIN lines = 1..Len(lines) /\ Len(lines) \in Nat /\ \A i \in 1..Len(lines) : lines[i] \in Line
  OBVIOUS
<1>2. Kept(lines) = [i \in 1..Len(lines) |-> StoredLine(lines[i])]
  BY <1>1 DEF Kept
<1>3. Kept(lines) \in Seq(Line) /\ Len(Kept(lines)) = Len(lines) /\ DOMAIN Kept(lines) = 1..Len(lines)
  BY <1>1, <1>2, StoredLineType
<1>4. \A i \in 1..Len(lines) :
        /\ Kept(lines)[i] = StoredLine(lines[i]) /\ Kept(lines)[i].quantity = lines[i].quantity
        /\ StoredLine(Kept(lines)[i]) = Kept(lines)[i]
  BY <1>1, <1>2, StoredLineType
<1>5. Kept(Kept(lines)) = [i \in 1..Len(lines) |-> StoredLine(Kept(lines)[i])]
  BY <1>3 DEF Kept
<1>6. Kept(Kept(lines)) = Kept(lines)
  BY <1>2, <1>4, <1>5
<1>7. QED
  BY <1>3, <1>4, <1>6

\* A checkout makes an order from the lines as the table keeps them.
LEMMA PricedIsKept ==
  ASSUME NEW cart \in Seq(Line)
  PROVE  Priced(cart) = Kept(cart)
BY DEF Priced, Kept, StoredLine

\* The lines of an order, as made and as kept, are those asked for.
LEMMA MadeLines ==
  ASSUME MoneyTypes, NEW o \in Orders
  PROVE  /\ Made(o) \in Seq(Line) /\ Kept(Made(o)) \in Seq(Line)
         /\ \A lines \in Versions(o) :
              /\ lines \in Seq(Line) /\ Len(lines) = Len(asked[o])
              /\ \A i \in 1..Len(lines) : lines[i].quantity = asked[o][i].quantity
         /\ via[o] = "checkout" => Kept(Made(o)) = Made(o)
<1>1. asked[o] \in Seq(Line)
  BY DEF MoneyTypes
<1>2. Made(o) = asked[o] \/ Made(o) = Kept(asked[o])
  BY <1>1, PricedIsKept DEF Made
<1>3. via[o] = "checkout" => Made(o) = Kept(asked[o])
  BY <1>1, PricedIsKept DEF Made
<1>4. Made(o) \in Seq(Line)
  BY <1>1, <1>2, KeptLines
<1>5. /\ Len(Made(o)) = Len(asked[o])
      /\ \A i \in 1..Len(asked[o]) : Made(o)[i].quantity = asked[o][i].quantity
  BY <1>1, <1>2, KeptLines
<1>6. /\ Kept(Made(o)) \in Seq(Line) /\ Len(Kept(Made(o))) = Len(asked[o])
      /\ \A i \in 1..Len(asked[o]) : Kept(Made(o))[i].quantity = asked[o][i].quantity
  BY <1>4, <1>5, KeptLines
<1>7. via[o] = "checkout" => Kept(Made(o)) = Made(o)
  BY <1>1, <1>3, KeptLines
<1>8. QED
  BY <1>4, <1>5, <1>6, <1>7 DEF Versions

\* The total of an Order is recomputed when its lines are set.
LEMMA RecalculatedIsOf ==
  ASSUME NEW lines, NEW n
  PROVE  Recalculated([[total |-> n, lines |-> <<>>] EXCEPT !.lines = lines]) = Of(lines)
<1> DEFINE e == [[total |-> n, lines |-> <<>>] EXCEPT !.lines = lines]
<1>1. e = [total |-> n, lines |-> lines]
  OBVIOUS
<1>2. Recalculated(e) = [e EXCEPT !.total = Total(lines)]
  BY <1>1 DEF Recalculated
<1>3. QED
  BY <1>1, <1>2 DEF Of

-----------------------------------------------------------------------------
(* The invariant *)

LEMMA InitMInv == Init => MInv
BY DEF Init, MInv, MoneyTypes, PCs, InMemory, NothingInMemory, OrderOK, RequestOK

\* What is made and kept of an order stays, once it was asked for.
LEMMA VersionsStay ==
  ASSUME NEW o \in Orders, asked'[o] = asked[o], via'[o] = via[o]
  PROVE  Made(o)' = Made(o) /\ Versions(o)' = Versions(o)
BY DEF Made, Versions

\* An order that nobody touches stays as it should be.
LEMMA OrderStays ==
  ASSUME NEW o \in Orders, OrderOK(o), asked'[o] = asked[o], via'[o] = via[o],
         o \in stored' <=> o \in stored, items'[o] = items[o], total'[o] = total[o],
         told'[o] = told[o]
  PROVE  OrderOK(o)'
BY VersionsStay DEF OrderOK

\* So does a request that takes no step, whatever others store.
LEMMA RequestStays ==
  ASSUME MoneyTypes, NEW r \in Requests, RequestOK(r),
         pc'[r] = pc[r], entity'[r] = entity[r], inserted'[r] = inserted[r],
         stored \subseteq stored',
         \A o \in InMemory(r) : asked'[o] = asked[o] /\ via'[o] = via[o]
  PROVE  RequestOK(r)'
<1>1. InMemory(r)' = InMemory(r) /\ InMemory(r) \subseteq Orders
  BY DEF InMemory, MoneyTypes
<1>2. ASSUME NEW o \in InMemory(r)
      PROVE  Holds(r, o)'
  <2>1. Made(o)' = Made(o) /\ Versions(o)' = Versions(o) /\ asked'[o] = asked[o]
    BY <1>1, <1>2, VersionsStay
  <2>2. Holds(r, o)
    BY <1>2 DEF RequestOK
  <2>3. Copied(r, o)' <=> Copied(r, o)
    BY <2>1 DEF Copied
  <2>4. QED
    BY <2>1, <2>2, <2>3 DEF Holds
<1>3. QED
  BY <1>1, <1>2 DEF RequestOK

\* A request that ends has nothing in memory any more.
LEMMA EndRequest ==
  ASSUME MInv, NEW r \in Requests, End(r), stored \subseteq stored', UNCHANGED <<asked, via>>
  PROVE  /\ pc' \in [Requests -> PCs] /\ entity' = [q \in Requests |-> entity'[q]]
         /\ inserted' \in [Requests -> Seq(Line)]
         /\ \A q \in Requests : InMemory(q)' \subseteq Orders /\ RequestOK(q)'
<1>1. /\ pc' = [pc EXCEPT ![r] = "idle"] /\ inserted' = [inserted EXCEPT ![r] = <<>>]
      /\ entity' = [entity EXCEPT ![r] = NothingInMemory]
      /\ pc \in [Requests -> PCs] /\ inserted \in [Requests -> Seq(Line)]
      /\ entity = [q \in Requests |-> entity[q]]
  BY DEF End, Goto, MInv, MoneyTypes
<1>2. /\ pc' \in [Requests -> PCs] /\ inserted' \in [Requests -> Seq(Line)]
      /\ entity' = [q \in Requests |-> entity'[q]]
  <2>1. pc' \in [Requests -> PCs]
    BY <1>1 DEF PCs
  <2>2. <<>> \in Seq(Line)
    OBVIOUS
  <2>3. inserted' \in [Requests -> Seq(Line)]
    BY <1>1, <2>2
  <2>4. entity' = [q \in Requests |-> entity'[q]]
    BY <1>1
  <2>5. QED
    BY <2>1, <2>3, <2>4
<1>3. pc'[r] = "idle" /\ inserted'[r] = <<>> /\ entity'[r] = NothingInMemory
  BY <1>1
<1>4. InMemory(r)' = {}
  BY <1>3 DEF InMemory, NothingInMemory
<1>5. RequestOK(r)'
  BY <1>3, <1>4 DEF RequestOK
<1>6. ASSUME NEW q \in Requests, q # r
      PROVE  InMemory(q)' \subseteq Orders /\ RequestOK(q)'
  <2>1. pc'[q] = pc[q] /\ entity'[q] = entity[q] /\ inserted'[q] = inserted[q]
    BY <1>1, <1>6
  <2>2. RequestOK(q)'
    BY <2>1, RequestStays DEF MInv
  <2>3. QED
    BY <2>1, <2>2 DEF InMemory, MInv, MoneyTypes
<1>7. QED
  BY <1>2, <1>4, <1>5, <1>6

\* A request takes a step, and what is stored and told stays, or grows.
LEMMA StepRequest ==
  ASSUME MInv, NEW r \in Requests, UNCHANGED <<asked, via>>, stored \subseteq stored',
         NEW label \in PCs, NEW es, NEW copy \in Seq(Line),
         pc' = [pc EXCEPT ![r] = label], entity' = [entity EXCEPT ![r] = es],
         inserted' = [inserted EXCEPT ![r] = copy],
         DOMAIN es \subseteq Orders, RequestOK(r)'
  PROVE  /\ pc' \in [Requests -> PCs] /\ entity' = [q \in Requests |-> entity'[q]]
         /\ inserted' \in [Requests -> Seq(Line)]
         /\ \A q \in Requests : InMemory(q)' \subseteq Orders /\ RequestOK(q)'
<1>1. /\ pc \in [Requests -> PCs] /\ inserted \in [Requests -> Seq(Line)]
      /\ entity = [q \in Requests |-> entity[q]]
  BY DEF MInv, MoneyTypes
<1>2. /\ pc' \in [Requests -> PCs] /\ inserted' \in [Requests -> Seq(Line)]
      /\ entity' = [q \in Requests |-> entity'[q]] /\ entity'[r] = es
  BY <1>1
<1>3. ASSUME NEW q \in Requests, q # r
      PROVE  InMemory(q)' \subseteq Orders /\ RequestOK(q)'
  <2>1. pc'[q] = pc[q] /\ entity'[q] = entity[q] /\ inserted'[q] = inserted[q]
    BY <1>1, <1>3
  <2>2. RequestOK(q)'
    BY <2>1, RequestStays DEF MInv
  <2>3. QED
    BY <2>1, <2>2 DEF InMemory, MInv, MoneyTypes
<1>4. QED
  BY <1>2, <1>3 DEF InMemory
-----------------------------------------------------------------------------
(* An order is placed *)

LEMMA SubmitMInv ==
  ASSUME MInv, NEW r \in Requests, NEW o \in Orders, NEW cart \in Carts,
         NEW how \in {"api", "checkout"}, Submit(r, o, cart, how)
  PROVE  MInv'
<1> DEFINE lines == IF how = "checkout" THEN Priced(cart) ELSE cart
<1>1. cart \in Seq(Line) /\ cart # <<>>
  BY CartsAssumption
<1>2. /\ pc[r] = "idle" /\ asked[o] = <<>>
      /\ pc' = [pc EXCEPT ![r] = "row"]
      /\ entity' = [entity EXCEPT ![r] = [p \in {o} |-> Recalculated([Blank EXCEPT !.lines = lines])]]
      /\ asked' = [asked EXCEPT ![o] = cart] /\ via' = [via EXCEPT ![o] = how]
      /\ UNCHANGED <<stored, total, items, inserted, told>>
  BY DEF Submit, Goto
<1>3. asked'[o] = cart /\ via'[o] = how /\ asked' \in [Orders -> Seq(Line)]
      /\ via' = [p \in Orders |-> via'[p]]
  BY <1>1, <1>2 DEF MInv, MoneyTypes
<1>4. Made(o)' = lines
  BY <1>3 DEF Made
<1> HIDE DEF lines
<1>5. Recalculated([Blank EXCEPT !.lines = lines]) = Of(lines)
  BY RecalculatedIsOf DEF Blank
<1>6. /\ pc'[r] = "row" /\ pc' \in [Requests -> PCs]
      /\ entity'[r] = [p \in {o} |-> Of(lines)] /\ entity' = [q \in Requests |-> entity'[q]]
  BY <1>2, <1>5 DEF MInv, MoneyTypes, PCs
<1>7. ASSUME NEW p \in Orders
      PROVE  OrderOK(p)'
  <2>1. CASE p # o
    <3>1. asked'[p] = asked[p] /\ via'[p] = via[p]
      BY <1>2, <2>1 DEF MInv, MoneyTypes
    <3>2. QED
      BY <1>2, <3>1, OrderStays DEF MInv
  <2>2. CASE p = o
    <3>1. o \notin stored /\ told[o] = {}
      BY <1>2 DEF MInv, OrderOK
    <3>2. QED
      BY <1>2, <2>2, <3>1 DEF OrderOK
  <2>3. QED
    BY <2>1, <2>2
<1>8. ASSUME NEW q \in Requests, q # r
      PROVE  InMemory(q)' \subseteq Orders /\ RequestOK(q)'
  <2>1. pc'[q] = pc[q] /\ entity'[q] = entity[q] /\ inserted'[q] = inserted[q]
    BY <1>2, <1>8 DEF MInv, MoneyTypes
  <2>2. InMemory(q) \subseteq Orders /\ o \notin InMemory(q)
    BY <1>2 DEF MInv, MoneyTypes, RequestOK, Holds
  <2>3. \A p \in InMemory(q) : asked'[p] = asked[p] /\ via'[p] = via[p]
    BY <1>2, <2>2 DEF MInv, MoneyTypes
  <2>4. RequestOK(q)'
    BY <1>2, <2>1, <2>3, RequestStays DEF MInv
  <2>5. QED
    BY <2>1, <2>2, <2>4 DEF InMemory
<1>9. InMemory(r)' = {o} /\ RequestOK(r)'
  <2>1. InMemory(r)' = {o} /\ entity'[r][o] = Of(lines)
    BY <1>6 DEF InMemory
  <2>2. inserted'[r] = <<>>
    BY <1>2 DEF MInv, RequestOK
  <2>3. Made(o)' \in Seq(Line)
    <3>1. lines \in Seq(Line)
      BY <1>1, KeptLines, PricedIsKept DEF lines
    <3>2. QED
      BY <1>4, <3>1
  <2>4. Copied(r, o)'
    BY <2>2, <2>3 DEF Copied
  <2>5. Holds(r, o)'
    BY <1>1, <1>3, <1>4, <1>6, <2>1, <2>4 DEF Holds
  <2>6. QED
    BY <1>6, <2>1, <2>2, <2>5 DEF RequestOK
<1>10. MoneyTypes'
  BY <1>2, <1>3, <1>6, <1>8, <1>9 DEF MInv, MoneyTypes
<1>11. QED
  BY <1>7, <1>8, <1>9, <1>10 DEF MInv

\* A request takes a step, and no order is stored, counted or told anew.
LEMMA QuietStep ==
  ASSUME MInv, NEW r \in Requests, UNCHANGED <<stored, total, items, asked, via, told>>,
         NEW label \in PCs, NEW es, NEW copy \in Seq(Line),
         pc' = [pc EXCEPT ![r] = label], entity' = [entity EXCEPT ![r] = es],
         inserted' = [inserted EXCEPT ![r] = copy],
         DOMAIN es \subseteq Orders, RequestOK(r)'
  PROVE  MInv'
<1>1. \A o \in Orders : OrderOK(o)'
  BY OrderStays DEF MInv
<1>2. /\ pc' \in [Requests -> PCs] /\ entity' = [q \in Requests |-> entity'[q]]
      /\ inserted' \in [Requests -> Seq(Line)]
      /\ \A q \in Requests : InMemory(q)' \subseteq Orders /\ RequestOK(q)'
  BY StepRequest
<1>3. MoneyTypes'
  BY <1>2 DEF MInv, MoneyTypes
<1>4. QED
  BY <1>1, <1>2, <1>3 DEF MInv

\* What r has in memory stays, and so do the orders.
LEMMA HoldsStays ==
  ASSUME NEW r \in Requests, entity'[r] = entity[r], UNCHANGED <<asked, via>>
  PROVE  InMemory(r)' = InMemory(r) /\ \A o : Made(o)' = Made(o) /\ Versions(o)' = Versions(o)
BY DEF InMemory, Made, Versions

LEMMA InsertRowMInv ==
  ASSUME MInv, NEW r \in Requests, NEW o \in Orders, InsertRow(r, o)
  PROVE  MInv'
<1>1. /\ pc[r] = "row" /\ pc' = [pc EXCEPT ![r] = "lines"]
      /\ UNCHANGED <<stored, total, items, op, entity, inserted, asked, via, told>>
  BY DEF InsertRow, Goto
<1>2. pc'[r] = "lines" /\ "lines" \in PCs
  BY <1>1 DEF MInv, MoneyTypes, PCs
<1>3. \A p : Copied(r, p)' <=> Copied(r, p)
  BY <1>1, HoldsStays DEF Copied
<1>4. RequestOK(r)'
  BY <1>1, <1>2, <1>3, HoldsStays DEF MInv, RequestOK, Holds
<1>5. /\ entity' = [entity EXCEPT ![r] = entity[r]] /\ DOMAIN entity[r] \subseteq Orders
      /\ inserted' = [inserted EXCEPT ![r] = inserted[r]] /\ inserted[r] \in Seq(Line)
  BY <1>1 DEF MInv, MoneyTypes, InMemory
<1>6. QED
  BY <1>1, <1>2, <1>4, <1>5, QuietStep

LEMMA InsertLineMInv ==
  ASSUME MInv, NEW r \in Requests, NEW o \in Orders, InsertLine(r, o)
  PROVE  MInv'
<1> DEFINE done == inserted[r]
           line == StoredLine(entity[r][o].lines[Len(done) + 1])
<1>1. /\ pc[r] = "lines" /\ o \in InMemory(r) /\ Len(done) < Len(entity[r][o].lines)
      /\ inserted' = [inserted EXCEPT ![r] = Append(done, line)]
      /\ UNCHANGED <<stored, total, items, pc, op, entity, asked, via, told>>
  BY DEF InsertLine
<1>2. entity[r][o].lines = Made(o) /\ Copied(r, o)
  <2>1. entity[r][o] = Of(Made(o)) /\ Copied(r, o)
    BY <1>1 DEF MInv, RequestOK, Holds
  <2>2. QED
    BY <2>1 DEF Of
<1>3. Made(o) \in Seq(Line) /\ done \in Seq(Line) /\ Len(done) \in Nat
  BY MadeLines DEF MInv, MoneyTypes
<1>4. Len(done) + 1 \in 1..Len(Made(o))
  BY <1>1, <1>2, <1>3
<1>5. line = StoredLine(Made(o)[Len(done) + 1]) /\ line \in Line
  BY <1>2, <1>3, <1>4, StoredLineType
<1> HIDE DEF line
<1>6. Append(done, line) \in Seq(Line) /\ inserted'[r] = Append(done, line)
  BY <1>1, <1>3, <1>5 DEF MInv, MoneyTypes
<1>7. Copied(r, o)'
  <2>1. Len(inserted'[r]) = Len(done) + 1
    BY <1>3, <1>6
  <2>2. \A i \in 1..Len(done) : inserted'[r][i] = done[i] /\ done[i] = StoredLine(Made(o)[i])
    BY <1>2, <1>3, <1>6 DEF Copied
  <2>3. inserted'[r][Len(done) + 1] = line
    BY <1>3, <1>6
  <2>4. \A i \in 1..Len(done) + 1 : inserted'[r][i] = StoredLine(Made(o)[i])
    BY <1>3, <1>5, <2>2, <2>3
  <2>5. Made(o)' = Made(o)
    BY <1>1, HoldsStays
  <2>6. QED
    BY <1>3, <1>4, <2>1, <2>4, <2>5 DEF Copied
<1>8. RequestOK(r)'
  <2>1. pc'[r] = "lines" /\ InMemory(r)' = InMemory(r) /\ InMemory(r) = {o}
    BY <1>1, HoldsStays DEF MInv, RequestOK
  <2>2. Holds(r, o)'
    BY <1>1, <1>7, <2>1, HoldsStays DEF MInv, RequestOK, Holds
  <2>3. QED
    BY <2>1, <2>2 DEF RequestOK
<1>9. /\ entity' = [entity EXCEPT ![r] = entity[r]] /\ DOMAIN entity[r] \subseteq Orders
      /\ pc' = [pc EXCEPT ![r] = pc[r]] /\ pc[r] \in PCs
  BY <1>1 DEF MInv, MoneyTypes, InMemory
<1>10. QED
  BY <1>1, <1>6, <1>8, <1>9, QuietStep

\* The transaction commits: the order is stored with all of its lines.
LEMMA VisibleOrders ==
  ASSUME MInv, NEW r \in Requests, NEW o \in Orders, AllInserted(r, o), MakeVisible(r, o)
  PROVE  /\ stored' = stored \cup {o} /\ UNCHANGED <<asked, via>>
         /\ total' = [p \in Orders |-> total'[p]] /\ items' = [p \in Orders |-> items'[p]]
         /\ entity[r][o] = Of(Made(o)) /\ InMemory(r) = {o} /\ asked[o] # <<>>
         /\ \A p \in Orders : OrderOK(p)'
<1>1. /\ pc[r] = "lines" /\ o \in InMemory(r) /\ Len(inserted[r]) = Len(entity[r][o].lines)
      /\ stored' = stored \cup {o} /\ total' = [total EXCEPT ![o] = Round(entity[r][o].total)]
      /\ items' = [items EXCEPT ![o] = inserted[r]] /\ UNCHANGED <<asked, via, told>>
  BY DEF AllInserted, MakeVisible
<1>2. /\ asked[o] # <<>> /\ entity[r][o] = Of(Made(o)) /\ Copied(r, o) /\ InMemory(r) = {o}
  <2>1. RequestOK(r)
    BY DEF MInv
  <2>2. Holds(r, o) /\ InMemory(r) = {o}
    BY <1>1, <2>1 DEF RequestOK
  <2>3. QED
    BY <1>1, <2>2 DEF Holds
<1>3. entity[r][o].lines = Made(o) /\ entity[r][o].total = Total(Made(o))
  BY <1>2 DEF Of
<1>4. inserted[r] = Kept(Made(o))
  <2>1. Made(o) \in Seq(Line) /\ inserted[r] \in Seq(Line)
    BY MadeLines DEF MInv, MoneyTypes
  <2>2. /\ Kept(Made(o)) \in Seq(Line) /\ Len(Kept(Made(o))) = Len(Made(o))
        /\ \A i \in 1..Len(Made(o)) : Kept(Made(o))[i] = StoredLine(Made(o)[i])
    BY <2>1, KeptLines
  <2>3. /\ Len(inserted[r]) = Len(Made(o))
        /\ \A i \in 1..Len(Made(o)) : inserted[r][i] = StoredLine(Made(o)[i])
    BY <1>1, <1>2, <1>3 DEF Copied
  <2>4. QED
    BY <2>1, <2>2, <2>3
<1>5. /\ total' = [p \in Orders |-> total'[p]] /\ items' = [p \in Orders |-> items'[p]]
      /\ total'[o] = Round(Total(Made(o))) /\ items'[o] = Kept(Made(o))
  BY <1>1, <1>3, <1>4 DEF MInv, MoneyTypes
<1>6. ASSUME NEW p \in Orders
      PROVE  OrderOK(p)'
  <2>1. CASE p # o
    BY <1>1, <2>1, OrderStays DEF MInv, MoneyTypes
  <2>2. CASE p = o
    <3>1. Made(o)' = Made(o) /\ Versions(o)' = Versions(o) /\ Made(o) \in Versions(o)
      BY <1>1, VersionsStay DEF Versions
    <3>2. \A a \in told'[o] : \E lines \in Versions(o) : a = Shown(Of(lines))
      BY <1>1 DEF MInv, OrderOK
    <3>3. o \in stored' /\ asked'[o] # <<>>
      BY <1>1, <1>2
    <3>4. QED
      BY <1>5, <2>2, <3>1, <3>2, <3>3 DEF OrderOK
  <2>3. QED
    BY <2>1, <2>2
<1>7. QED
  BY <1>1, <1>2, <1>5, <1>6

LEMMA CommitMInv ==
  ASSUME MInv, NEW r \in Requests, NEW o \in Orders, Commit(r, o)
  PROVE  MInv'
<1>1. /\ AllInserted(r, o) /\ MakeVisible(r, o)
      /\ pc' = [pc EXCEPT ![r] = "tell"] /\ UNCHANGED <<entity, inserted>>
  BY DEF Commit, Goto
<1>2. /\ stored' = stored \cup {o} /\ UNCHANGED <<asked, via>>
      /\ total' = [p \in Orders |-> total'[p]] /\ items' = [p \in Orders |-> items'[p]]
      /\ entity[r][o] = Of(Made(o)) /\ InMemory(r) = {o} /\ asked[o] # <<>>
      /\ \A p \in Orders : OrderOK(p)'
  BY <1>1, VisibleOrders
<1>3. pc'[r] = "tell" /\ "tell" \in PCs
  BY <1>1 DEF MInv, MoneyTypes, PCs
<1>4. RequestOK(r)'
  <2>1. InMemory(r)' = {o} /\ Versions(o)' = Versions(o) /\ Made(o) \in Versions(o)
    BY <1>1, <1>2, HoldsStays DEF Versions
  <2>2. Holds(r, o)'
    BY <1>1, <1>2, <1>3, <2>1 DEF Holds
  <2>3. QED
    BY <1>3, <2>1, <2>2 DEF RequestOK
<1>5. /\ entity' = [entity EXCEPT ![r] = entity[r]] /\ DOMAIN entity[r] \subseteq Orders
      /\ inserted' = [inserted EXCEPT ![r] = inserted[r]] /\ inserted[r] \in Seq(Line)
  BY <1>1 DEF MInv, MoneyTypes, InMemory
<1>6. /\ pc' \in [Requests -> PCs] /\ entity' = [q \in Requests |-> entity'[q]]
      /\ inserted' \in [Requests -> Seq(Line)]
      /\ \A q \in Requests : InMemory(q)' \subseteq Orders /\ RequestOK(q)'
  BY <1>1, <1>2, <1>3, <1>4, <1>5, StepRequest
<1>7. MoneyTypes'
  BY <1>2, <1>6 DEF MInv, MoneyTypes
<1>8. QED
  BY <1>2, <1>6, <1>7 DEF MInv

LEMMA CommitUnknownMInv ==
  ASSUME MInv, NEW r \in Requests, NEW o \in Orders, CommitUnknown(r, o)
  PROVE  MInv'
<1>1. /\ stored' = stored \cup {o} /\ UNCHANGED <<asked, via>>
      /\ total' = [p \in Orders |-> total'[p]] /\ items' = [p \in Orders |-> items'[p]]
      /\ \A p \in Orders : OrderOK(p)'
  BY VisibleOrders DEF CommitUnknown
<1>2. /\ pc' \in [Requests -> PCs] /\ entity' = [q \in Requests |-> entity'[q]]
      /\ inserted' \in [Requests -> Seq(Line)]
      /\ \A q \in Requests : InMemory(q)' \subseteq Orders /\ RequestOK(q)'
  BY <1>1, EndRequest DEF CommitUnknown
<1>3. MoneyTypes'
  BY <1>1, <1>2 DEF MInv, MoneyTypes
<1>4. QED
  BY <1>1, <1>2, <1>3 DEF MInv

\* A request ends without having done anything.
LEMMA EndMInv ==
  ASSUME MInv, NEW r \in Requests, End(r), UNCHANGED <<stored, total, items, asked, via, told>>
  PROVE  MInv'
<1>1. \A o \in Orders : OrderOK(o)'
  BY OrderStays DEF MInv
<1>2. /\ pc' \in [Requests -> PCs] /\ entity' = [q \in Requests |-> entity'[q]]
      /\ inserted' \in [Requests -> Seq(Line)]
      /\ \A q \in Requests : InMemory(q)' \subseteq Orders /\ RequestOK(q)'
  BY EndRequest
<1>3. MoneyTypes'
  BY <1>2 DEF MInv, MoneyTypes
<1>4. QED
  BY <1>1, <1>2, <1>3 DEF MInv

-----------------------------------------------------------------------------
(* Orders are read, updated and told *)

LEMMA ReadRowsMInv ==
  ASSUME MInv, NEW r \in Requests, NEW kind, NEW os \in SUBSET Orders, ReadRows(r, kind, os)
  PROVE  MInv'
<1> DEFINE es == [o \in os |-> [Blank EXCEPT !.total = total[o]]]
<1>1. /\ pc[r] = "idle" /\ os \subseteq stored /\ pc' = [pc EXCEPT ![r] = "items"]
      /\ entity' = [entity EXCEPT ![r] = es]
      /\ UNCHANGED <<stored, total, items, inserted, asked, via, told>>
  BY DEF ReadRows, Goto
<1>2. /\ DOMAIN es = os
      /\ \A o \in os : es[o] = [total |-> es[o].total, lines |-> <<>>]
  BY DEF Blank
<1> HIDE DEF es
<1>3. pc'[r] = "items" /\ "items" \in PCs /\ entity'[r] = es /\ InMemory(r)' = os
  BY <1>1, <1>2 DEF MInv, MoneyTypes, PCs, InMemory
<1>4. ASSUME NEW o \in os
      PROVE  Holds(r, o)'
  <2>1. o \in stored /\ o \in stored' /\ asked'[o] # <<>>
    BY <1>1, <1>4 DEF MInv, OrderOK
  <2>2. QED
    BY <1>2, <1>3, <1>4, <2>1 DEF Holds
<1>5. RequestOK(r)'
  BY <1>3, <1>4 DEF RequestOK
<1>6. inserted' = [inserted EXCEPT ![r] = inserted[r]] /\ inserted[r] \in Seq(Line)
  BY <1>1 DEF MInv, MoneyTypes
<1>7. QED
  BY <1>1, <1>2, <1>3, <1>5, <1>6, QuietStep

LEMMA ReadItemsMInv ==
  ASSUME MInv, NEW r \in Requests, ReadItems(r)
  PROVE  MInv'
<1> DEFINE es == [o \in InMemory(r) |-> Recalculated([entity[r][o] EXCEPT !.lines = items[o]])]
           label == IF op[r] = "update" THEN "write" ELSE "tell"
<1>1. /\ pc[r] = "items" /\ pc' = [pc EXCEPT ![r] = label]
      /\ entity' = [entity EXCEPT ![r] = es]
      /\ UNCHANGED <<stored, total, items, inserted, asked, via, told>>
  <2>1. entity' = [entity EXCEPT ![r] =
          [o \in InMemory(r) |-> Recalculated([entity[r][o] EXCEPT !.lines = items[o]])]]
    BY DEF ReadItems, MInv, MoneyTypes
  <2>2. QED
    BY <2>1 DEF ReadItems, Goto
<1>2. InMemory(r) \subseteq Orders /\ label \in {"write", "tell"} /\ {"write", "tell"} \subseteq PCs
  BY DEF MInv, MoneyTypes, PCs
<1>3. ASSUME NEW o \in InMemory(r)
      PROVE  /\ o \in stored /\ asked[o] # <<>>
             /\ Recalculated([entity[r][o] EXCEPT !.lines = items[o]]) = Of(Kept(Made(o)))
  <2>1. /\ o \in stored /\ asked[o] # <<>>
        /\ entity[r][o] = [total |-> entity[r][o].total, lines |-> <<>>]
    BY <1>1, <1>3 DEF MInv, RequestOK, Holds
  <2>2. items[o] = Kept(Made(o))
    BY <1>2, <1>3, <2>1 DEF MInv, OrderOK
  <2>3. Recalculated([[total |-> entity[r][o].total, lines |-> <<>>] EXCEPT !.lines = items[o]])
          = Of(items[o])
    BY RecalculatedIsOf
  <2>4. QED
    BY <2>1, <2>2, <2>3
<1>4. DOMAIN es = InMemory(r) /\ \A o \in InMemory(r) : es[o] = Of(Kept(Made(o)))
  BY <1>3
<1> HIDE DEF es, label
<1>5. pc'[r] = label /\ entity'[r] = es /\ InMemory(r)' = InMemory(r)
  BY <1>1, <1>4 DEF MInv, MoneyTypes, InMemory
<1>6. ASSUME NEW o \in InMemory(r)
      PROVE  Holds(r, o)'
  <2>1. Made(o)' = Made(o) /\ Versions(o)' = Versions(o)
    BY <1>1 DEF Made, Versions
  <2>2. entity'[r][o] = Of(Kept(Made(o))) /\ Kept(Made(o)) \in Versions(o)
    BY <1>4, <1>5, <1>6 DEF Versions
  <2>3. o \in stored' /\ asked'[o] # <<>>
    BY <1>1, <1>3, <1>6
  <2>4. QED
    BY <1>2, <1>5, <2>1, <2>2, <2>3 DEF Holds
<1>7. RequestOK(r)'
  BY <1>2, <1>5, <1>6 DEF RequestOK
<1>8. inserted' = [inserted EXCEPT ![r] = inserted[r]] /\ inserted[r] \in Seq(Line)
  BY <1>1 DEF MInv, MoneyTypes
<1>9. QED
  BY <1>1, <1>2, <1>4, <1>7, <1>8, QuietStep

\* An update writes back the total of the lines as kept.
LEMMA RewriteOrders ==
  ASSUME MInv, NEW r \in Requests, NEW o \in Orders, Rewrite(r, o)
  PROVE  /\ total' = [p \in Orders |-> total'[p]]
         /\ \A p \in Orders : OrderOK(p)'
<1>1. /\ pc[r] = "write" /\ o \in InMemory(r)
      /\ total' = [total EXCEPT ![o] = Round(entity[r][o].total)]
      /\ UNCHANGED <<stored, items, asked, via, told>>
  BY DEF Rewrite
<1>2. o \in stored /\ entity[r][o] = Of(Kept(Made(o)))
  BY <1>1 DEF MInv, RequestOK, Holds
<1>3. entity[r][o].total = Total(Kept(Made(o)))
  BY <1>2 DEF Of
<1>4. total' = [p \in Orders |-> total'[p]] /\ total'[o] = Round(Total(Kept(Made(o))))
  BY <1>1, <1>3 DEF MInv, MoneyTypes
<1>5. ASSUME NEW p \in Orders
      PROVE  OrderOK(p)'
  <2>1. CASE p # o
    BY <1>1, <2>1, OrderStays DEF MInv, MoneyTypes
  <2>2. CASE p = o
    <3>1. Made(o)' = Made(o) /\ Versions(o)' = Versions(o) /\ Kept(Made(o)) \in Versions(o)
      BY <1>1, VersionsStay DEF Versions
    <3>2. OrderOK(o)
      BY DEF MInv
    <3>3. QED
      BY <1>1, <1>2, <1>4, <2>2, <3>1, <3>2 DEF OrderOK
  <2>3. QED
    BY <2>1, <2>2
<1>6. QED
  BY <1>4, <1>5

LEMMA WriteMInv ==
  ASSUME MInv, NEW r \in Requests, NEW o \in Orders, Write(r, o)
  PROVE  MInv'
<1>1. /\ pc[r] = "write" /\ pc' = [pc EXCEPT ![r] = "tell"]
      /\ UNCHANGED <<stored, items, entity, inserted, asked, via, told>>
  BY DEF Write, Rewrite, Goto
<1>2. total' = [p \in Orders |-> total'[p]] /\ \A p \in Orders : OrderOK(p)'
  BY RewriteOrders DEF Write
<1>3. pc'[r] = "tell" /\ "tell" \in PCs
  BY <1>1 DEF MInv, MoneyTypes, PCs
<1>4. ASSUME NEW p \in InMemory(r)
      PROVE  Holds(r, p)'
  <2>1. Holds(r, p)
    BY <1>4 DEF MInv, RequestOK
  <2>2. Versions(p)' = Versions(p) /\ Kept(Made(p)) \in Versions(p)
    BY <1>1, HoldsStays DEF Versions
  <2>3. QED
    BY <1>1, <1>3, <2>1, <2>2 DEF Holds
<1>5. RequestOK(r)'
  BY <1>1, <1>3, <1>4, HoldsStays DEF RequestOK
<1>6. /\ entity' = [entity EXCEPT ![r] = entity[r]] /\ DOMAIN entity[r] \subseteq Orders
      /\ inserted' = [inserted EXCEPT ![r] = inserted[r]] /\ inserted[r] \in Seq(Line)
  BY <1>1 DEF MInv, MoneyTypes, InMemory
<1>7. /\ pc' \in [Requests -> PCs] /\ entity' = [q \in Requests |-> entity'[q]]
      /\ inserted' \in [Requests -> Seq(Line)]
      /\ \A q \in Requests : InMemory(q)' \subseteq Orders /\ RequestOK(q)'
  BY <1>1, <1>3, <1>5, <1>6, StepRequest
<1>8. MoneyTypes'
  BY <1>1, <1>2, <1>7 DEF MInv, MoneyTypes
<1>9. QED
  BY <1>2, <1>7, <1>8 DEF MInv

LEMMA WriteUnknownMInv ==
  ASSUME MInv, NEW r \in Requests, NEW o \in Orders, WriteUnknown(r, o)
  PROVE  MInv'
<1>1. UNCHANGED <<stored, items, asked, via, told>>
  BY DEF WriteUnknown, Rewrite
<1>2. total' = [p \in Orders |-> total'[p]] /\ \A p \in Orders : OrderOK(p)'
  BY RewriteOrders DEF WriteUnknown
<1>3. /\ pc' \in [Requests -> PCs] /\ entity' = [q \in Requests |-> entity'[q]]
      /\ inserted' \in [Requests -> Seq(Line)]
      /\ \A q \in Requests : InMemory(q)' \subseteq Orders /\ RequestOK(q)'
  BY <1>1, EndRequest DEF WriteUnknown
<1>4. MoneyTypes'
  BY <1>1, <1>2, <1>3 DEF MInv, MoneyTypes
<1>5. QED
  BY <1>2, <1>3, <1>4 DEF MInv

LEMMA TellMInv ==
  ASSUME MInv, NEW r \in Requests, Tell(r)
  PROVE  MInv'
<1>1. /\ pc[r] = "tell" /\ End(r) /\ UNCHANGED <<stored, total, items, asked, via>>
      /\ told' = [o \in Orders |-> IF o \in InMemory(r)
                                   THEN told[o] \cup {Shown(entity[r][o])} ELSE told[o]]
  BY DEF Tell
<1>2. ASSUME NEW o \in Orders
      PROVE  OrderOK(o)'
  <2>1. CASE o \notin InMemory(r)
    BY <1>1, <2>1, OrderStays DEF MInv
  <2>2. CASE o \in InMemory(r)
    <3>1. o \in stored /\ \E lines \in Versions(o) : entity[r][o] = Of(lines)
      BY <1>1, <2>2 DEF MInv, RequestOK, Holds
    <3>2. told'[o] = told[o] \cup {Shown(entity[r][o])}
      BY <1>1, <2>2
    <3>3. \A a \in told'[o] : \E lines \in Versions(o) : a = Shown(Of(lines))
      BY <3>1, <3>2 DEF MInv, OrderOK
    <3>4. Made(o)' = Made(o) /\ Versions(o)' = Versions(o)
      BY <1>1, VersionsStay
    <3>5. OrderOK(o)
      BY DEF MInv
    <3>6. QED
      BY <1>1, <3>1, <3>3, <3>4, <3>5 DEF OrderOK
  <2>3. QED
    BY <2>1, <2>2
<1>3. /\ pc' \in [Requests -> PCs] /\ entity' = [q \in Requests |-> entity'[q]]
      /\ inserted' \in [Requests -> Seq(Line)]
      /\ \A q \in Requests : InMemory(q)' \subseteq Orders /\ RequestOK(q)'
  BY <1>1, EndRequest
<1>4. MoneyTypes'
  BY <1>1, <1>3 DEF MInv, MoneyTypes
<1>5. QED
  BY <1>2, <1>3, <1>4 DEF MInv

\* Every step keeps the invariant.
LEMMA NextMInv == MInv /\ [Next]_vars => MInv'
<1> SUFFICES ASSUME MInv, [Next]_vars
             PROVE  MInv'
  OBVIOUS
<1>1. ASSUME NEW r \in Requests, NEW o \in Orders, NEW cart \in Carts,
             NEW how \in {"api", "checkout"}, Submit(r, o, cart, how)
      PROVE  MInv'
  BY <1>1, SubmitMInv
<1>2. ASSUME NEW r \in Requests, NEW o \in Orders,
             \/ InsertRow(r, o) \/ InsertLine(r, o) \/ Commit(r, o) \/ CommitUnknown(r, o)
             \/ Write(r, o) \/ WriteUnknown(r, o)
      PROVE  MInv'
  BY <1>2, InsertRowMInv, InsertLineMInv, CommitMInv, CommitUnknownMInv, WriteMInv, WriteUnknownMInv
<1>3. ASSUME NEW r \in Requests, CreateFails(r) \/ Withhold(r)
      PROVE  MInv'
  BY <1>3, EndMInv DEF CreateFails, Withhold
<1>4. ASSUME NEW r \in Requests, NEW kind \in {"get", "list", "update"}, NEW os \in SUBSET Orders,
             ReadRows(r, kind, os)
      PROVE  MInv'
  BY <1>4, ReadRowsMInv
<1>5. ASSUME NEW r \in Requests, ReadItems(r)
      PROVE  MInv'
  BY <1>5, ReadItemsMInv
<1>6. ASSUME NEW r \in Requests, Tell(r)
      PROVE  MInv'
  BY <1>6, TellMInv
<1>7. CASE UNCHANGED vars
  <2>1. \A o \in Orders : OrderOK(o)'
    BY <1>7, OrderStays DEF vars, MInv
  <2>2. \A r \in Requests : RequestOK(r)'
    BY <1>7, RequestStays DEF vars, MInv
  <2>3. MoneyTypes'
    BY <1>7 DEF vars, MInv, MoneyTypes, InMemory
  <2>4. QED
    BY <2>1, <2>2, <2>3 DEF MInv
<1>8. QED
  BY <1>1, <1>2, <1>3, <1>4, <1>5, <1>6, <1>7 DEF Next

\* The invariant holds in every reachable state.
THEOREM MoneyInvariant == Spec => []MInv
<1>1. QED
  BY InitMInv, NextMInv, PTL DEF Spec

-----------------------------------------------------------------------------
(* What is told *)

LEMMA AtMostTwo ==
  ASSUME NEW S, NEW a, NEW b, S \subseteq {a, b}
  PROVE  Cardinality(S) <= 2
<1>1. IsFiniteSet({a}) /\ Cardinality({a}) = 1
  BY FS_Singleton
<1>2. IsFiniteSet({a} \cup {b}) /\ Cardinality({a} \cup {b}) <= 2
  BY <1>1, FS_AddElement, FS_CardinalityType
<1>3. S \in SUBSET ({a} \cup {b})
  OBVIOUS
<1>4. IsFiniteSet(S) /\ Cardinality(S) <= Cardinality({a} \cup {b})
  BY <1>2, <1>3, FS_Subset
<1>5. Cardinality(S) \in Nat /\ Cardinality({a} \cup {b}) \in Nat
  BY <1>2, <1>4, FS_CardinalityType
<1>6. QED
  BY <1>2, <1>4, <1>5

\* However often an order is read, updated and told, it is told with no more
\* than two totals: that of its lines as made and that of its lines as kept
\* (model.go:161-168).
THEOREM TotalsChangeOnce == Spec => []AtMostTwoTotals
<1>1. ASSUME MInv, NEW o \in Orders
      PROVE  Cardinality({a.total : a \in told[o]}) <= 2
  <2>1. \A lines : Shown(Of(lines)).total = Round(Total(lines))
    BY DEF Shown, Of
  <2>2. {a.total : a \in told[o]} \subseteq {Round(Total(Made(o))), Round(Total(Kept(Made(o))))}
    BY <1>1, <2>1 DEF MInv, OrderOK, Versions
  <2>3. QED
    BY <2>2, AtMostTwo
<1>2. MInv => AtMostTwoTotals
  BY <1>1 DEF AtMostTwoTotals
<1>3. QED
  BY <1>2, MoneyInvariant, PTL

\* A number rounded is within half a cent of it, and a number of cents.
LEMMA RoundIsNear ==
  ASSUME NEW x \in Nat
  PROVE  /\ Round(x) \in Nat /\ (2 * x + Cent) \div (2 * Cent) \in Nat
         /\ Round(x) = Cent * ((2 * x + Cent) \div (2 * Cent))
         /\ 2 * Round(x) <= 2 * x + Cent /\ 2 * x <= 2 * Round(x) + Cent
<1> DEFINE y == 2 * x + Cent
           d == 2 * Cent
           k == y \div d
<1>1. Cent \in Nat /\ y \in Nat /\ d \in Nat \ {0}
  BY CentAssumption
<1>2. k \in Nat
  BY <1>1, DivNat
<1>3. k * d <= y /\ y < k * d + d
  BY <1>1, DivBounds
<1>4. Round(x) = k * Cent
  BY DEF Round
<1> HIDE DEF k
<1>5. k * Cent \in Nat /\ k * Cent = Cent * k /\ k * d = 2 * (k * Cent)
  BY <1>1, <1>2, CentAssumption
<1>6. Round(x) \in Nat /\ Round(x) = Cent * k /\ 2 * Round(x) <= y /\ y < 2 * Round(x) + d
  BY <1>3, <1>4, <1>5
<1>7. 2 * Round(x) <= 2 * x + Cent /\ 2 * x <= 2 * Round(x) + Cent
  BY <1>1, <1>6
<1>8. QED
  BY <1>2, <1>6, <1>7 DEF k

\* The subtotal of a line is a whole number of cents.
LEMMA SubtotalIsWhole ==
  ASSUME NEW line \in Line
  PROVE  \E k \in Nat : Subtotal(line) = Cent * k /\ Subtotal(line) \in Nat
<1>1. line.unitPrice * line.quantity \in Nat
  BY DEF Line
<1>2. QED
  BY <1>1, RoundIsNear DEF Subtotal

\* So is a sum of subtotals: rounded, it stays as it is.
LEMMA TotalIsWhole ==
  ASSUME NEW lines \in Seq(Line)
  PROVE  Total(lines) \in Nat /\ Round(Total(lines)) = Total(lines)
<1> DEFINE n == Len(lines)
           f == [i \in 1..n |-> Subtotal(lines[i])]
           k == [i \in 1..n |-> CHOOSE m \in Nat : f[i] = Cent * m]
<1>1. n \in Nat /\ DOMAIN lines = 1..n /\ \A i \in 1..n : lines[i] \in Line
  OBVIOUS
<1>2. Total(lines) = SumFunction(f)
  BY <1>1 DEF Total
<1>3. \A i \in 1..n : f[i] \in Nat /\ \E m \in Nat : f[i] = Cent * m
  BY <1>1, SubtotalIsWhole
<1>4. f \in [1..n -> Nat] /\ k \in [1..n -> Nat] /\ \A i \in 1..n : f[i] = Cent * k[i]
  <2> HIDE DEF n
  <2>1. f \in [1..n -> Nat]
    BY <1>3
  <2>2. ASSUME NEW i \in 1..n
        PROVE  k[i] \in Nat /\ f[i] = Cent * k[i]
    <3>1. \E m \in Nat : f[i] = Cent * m
      BY <1>3, <2>2
    <3>2. k[i] = CHOOSE m \in Nat : f[i] = Cent * m
      BY <2>2
    <3> HIDE DEF f, k
    <3>3. QED
      BY <3>1, <3>2
  <2>3. k \in [1..n -> Nat]
    <3>1. k = [i \in 1..n |-> k[i]]
      OBVIOUS
    <3> HIDE DEF k
    <3>2. QED
      BY <2>2, <3>1
  <2>4. QED
    BY <2>1, <2>2, <2>3
<1> HIDE DEF f, k, n
<1>5. Cent \in Nat /\ 1 \in Nat /\ 0 \in Nat
  BY CentAssumption
<1>6. \A i \in 1..n : 1 * f[i] <= Cent * k[i] + 0 * k[i] /\ Cent * k[i] <= 1 * f[i] + 0 * f[i]
  <2>1. ASSUME NEW a \in Nat, NEW b \in Nat, a = Cent * b
        PROVE  1 * a <= Cent * b + 0 * b /\ Cent * b <= 1 * a + 0 * a
    BY <2>1, <1>5
  <2>2. QED
    BY <1>4, <2>1
<1>n. n \in Nat
  BY <1>1
<1>f. f \in [1..n -> Nat] /\ k \in [1..n -> Nat]
  BY <1>4
<1>7. SumFunction(f) \in Nat /\ SumFunction(k) \in Nat
      /\ 1 * SumFunction(f) <= Cent * SumFunction(k) + 0 * SumFunction(k)
  <2>1. \A i \in 1..n : 1 * f[i] <= Cent * k[i] + 0 * k[i]
    BY <1>6
  <2>2. QED
    BY <1>n, <1>f, <1>5, <2>1, SumsCompare
<1>8. Cent * SumFunction(k) <= 1 * SumFunction(f) + 0 * SumFunction(f)
  <2>1. \A i \in 1..n : Cent * k[i] <= 1 * f[i] + 0 * f[i]
    BY <1>6
  <2>2. QED
    BY <1>n, <1>f, <1>5, <2>1, SumsCompare
<1>9. \A a, b \in Nat : 1 * a <= Cent * b + 0 * b /\ Cent * b <= 1 * a + 0 * a => a = b * Cent
  <2>1. ASSUME NEW a \in Nat, NEW b \in Nat, 1 * a <= Cent * b + 0 * b, Cent * b <= 1 * a + 0 * a
        PROVE  a = b * Cent
    BY <2>1, <1>5
  <2>2. QED
    BY <2>1
<1>10. SumFunction(f) = SumFunction(k) * Cent
  BY <1>7, <1>8, <1>9
<1>11. QED
  BY <1>2, <1>7, <1>10, RoundExact

\* What an answer shows of some lines, and that it sums up.
LEMMA ShownSumsUp ==
  ASSUME NEW lines \in Seq(Line)
  PROVE  LET a == Shown(Of(lines))
         IN  /\ a.total = Total(lines) /\ DOMAIN a.lines = 1..Len(lines) /\ Len(a.lines) = Len(lines)
             /\ a.total = SumFunction([i \in DOMAIN a.lines |-> a.lines[i].subtotal])
             /\ \A i \in 1..Len(lines) : a.lines[i].quantity = lines[i].quantity
<1> DEFINE a == Shown(Of(lines))
           n == Len(lines)
<1>1. n \in Nat /\ DOMAIN lines = 1..n
  OBVIOUS
<1>2. /\ a.total = Round(Total(lines))
      /\ a.lines = [i \in 1..n |-> [quantity |-> lines[i].quantity,
                                    unitPrice |-> Round(lines[i].unitPrice),
                                    subtotal |-> Subtotal(lines[i])]]
  BY <1>1 DEF Shown, Of
<1> HIDE DEF a
<1>3. DOMAIN a.lines = 1..n /\ Len(a.lines) = n
  BY <1>1, <1>2
<1>4. [i \in DOMAIN a.lines |-> a.lines[i].subtotal] = [i \in DOMAIN lines |-> Subtotal(lines[i])]
  BY <1>1, <1>2, <1>3
<1>5. a.total = Total(lines)
  BY <1>2, TotalIsWhole
<1>6. Total(lines) = SumFunction([i \in DOMAIN a.lines |-> a.lines[i].subtotal])
  BY <1>4 DEF Total
<1>7. \A i \in 1..n : a.lines[i].quantity = lines[i].quantity
  BY <1>2
<1>8. QED
  BY <1>3, <1>5, <1>6, <1>7 DEF a

\* Nobody is told a part of an order, although it is written by several
\* statements and read by two queries: all lines are there, and the total is
\* their sum (store.go:53-132, 134-161).
THEOREM NobodySeesAPart == Spec => []ShownIsWhole
<1>1. ASSUME MInv, NEW o \in Orders, NEW a \in told[o]
      PROVE  /\ Len(a.lines) = Len(asked[o])
             /\ \A i \in DOMAIN a.lines : a.lines[i].quantity = asked[o][i].quantity
             /\ a.total = SumFunction([i \in DOMAIN a.lines |-> a.lines[i].subtotal])
  <2>1. PICK lines \in Versions(o) : a = Shown(Of(lines))
    BY <1>1 DEF MInv, OrderOK
  <2>2. /\ lines \in Seq(Line) /\ Len(lines) = Len(asked[o])
        /\ \A i \in 1..Len(lines) : lines[i].quantity = asked[o][i].quantity
    BY <1>1, <2>1, MadeLines DEF MInv
  <2>3. DOMAIN a.lines = 1..Len(lines) /\ Len(a.lines) = Len(lines)
    BY <2>1, <2>2, ShownSumsUp
  <2>4. \A i \in 1..Len(lines) : a.lines[i].quantity = lines[i].quantity
    BY <2>1, <2>2, ShownSumsUp
  <2>5. a.total = SumFunction([i \in DOMAIN a.lines |-> a.lines[i].subtotal])
    BY <2>1, <2>2, ShownSumsUp
  <2>6. QED
    BY <2>2, <2>3, <2>4, <2>5
<1>2. MInv => ShownIsWhole
  BY <1>1 DEF ShownIsWhole
<1>3. QED
  BY <1>2, MoneyInvariant, PTL

\* The total that a checkout charges is the one that is told ever after, and the
\* one in the table, where it is the sum of the lines: its prices are rounded
\* before the order is made (checkout/handler.go:84, 92).
THEOREM CheckoutHasOneTotal == Spec => []MoneyAgrees
<1>1. ASSUME MInv, NEW o \in Orders, via[o] = "checkout"
      PROVE  /\ \A a \in told[o] : o \in stored /\ a.total = total[o]
             /\ o \in stored => total[o] = Total(items[o])
  <2>1. Versions(o) = {Made(o)} /\ Kept(Made(o)) = Made(o) /\ Made(o) \in Seq(Line)
    BY <1>1, MadeLines DEF MInv, Versions
  <2>2. Round(Total(Made(o))) = Total(Made(o))
    BY <2>1, TotalIsWhole
  <2>3. o \in stored => total[o] = Total(Made(o)) /\ items[o] = Made(o)
    BY <1>1, <2>1, <2>2 DEF MInv, OrderOK
  <2>4. \A a \in told[o] : o \in stored /\ a = Shown(Of(Made(o)))
    BY <1>1, <2>1 DEF MInv, OrderOK
  <2>5. Shown(Of(Made(o))).total = Total(Made(o))
    BY <2>1, ShownSumsUp
  <2>6. QED
    BY <2>3, <2>4, <2>5
<1>2. MInv => MoneyAgrees
  BY <1>1 DEF MoneyAgrees
<1>3. QED
  BY <1>2, MoneyInvariant, PTL

-----------------------------------------------------------------------------
(* How far a total is from the exact price *)

\* The exact price of a line.
Exact(line) == line.unitPrice * line.quantity

LEMMA TimesLe ==
  ASSUME NEW a \in Nat, NEW b \in Nat, NEW q \in Nat, a <= b
  PROVE  a * q <= b * q
<1>1. PICK c \in Nat : b = a + c
  <2>1. b - a \in Nat /\ b = a + (b - a)
    OBVIOUS
  <2>2. QED
    BY <2>1
<1>2. b * q = a * q + c * q
  BY <1>1, Distributive
<1>3. a * q \in Nat /\ c * q \in Nat
  OBVIOUS
<1>4. QED
  BY <1>2, <1>3

\* The subtotal of a line, at its price or at its price rounded, is within half
\* a cent per unit of its exact price.
LEMMA SubtotalIsNear ==
  ASSUME NEW line \in Line, NEW made \in {line, StoredLine(line)}
  PROVE  /\ Subtotal(made) \in Nat /\ Exact(line) \in Nat /\ line.quantity \in Nat
         /\ 2 * Subtotal(made) <= 2 * Exact(line) + Cent * line.quantity
         /\ 2 * Exact(line) <= 2 * Subtotal(made) + Cent * line.quantity
<1> DEFINE p == line.unitPrice
           q == line.quantity
<1>1. p \in Nat /\ q \in Nat /\ q >= 1 /\ Cent \in Nat
  BY CentAssumption DEF Line
<1>2. \A x, y \in Nat : x * y \in Nat
  OBVIOUS
<1>3. Exact(line) = p * q /\ Exact(line) \in Nat
  BY <1>1, <1>2 DEF Exact
<1>4. Cent * q \in Nat /\ Cent <= Cent * q
  <2>1. 1 * Cent <= q * Cent
    BY <1>1, TimesLe
  <2>2. q * Cent = Cent * q /\ 1 * Cent = Cent
    BY <1>1
  <2>3. QED
    BY <1>1, <1>2, <2>1, <2>2
<1>5. CASE made = line
  <2>1. Subtotal(made) = Round(p * q)
    BY <1>5 DEF Subtotal
  <2>2. /\ Round(p * q) \in Nat /\ 2 * Round(p * q) <= 2 * (p * q) + Cent
        /\ 2 * (p * q) <= 2 * Round(p * q) + Cent
    BY <1>1, <1>2, RoundIsNear
  <2>3. QED
    BY <1>1, <1>3, <1>4, <2>1, <2>2
<1>6. CASE made = StoredLine(line)
  <2>1. made.unitPrice = Round(p) /\ made.quantity = q
    BY <1>6 DEF StoredLine, Line
  <2>2. PICK k \in Nat : Round(p) = k * Cent
    <3>1. (2 * p + Cent) \div (2 * Cent) \in Nat
      BY <1>1, RoundIsNear
    <3>2. QED
      BY <3>1 DEF Round
  <2>3. Round(p) \in Nat /\ 2 * Round(p) <= 2 * p + Cent /\ 2 * p <= 2 * Round(p) + Cent
    BY <1>1, RoundIsNear
  <2>4. Subtotal(made) = Round(p) * q
    <3>1. Round(p) * q = (k * q) * Cent /\ k * q \in Nat
      BY <1>1, <1>2, <2>2
    <3>2. Round((k * q) * Cent) = (k * q) * Cent
      BY <3>1, RoundExact
    <3>3. QED
      BY <2>1, <3>1, <3>2 DEF Subtotal
  <2>5. PICK n \in Nat : n = Round(p)
    BY <2>3
  <2>6. (2 * n) * q <= (2 * p + Cent) * q /\ (2 * p) * q <= (2 * n + Cent) * q
    BY <1>1, <2>3, <2>5, TimesLe
  <2>7. /\ (2 * n) * q = 2 * (n * q) /\ (2 * p) * q = 2 * (p * q)
        /\ (2 * p + Cent) * q = 2 * (p * q) + Cent * q
        /\ (2 * n + Cent) * q = 2 * (n * q) + Cent * q
    BY <1>1
  <2>8. n * q \in Nat
    BY <1>1, <1>2
  <2>9. QED
    BY <1>1, <1>3, <2>4, <2>5, <2>6, <2>7, <2>8
<1>7. QED
  BY <1>5, <1>6

\* The lines that an order is told with are those asked for, at their prices or
\* at their prices rounded.
LEMMA VersionsAreAsked ==
  ASSUME MoneyTypes, NEW o \in Orders, NEW lines \in Versions(o)
  PROVE  lines = asked[o] \/ lines = Kept(asked[o])
<1>1. asked[o] \in Seq(Line)
  BY DEF MoneyTypes
<1>2. Made(o) = asked[o] \/ Made(o) = Kept(asked[o])
  BY <1>1, PricedIsKept DEF Made
<1>3. Kept(Kept(asked[o])) = Kept(asked[o])
  BY <1>1, KeptLines
<1>4. QED
  BY <1>2, <1>3 DEF Versions

\* A total is within half a cent per unit of the sum of the exact prices.
LEMMA TotalIsNear ==
  ASSUME NEW cart \in Seq(Line), NEW lines \in {cart, Kept(cart)}
  PROVE  LET exact == SumFunction([i \in DOMAIN cart |-> cart[i].unitPrice * cart[i].quantity])
             units == SumFunction([i \in DOMAIN cart |-> cart[i].quantity])
         IN  /\ Total(lines) \in Nat /\ exact \in Nat /\ units \in Nat
             /\ 2 * Total(lines) <= 2 * exact + Cent * units
             /\ 2 * exact <= 2 * Total(lines) + Cent * units
<1> DEFINE n == Len(cart)
           f == [i \in 1..n |-> Subtotal(lines[i])]
           e == [i \in 1..n |-> Exact(cart[i])]
           u == [i \in 1..n |-> cart[i].quantity]
<1>1. n \in Nat /\ DOMAIN cart = 1..n /\ \A i \in 1..n : cart[i] \in Line
  OBVIOUS
<1>2. DOMAIN lines = 1..n /\ \A i \in 1..n : lines[i] \in {cart[i], StoredLine(cart[i])}
  <2>1. CASE lines = cart
    BY <1>1, <2>1
  <2>2. CASE lines = Kept(cart)
    BY <1>1, <2>2 DEF Kept
  <2>3. QED
    BY <2>1, <2>2
<1>3. /\ Total(lines) = SumFunction(f)
      /\ [i \in DOMAIN cart |-> cart[i].unitPrice * cart[i].quantity] = e
      /\ [i \in DOMAIN cart |-> cart[i].quantity] = u
  BY <1>1, <1>2 DEF Total, Exact
<1>4. ASSUME NEW i \in 1..n
      PROVE  /\ f[i] \in Nat /\ e[i] \in Nat /\ u[i] \in Nat
             /\ 2 * f[i] <= 2 * e[i] + Cent * u[i] /\ 2 * e[i] <= 2 * f[i] + Cent * u[i]
  BY <1>1, <1>2, <1>4, SubtotalIsNear
<1>5. f \in [1..n -> Nat] /\ e \in [1..n -> Nat] /\ u \in [1..n -> Nat]
  BY <1>4
<1> HIDE DEF f, e, u, n
<1>6. Cent \in Nat
  BY CentAssumption
<1>7. /\ SumFunction(f) \in Nat /\ SumFunction(e) \in Nat /\ SumFunction(u) \in Nat
      /\ 2 * SumFunction(f) <= 2 * SumFunction(e) + Cent * SumFunction(u)
  BY <1>1, <1>4, <1>5, <1>6, SumsCompare
<1>8. 2 * SumFunction(e) <= 2 * SumFunction(f) + Cent * SumFunction(u)
  BY <1>1, <1>4, <1>5, <1>6, SumsCompare
<1>9. QED
  BY <1>3, <1>7, <1>8

\* No total that anybody is told is further from the exact price than half a
\* cent for every unit ordered (model.go:121-123, store.go:106-107).
THEOREM TotalsAreNear == Spec => []TotalsClose
<1>1. ASSUME MInv, NEW o \in Orders, NEW a \in told[o]
      PROVE  LET exact == SumFunction([i \in DOMAIN asked[o] |-> asked[o][i].unitPrice * asked[o][i].quantity])
                 units == SumFunction([i \in DOMAIN asked[o] |-> asked[o][i].quantity])
             IN 2 * Distance(a.total, exact) <= units * Cent
  <2> DEFINE exact == SumFunction([i \in DOMAIN asked[o] |-> asked[o][i].unitPrice * asked[o][i].quantity])
             units == SumFunction([i \in DOMAIN asked[o] |-> asked[o][i].quantity])
  <2>1. PICK lines \in Versions(o) : a = Shown(Of(lines))
    BY <1>1 DEF MInv, OrderOK
  <2>2. lines \in {asked[o], Kept(asked[o])} /\ asked[o] \in Seq(Line) /\ lines \in Seq(Line)
    BY <1>1, <2>1, VersionsAreAsked, MadeLines DEF MInv, MoneyTypes
  <2>3. a.total = Total(lines)
    BY <2>1, <2>2, ShownSumsUp
  <2>4. /\ a.total \in Nat /\ exact \in Nat /\ units \in Nat
        /\ 2 * a.total <= 2 * exact + Cent * units /\ 2 * exact <= 2 * a.total + Cent * units
    BY <2>2, <2>3, TotalIsNear
  <2> HIDE DEF exact, units
  <2>5. Cent * units = units * Cent /\ Cent * units \in Nat
    BY <2>4, CentAssumption
  <2>6. 2 * Distance(a.total, exact) <= units * Cent
    BY <2>4, <2>5 DEF Distance
  <2>7. QED
    BY <2>6 DEF exact, units
<1>2. MInv => TotalsClose
  BY <1>1 DEF TotalsClose
<1>3. QED
  BY <1>2, MoneyInvariant, PTL

-----------------------------------------------------------------------------
(* Types *)

\* What a request is for.
Kinds == {"none", "create", "get", "list", "update"}

\* A stored total fits its column; what is not stored has no columns.
ColumnsOK(o) ==
  /\ o \in stored => total[o] <= MaxAmount
  /\ o \notin stored => total[o] = 0 /\ items[o] = <<>>

\* What r has in memory, and that the total it has inserted fits.
MemoryOK(r) ==
  /\ entity[r] = [o \in InMemory(r) |-> entity[r][o]]
  /\ \A o \in InMemory(r) :
       /\ pc[r] = "items" => entity[r][o].total \in Nat
       /\ pc[r] = "lines" => Fits(entity[r][o].total)

\* The parts of MoneyTypeOK of which MInv says nothing.
TypesInv ==
  /\ op \in [Requests -> Kinds]
  /\ via \in [Orders -> {"none", "api", "checkout"}]
  /\ \A o \in Orders : ColumnsOK(o)
  /\ \A r \in Requests : MemoryOK(r)

LEMMA InitTypesInv == Init => TypesInv
BY CentAssumption DEF Init, TypesInv, Kinds, ColumnsOK, MemoryOK, InMemory, NothingInMemory

\* A request that ends leaves the types as they are.
LEMMA EndTypes ==
  ASSUME MInv, TypesInv, NEW r \in Requests, End(r)
  PROVE  /\ op' \in [Requests -> Kinds]
         /\ \A q \in Requests : MemoryOK(q)'
<1>1. /\ op' = [op EXCEPT ![r] = "none"] /\ pc' = [pc EXCEPT ![r] = "idle"]
      /\ entity' = [entity EXCEPT ![r] = NothingInMemory]
      /\ pc \in [Requests -> PCs] /\ entity = [q \in Requests |-> entity[q]]
  BY DEF End, Goto, MInv, MoneyTypes
<1>2. op' \in [Requests -> Kinds]
  BY <1>1 DEF TypesInv, Kinds
<1>3. MemoryOK(r)'
  <2>1. pc'[r] = "idle" /\ entity'[r] = NothingInMemory
    BY <1>1
  <2>2. QED
    BY <2>1 DEF MemoryOK, InMemory, NothingInMemory
<1>4. ASSUME NEW q \in Requests, q # r
      PROVE  MemoryOK(q)'
  <2>1. pc'[q] = pc[q] /\ entity'[q] = entity[q] /\ op'[q] = op[q]
    BY <1>1, <1>4 DEF TypesInv
  <2>2. QED
    BY <2>1 DEF MemoryOK, InMemory, TypesInv
<1>5. QED
  BY <1>2, <1>3, <1>4

\* Neither does a request that goes on, if its own memory is well.
LEMMA StepTypes ==
  ASSUME MInv, TypesInv, NEW r \in Requests, NEW label, NEW kind \in Kinds, NEW es,
         pc' = [pc EXCEPT ![r] = label], op' = [op EXCEPT ![r] = kind],
         entity' = [entity EXCEPT ![r] = es], MemoryOK(r)'
  PROVE  /\ op' \in [Requests -> Kinds]
         /\ \A q \in Requests : MemoryOK(q)'
<1>1. /\ pc \in [Requests -> PCs] /\ entity = [q \in Requests |-> entity[q]]
      /\ op \in [Requests -> Kinds]
  BY DEF MInv, MoneyTypes, TypesInv
<1>2. op' \in [Requests -> Kinds]
  BY <1>1
<1>3. ASSUME NEW q \in Requests, q # r
      PROVE  MemoryOK(q)'
  <2>1. pc'[q] = pc[q] /\ entity'[q] = entity[q] /\ op'[q] = op[q]
    BY <1>1, <1>3
  <2>2. QED
    BY <2>1 DEF MemoryOK, InMemory, TypesInv
<1>4. QED
  BY <1>2, <1>3

\* A total that is written fits its column.
LEMMA WrittenFits ==
  ASSUME MInv, TypesInv, NEW o \in Orders, NEW amount, Fits(amount),
         total' = [total EXCEPT ![o] = Round(amount)], stored' = stored \cup {o},
         \A p \in Orders : p # o => items'[p] = items[p]
  PROVE  \A p \in Orders : ColumnsOK(p)'
<1>1. total = [p \in Orders |-> total[p]]
  BY DEF MInv, MoneyTypes
<1>2. total'[o] = Round(amount) /\ \A p \in Orders : p # o => total'[p] = total[p]
  BY <1>1
<1>3. QED
  BY <1>2 DEF TypesInv, ColumnsOK, Fits

LEMMA SubmitTypes ==
  ASSUME MInv, TypesInv, NEW r \in Requests, NEW o \in Orders, NEW cart \in Carts,
         NEW how \in {"api", "checkout"}, Submit(r, o, cart, how)
  PROVE  TypesInv'
<1> DEFINE lines == IF how = "checkout" THEN Priced(cart) ELSE cart
           es == [p \in {o} |-> Recalculated([Blank EXCEPT !.lines = lines])]
<1>1. /\ pc' = [pc EXCEPT ![r] = "row"] /\ op' = [op EXCEPT ![r] = "create"]
      /\ entity' = [entity EXCEPT ![r] = es] /\ via' = [via EXCEPT ![o] = how]
      /\ UNCHANGED <<stored, total, items>> /\ "create" \in Kinds
  BY DEF Submit, Goto, Kinds
<1>2. DOMAIN es = {o} /\ es = [p \in {o} |-> es[p]]
  OBVIOUS
<1> HIDE DEF es
<1>3. pc'[r] = "row" /\ entity'[r] = es
  BY <1>1 DEF MInv, MoneyTypes
<1>4. MemoryOK(r)'
  BY <1>2, <1>3 DEF MemoryOK, InMemory
<1>5. /\ op' \in [Requests -> Kinds]
      /\ \A q \in Requests : MemoryOK(q)'
  BY <1>1, <1>4, StepTypes
<1>6. via' \in [Orders -> {"none", "api", "checkout"}]
  BY <1>1 DEF TypesInv
<1>7. \A p \in Orders : ColumnsOK(p)'
  BY <1>1 DEF TypesInv, ColumnsOK
<1>8. QED
  BY <1>5, <1>6, <1>7 DEF TypesInv

\* A step that stores nothing and keeps what it has in memory.
LEMMA GoOnTypes ==
  ASSUME MInv, TypesInv, NEW r \in Requests, NEW label, pc' = [pc EXCEPT ![r] = label],
         UNCHANGED <<op, entity, via>>, \A o \in Orders : ColumnsOK(o)',
         label # "items",
         label = "lines" => \A o \in InMemory(r) : Fits(entity[r][o].total)
  PROVE  TypesInv'
<1>1. /\ pc'[r] = label /\ op[r] \in Kinds
      /\ op' = [op EXCEPT ![r] = op[r]] /\ entity' = [entity EXCEPT ![r] = entity[r]]
  BY DEF MInv, MoneyTypes, TypesInv
<1>2. MemoryOK(r)'
  BY <1>1 DEF MemoryOK, InMemory, TypesInv
<1>3. /\ op' \in [Requests -> Kinds]
      /\ \A q \in Requests : MemoryOK(q)'
  BY <1>1, <1>2, StepTypes
<1>4. QED
  BY <1>3 DEF TypesInv

\* Of every action, the step in which a request goes on.
LEMMA CreateTypes ==
  ASSUME MInv, TypesInv, NEW r \in Requests, NEW o \in Orders,
         InsertRow(r, o) \/ InsertLine(r, o) \/ Commit(r, o) \/ CommitUnknown(r, o)
  PROVE  TypesInv'
<1>1. pc = [q \in Requests |-> pc[q]] /\ InMemory(r) \subseteq Orders
  BY DEF MInv, MoneyTypes
<1>2. \A p \in InMemory(r) : pc[r] \in {"row", "lines"} /\ o \in InMemory(r) => p = o
  BY DEF MInv, RequestOK
<1>3. CASE InsertRow(r, o)
  <2>1. /\ pc' = [pc EXCEPT ![r] = "lines"] /\ UNCHANGED <<stored, total, items, op, entity, via>>
        /\ \A p \in InMemory(r) : Fits(entity[r][p].total)
    BY <1>2, <1>3 DEF InsertRow, Goto
  <2>2. \A p \in Orders : ColumnsOK(p)'
    BY <2>1 DEF TypesInv, ColumnsOK
  <2>3. QED
    BY <2>1, <2>2, GoOnTypes
<1>4. CASE InsertLine(r, o)
  <2>1. /\ pc[r] = "lines" /\ UNCHANGED <<stored, total, items, op, entity, via, pc>>
        /\ pc' = [pc EXCEPT ![r] = "lines"]
    BY <1>1, <1>4 DEF InsertLine
  <2>2. \A p \in Orders : ColumnsOK(p)'
    BY <2>1 DEF TypesInv, ColumnsOK
  <2>3. \A p \in InMemory(r) : Fits(entity[r][p].total)
    BY <2>1 DEF TypesInv, MemoryOK
  <2>4. QED
    BY <2>1, <2>2, <2>3, GoOnTypes
<1>5. ASSUME AllInserted(r, o), MakeVisible(r, o)
      PROVE  (\A p \in Orders : ColumnsOK(p)') /\ UNCHANGED via
  <2>1. Fits(entity[r][o].total)
    BY <1>5 DEF AllInserted, TypesInv, MemoryOK
  <2>2. /\ stored' = stored \cup {o} /\ total' = [total EXCEPT ![o] = Round(entity[r][o].total)]
        /\ items' = [items EXCEPT ![o] = inserted[r]] /\ UNCHANGED via
    BY <1>5 DEF MakeVisible
  <2>3. \A p \in Orders : p # o => items'[p] = items[p]
    BY <2>2 DEF MInv, MoneyTypes
  <2>4. QED
    BY <2>1, <2>2, <2>3, WrittenFits
<1>6. CASE Commit(r, o)
  <2>1. pc' = [pc EXCEPT ![r] = "tell"] /\ UNCHANGED <<op, entity>>
    BY <1>6 DEF Commit, Goto
  <2>2. (\A p \in Orders : ColumnsOK(p)') /\ UNCHANGED via
    BY <1>5, <1>6 DEF Commit
  <2>3. QED
    BY <2>1, <2>2, GoOnTypes
<1>7. CASE CommitUnknown(r, o)
  <2>1. End(r) /\ (\A p \in Orders : ColumnsOK(p)') /\ UNCHANGED via
    BY <1>5, <1>7 DEF CommitUnknown
  <2>2. QED
    BY <2>1, EndTypes DEF TypesInv
<1>8. QED
  BY <1>3, <1>4, <1>6, <1>7

LEMMA WriteTypes ==
  ASSUME MInv, TypesInv, NEW r \in Requests, NEW o \in Orders, Write(r, o) \/ WriteUnknown(r, o)
  PROVE  TypesInv'
<1>1. Rewrite(r, o)
  BY DEF Write, WriteUnknown
<1>2. /\ o \in InMemory(r) /\ pc[r] = "write" /\ Fits(entity[r][o].total)
      /\ total' = [total EXCEPT ![o] = Round(entity[r][o].total)]
      /\ UNCHANGED <<stored, items, via>>
  BY <1>1 DEF Rewrite
<1>3. o \in stored
  BY <1>2 DEF MInv, RequestOK, Holds
<1>4. stored' = stored \cup {o} /\ \A p \in Orders : p # o => items'[p] = items[p]
  BY <1>2, <1>3
<1>5. \A p \in Orders : ColumnsOK(p)'
  BY <1>2, <1>4, WrittenFits
<1>6. CASE Write(r, o)
  <2>1. pc' = [pc EXCEPT ![r] = "tell"] /\ UNCHANGED <<op, entity>>
    BY <1>6 DEF Write, Goto
  <2>2. QED
    BY <1>2, <1>5, <2>1, GoOnTypes
<1>7. CASE WriteUnknown(r, o)
  <2>1. End(r)
    BY <1>7 DEF WriteUnknown
  <2>2. QED
    BY <1>2, <1>5, <2>1, EndTypes DEF TypesInv
<1>8. QED
  BY <1>6, <1>7

LEMMA ReadRowsTypes ==
  ASSUME MInv, TypesInv, NEW r \in Requests, NEW kind \in {"get", "list", "update"},
         NEW os \in SUBSET Orders, ReadRows(r, kind, os)
  PROVE  TypesInv'
<1> DEFINE es == [o \in os |-> [Blank EXCEPT !.total = total[o]]]
<1>1. /\ pc' = [pc EXCEPT ![r] = "items"] /\ op' = [op EXCEPT ![r] = kind] /\ kind \in Kinds
      /\ entity' = [entity EXCEPT ![r] = es] /\ UNCHANGED <<stored, total, items, via>>
      /\ os \subseteq stored
  BY DEF ReadRows, Goto, Kinds
<1>2. \A o \in os : es[o].total \in Nat
  <2>1. ASSUME NEW o \in os
        PROVE  es[o].total = total[o] /\ total[o] \in Nat
    <3>1. PICK lines \in Versions(o) : total[o] = Round(Total(lines))
      BY <1>1, <2>1 DEF MInv, OrderOK
    <3>2. lines \in Seq(Line)
      BY <3>1, <2>1, MadeLines DEF MInv
    <3>3. es[o].total = total[o]
      BY <2>1 DEF Blank
    <3>4. QED
      BY <3>1, <3>2, <3>3, TotalIsWhole
  <2>2. QED
    BY <2>1
<1>3. DOMAIN es = os /\ es = [o \in os |-> es[o]]
  OBVIOUS
<1> HIDE DEF es
<1>4. pc'[r] = "items" /\ entity'[r] = es
  BY <1>1 DEF MInv, MoneyTypes
<1>5. MemoryOK(r)'
  BY <1>2, <1>3, <1>4 DEF MemoryOK, InMemory
<1>6. op' \in [Requests -> Kinds] /\ \A q \in Requests : MemoryOK(q)'
  BY <1>1, <1>5, StepTypes
<1>7. \A o \in Orders : ColumnsOK(o)'
  BY <1>1 DEF TypesInv, ColumnsOK
<1>8. QED
  BY <1>1, <1>6, <1>7 DEF TypesInv

LEMMA ReadItemsTypes ==
  ASSUME MInv, TypesInv, NEW r \in Requests, ReadItems(r)
  PROVE  TypesInv'
<1> DEFINE es == [o \in InMemory(r) |-> Recalculated([entity[r][o] EXCEPT !.lines = items[o]])]
           label == IF op[r] = "update" THEN "write" ELSE "tell"
<1>1. /\ pc' = [pc EXCEPT ![r] = label] /\ UNCHANGED <<stored, total, items, op, via>>
      /\ entity' = [entity EXCEPT ![r] = es] /\ entity = [q \in Requests |-> entity[q]]
  BY DEF ReadItems, Goto, MInv, MoneyTypes
<1>2. DOMAIN es = InMemory(r) /\ es = [o \in InMemory(r) |-> es[o]] /\ label \notin {"items", "lines"}
  OBVIOUS
<1> HIDE DEF es, label
<1>3. pc'[r] = label /\ entity'[r] = es /\ op[r] \in Kinds /\ op' = [op EXCEPT ![r] = op[r]]
  BY <1>1 DEF MInv, MoneyTypes, TypesInv
<1>4. MemoryOK(r)'
  BY <1>2, <1>3 DEF MemoryOK, InMemory
<1>5. op' \in [Requests -> Kinds] /\ \A q \in Requests : MemoryOK(q)'
  BY <1>1, <1>3, <1>4, StepTypes
<1>6. \A o \in Orders : ColumnsOK(o)'
  BY <1>1 DEF TypesInv, ColumnsOK
<1>7. QED
  BY <1>1, <1>5, <1>6 DEF TypesInv

LEMMA NextTypesInv == MInv /\ TypesInv /\ [Next]_vars => TypesInv'
<1> SUFFICES ASSUME MInv, TypesInv, [Next]_vars
             PROVE  TypesInv'
  OBVIOUS
<1>1. ASSUME NEW r \in Requests, NEW o \in Orders, NEW cart \in Carts,
             NEW how \in {"api", "checkout"}, Submit(r, o, cart, how)
      PROVE  TypesInv'
  BY <1>1, SubmitTypes
<1>2. ASSUME NEW r \in Requests, NEW o \in Orders,
             InsertRow(r, o) \/ InsertLine(r, o) \/ Commit(r, o) \/ CommitUnknown(r, o)
      PROVE  TypesInv'
  BY <1>2, CreateTypes
<1>3. ASSUME NEW r \in Requests, NEW o \in Orders, Write(r, o) \/ WriteUnknown(r, o)
      PROVE  TypesInv'
  BY <1>3, WriteTypes
<1>4. ASSUME NEW r \in Requests, CreateFails(r) \/ Withhold(r) \/ Tell(r)
      PROVE  TypesInv'
  <2>1. End(r) /\ UNCHANGED <<stored, total, items, via>>
    BY <1>4 DEF CreateFails, Withhold, Tell
  <2>2. \A o \in Orders : ColumnsOK(o)'
    BY <2>1 DEF TypesInv, ColumnsOK
  <2>3. QED
    BY <1>4, <2>1, <2>2, EndTypes DEF TypesInv
<1>5. ASSUME NEW r \in Requests, NEW kind \in {"get", "list", "update"}, NEW os \in SUBSET Orders,
             ReadRows(r, kind, os)
      PROVE  TypesInv'
  BY <1>5, ReadRowsTypes
<1>6. ASSUME NEW r \in Requests, ReadItems(r)
      PROVE  TypesInv'
  BY <1>6, ReadItemsTypes
<1>7. CASE UNCHANGED vars
  BY <1>7 DEF vars, TypesInv, ColumnsOK, MemoryOK, InMemory
<1>8. QED
  BY <1>1, <1>2, <1>3, <1>4, <1>5, <1>6, <1>7 DEF Next

\* An Order with lines is one, and so is what is shown of it.
LEMMA OfType ==
  ASSUME NEW lines \in Seq(Line)
  PROVE  Of(lines) \in Entity /\ Shown(Of(lines)) \in [lines : Seq(ShownLine), total : Nat]
<1> DEFINE n == Len(lines)
           shown == [i \in 1..n |-> [quantity |-> lines[i].quantity,
                                     unitPrice |-> Round(lines[i].unitPrice),
                                     subtotal |-> Subtotal(lines[i])]]
<1>1. n \in Nat /\ DOMAIN lines = 1..n /\ \A i \in 1..n : lines[i] \in Line
  OBVIOUS
<1>2. Total(lines) \in Nat /\ Round(Total(lines)) \in Nat
  BY TotalIsWhole
<1>3. Of(lines) \in Entity
  BY <1>2 DEF Of, Entity
<1>4. ASSUME NEW line \in Line
      PROVE  [quantity |-> line.quantity, unitPrice |-> Round(line.unitPrice),
              subtotal |-> Subtotal(line)] \in ShownLine
  BY RoundIsNear, SubtotalIsNear DEF Line, ShownLine
<1>5. shown \in Seq(ShownLine)
  BY <1>1, <1>4
<1>6. Shown(Of(lines)) = [lines |-> shown, total |-> Round(Total(lines))]
  BY <1>1 DEF Shown, Of
<1>7. QED
  BY <1>2, <1>3, <1>5, <1>6

\* Every variable keeps its type, and a stored total fits its column.
THEOREM MoneyTypeCorrect == Spec => []MoneyTypeOK
<1>1. ASSUME MInv, TypesInv
      PROVE  MoneyTypeOK
  <2> DEFINE none == <<>>
  <2>0. none \in Seq(Line)
    OBVIOUS
  <2> HIDE DEF none
  <2>1. ASSUME NEW o \in Orders
        PROVE  total[o] \in Nat /\ items[o] \in Seq(Line) /\ (o \in stored => total[o] <= MaxAmount)
    <3>1. CASE o \notin stored
      <4>1. total[o] = 0 /\ items[o] = none
        BY <1>1, <3>1 DEF TypesInv, ColumnsOK, none
      <4>2. QED
        BY <2>0, <3>1, <4>1
    <3>2. CASE o \in stored
      <4>1. items[o] = Kept(Made(o)) /\ \E lines \in Versions(o) : total[o] = Round(Total(lines))
        BY <1>1, <3>2 DEF MInv, OrderOK
      <4>2. QED
        BY <1>1, <3>2, <4>1, MadeLines, TotalIsWhole DEF MInv, TypesInv, ColumnsOK
    <3>3. QED
      BY <3>1, <3>2
  <2>2. total \in [Orders -> Nat] /\ items \in [Orders -> Seq(Line)]
    BY <1>1, <2>1 DEF MInv, MoneyTypes
  <2>3. ASSUME NEW o \in Orders
        PROVE  told[o] \subseteq [lines : Seq(ShownLine), total : Nat]
    BY <1>1, MadeLines, OfType DEF MInv, OrderOK
  <2>4. ASSUME NEW r \in Requests, NEW o \in InMemory(r)
        PROVE  entity[r][o] \in Entity
    <3>1. o \in Orders /\ Holds(r, o) /\ pc[r] \in PCs
      BY <1>1 DEF MInv, MoneyTypes, RequestOK
    <3>2. CASE pc[r] = "items"
      <4>1. entity[r][o] = [total |-> entity[r][o].total, lines |-> none] /\ entity[r][o].total \in Nat
        BY <1>1, <3>1, <3>2 DEF Holds, TypesInv, MemoryOK, none
      <4>2. QED
        BY <2>0, <4>1 DEF Entity
    <3>3. CASE pc[r] # "items"
      <4>1. pc[r] # "idle"
        BY <1>1 DEF MInv, RequestOK
      <4>2. \E lines \in Versions(o) : entity[r][o] = Of(lines)
        BY <3>1, <3>3, <4>1 DEF Holds, PCs, Versions
      <4>3. QED
        BY <1>1, <3>1, <4>2, MadeLines, OfType DEF MInv
    <3>4. QED
      BY <3>2, <3>3
  <2>5. \A r \in Requests : InMemory(r) \subseteq Orders /\ entity[r] \in [InMemory(r) -> Entity]
    BY <1>1, <2>4 DEF TypesInv, MemoryOK, MInv, MoneyTypes
  <2>6. op \in [Requests -> {"none", "create", "get", "list", "update"}]
    BY <1>1 DEF TypesInv, Kinds
  <2>7. QED
    BY <1>1, <2>1, <2>2, <2>3, <2>5, <2>6 DEF MoneyTypeOK, MInv, MoneyTypes, TypesInv
<1>2. Spec => []TypesInv
  BY MoneyInvariant, InitTypesInv, NextTypesInv, PTL DEF Spec
<1>3. QED
  BY <1>1, <1>2, MoneyInvariant, PTL
=============================================================================
