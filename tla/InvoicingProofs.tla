--------------------------- MODULE InvoicingProofs --------------------------
(***************************************************************************)
(* For any number of rows, clients and ids, and any limit: an invoice has  *)
(* the exact price of its items, a walk through a list never goes back and *)
(* misses nothing that was there all along, and an invoice is shown with   *)
(* attempts that explain its status.  By the induction of PriceInv and     *)
(* ListsInv, and of DueInv and DetailInv given that.                       *)
(***************************************************************************)
EXTENDS Invoicing, FiniteSetTheorems, SequenceTheorems, WellFoundedInduction, TLAPS

-----------------------------------------------------------------------------
(* What a request is priced at *)

(* Amounts are integers. *)
LEMMA AmountsAreInts == 2^(Bits - 1) \in Int
BY CapFits

(* What is not above the cap is an amount. *)
LEMMA CapIsAmount == 0 .. MaxTotal \subseteq Amount
BY CapFits DEF Amount

(* The least of some numbers, and by it the induction over numbers: what   *)
(* 0 has, and n + 1 if n has it, every number has.                         *)
LEMMA Least ==
  ASSUME NEW T, T \subseteq Nat, T # {}
  PROVE  \E x \in T : \A y \in T : x <= y
<1>1. PICK x \in T : \A y \in T : ~(<<y, x>> \in OpToRel(<, Nat))
  BY WFMin, NatLessThanWellFounded, Zenon
<1>2. \A y \in T : ~(y < x)
  BY <1>1 DEF OpToRel
<1>q. QED BY <1>2

LEMMA Induction ==
  ASSUME NEW T, 0 \in T, \A n \in Nat : n \in T => n + 1 \in T
  PROVE  Nat \subseteq T
<1>1. SUFFICES ASSUME Nat \ T # {} PROVE FALSE
  OBVIOUS
<1>2. PICK n \in Nat \ T : \A m \in Nat \ T : n <= m
  BY <1>1, Least
<1>3. n # 0 /\ n - 1 \in Nat
  OBVIOUS
<1>4. n - 1 \in T
  BY <1>2, <1>3
<1>q. QED BY <1>3, <1>4

(* The partial sums satisfy their definition: by induction there is a      *)
(* function that does, up to every length.                                 *)
LEMMA SumsAre ==
  ASSUME NEW items, Len(items) \in Nat
  PROVE  Sums(items) = [n \in 0 .. Len(items) |->
            IF n = 0 THEN 0 ELSE Sums(items)[n - 1] + items[n].quantity * items[n].unit]
<1> DEFINE p(n) == items[n].quantity * items[n].unit
           Is(f, l) == f = [n \in 0 .. l |-> IF n = 0 THEN 0 ELSE f[n - 1] + p(n)]
           T == {l \in Nat : \E f : Is(f, l)}
<1>1. 0 \in T
  <2>1. Is([n \in 0 .. 0 |-> 0], 0)
    OBVIOUS
  <2>q. QED BY <2>1
<1>2. ASSUME NEW l \in Nat, l \in T PROVE l + 1 \in T
  <2>1. PICK f : Is(f, l)
    BY <1>2
  <2> DEFINE g == [n \in 0 .. l + 1 |-> IF n = l + 1 THEN f[l] + p(l + 1) ELSE f[n]]
  <2> HIDE DEF p
  <2>2. DOMAIN f = 0 .. l /\ \A n \in 0 .. l : f[n] = IF n = 0 THEN 0 ELSE f[n - 1] + p(n)
    BY <2>1
  <2>3. \A n \in 0 .. l + 1 : g[n] = IF n = 0 THEN 0 ELSE g[n - 1] + p(n)
    BY <2>2
  <2>4. Is(g, l + 1)
    BY <2>3
  <2> HIDE DEF g, Is
  <2>5. \E h : Is(h, l + 1)
    BY <2>4
  <2>q. QED BY <2>5
<1>3. Len(items) \in T
  <2> HIDE DEF T
  <2>q. QED BY <1>1, <1>2, Induction
<1>4. \E f : Is(f, Len(items))
  BY <1>3
<1>5. Sums(items) = CHOOSE f : Is(f, Len(items))
  BY DEF Sums, Zenon
<1> HIDE DEF Is
<1>6. Is(Sums(items), Len(items))
  BY <1>4, <1>5, Zenon
<1>q. QED BY <1>6 DEF Is

(* So do the turns of the loop. *)
LEMMA TurnsAre ==
  ASSUME NEW items, Len(items) \in Nat
  PROVE  Turns(items) = [n \in 0 .. Len(items) |->
            IF n = 0 THEN Empty ELSE PriceItem(Turns(items)[n - 1], items[n])]
<1> DEFINE Is(f, l) == f = [n \in 0 .. l |-> IF n = 0 THEN Empty ELSE PriceItem(f[n - 1], items[n])]
           T == {l \in Nat : \E f : Is(f, l)}
<1>1. 0 \in T
  <2>1. Is([n \in 0 .. 0 |-> Empty], 0)
    OBVIOUS
  <2>q. QED BY <2>1
<1>2. ASSUME NEW l \in Nat, l \in T PROVE l + 1 \in T
  <2>1. PICK f : Is(f, l)
    BY <1>2
  <2> DEFINE g == [n \in 0 .. l + 1 |-> IF n = l + 1 THEN PriceItem(f[l], items[l + 1]) ELSE f[n]]
  <2>2. DOMAIN f = 0 .. l /\ \A n \in 0 .. l : f[n] = IF n = 0 THEN Empty ELSE PriceItem(f[n - 1], items[n])
    BY <2>1
  <2>3. \A n \in 0 .. l + 1 : g[n] = IF n = 0 THEN Empty ELSE PriceItem(g[n - 1], items[n])
    BY <2>2
  <2>4. Is(g, l + 1)
    BY <2>3
  <2> HIDE DEF g, Is
  <2>5. \E h : Is(h, l + 1)
    BY <2>4
  <2>q. QED BY <2>5
<1>3. Len(items) \in T
  <2> HIDE DEF T
  <2>q. QED BY <1>1, <1>2, Induction
<1>4. \E f : Is(f, Len(items))
  BY <1>3
<1>5. Turns(items) = CHOOSE f : Is(f, Len(items))
  BY DEF Turns, Zenon
<1> HIDE DEF Is
<1>6. Is(Turns(items), Len(items))
  BY <1>4, <1>5, Zenon
<1>q. QED BY <1>6 DEF Is

(* The one amount of an Option that has one. *)
LEMMA OneAmount == \A a : (CHOOSE x \in {a} : TRUE) = a
OBVIOUS

(* An item that price has nothing against, taken by itself, but for the cap. *)
Sound(item) == item.described /\ item.quantity > 0 /\ item.unit >= 0

(* What it comes to is not negative. *)
LEMMA AmountOfItem ==
  ASSUME NEW item \in LineItemInput
  PROVE  /\ item.quantity \in Int /\ item.unit \in Int /\ item.quantity * item.unit \in Int
         /\ Sound(item) => item.quantity * item.unit >= 0
<1>1. item.quantity \in Int /\ item.unit \in Int
  BY AmountsAreInts DEF LineItemInput, Amount
<1>2. \A a, b \in Int : a * b \in Int /\ (a > 0 /\ b >= 0 => a * b >= 0)
  OBVIOUS
<1>q. QED BY <1>1, <1>2 DEF Sound

(* There is an error if there is any fault. *)
LEMMA FirstErrorIsFault ==
  ASSUME NEW total, NEW item
  PROVE  FirstError(total, item) = NoError <=> \A n \in DOMAIN Refusals : ~Faults(total, item)[Refusals[n]]
<1> DEFINE wrong == {n \in DOMAIN Refusals : Faults(total, item)[Refusals[n]]}
<1>1. DOMAIN Refusals = {1, 2, 3, 4, 5} /\ \A n \in DOMAIN Refusals : Refusals[n] # NoError
  BY DEF Refusals, NoError
<1>2. wrong \subseteq {1, 2, 3, 4, 5}
  BY <1>1
<1>3. FirstError(total, item) = IF wrong = {} THEN NoError ELSE Refusals[Min(wrong)]
  BY DEF FirstError
<1>4. wrong = {} <=> \A n \in DOMAIN Refusals : ~Faults(total, item)[Refusals[n]]
  OBVIOUS
<1> HIDE DEF wrong
<1>5. ASSUME wrong # {} PROVE Min(wrong) \in wrong
  <2>1. wrong \subseteq Nat
    BY <1>2
  <2>2. \E x \in wrong : \A y \in wrong : x <= y
    BY <1>5, <2>1, Least, Zenon
  <2>q. QED BY <2>2, Zenon DEF Min
<1>q. QED BY <1>1, <1>2, <1>3, <1>4, <1>5

(* Faults are exactly these: an item that is not sound, or one that takes  *)
(* the total, over the integers, above the cap; otherwise nothing overflows. *)
LEMMA FaultsOfItem ==
  ASSUME NEW total \in 0 .. MaxTotal, NEW item \in LineItemInput
  PROVE  LET p == item.quantity * item.unit IN
         /\ FirstError(total, item) = NoError <=> Sound(item) /\ total + p <= MaxTotal
         /\ FirstError(total, item) = NoError => LineAmount(item) = {p} /\ NewTotal(total, item) = {total + p}
<1> DEFINE p == item.quantity * item.unit
<1>1. p \in Int /\ (Sound(item) => p >= 0) /\ MaxTotal \in Int /\ item.described \in BOOLEAN
      /\ item.quantity \in Int /\ item.unit \in Int
  BY AmountOfItem, CapFits DEF LineItemInput
<1>2. LineAmount(item) = {a \in {p} \cap Amount : a <= MaxTotal}
  BY DEF LineAmount, WithinCap, CheckedMul
<1>3. FirstError(total, item) = NoError <=>
         Sound(item) /\ LineAmount(item) # {} /\ NewTotal(total, item) # {}
  <2>1. FirstError(total, item) = NoError <=> \A f \in {"described", "quantity", "unit", "product", "sum"} : ~Faults(total, item)[f]
    <3>1. {Refusals[n] : n \in DOMAIN Refusals} = {"described", "quantity", "unit", "product", "sum"}
      BY DEF Refusals
    <3>q. QED BY <3>1, FirstErrorIsFault
  <2>2. /\ Faults(total, item)["described"] = ~item.described
        /\ Faults(total, item)["quantity"] = (item.quantity <= 0)
        /\ Faults(total, item)["unit"] = (item.unit < 0)
        /\ Faults(total, item)["product"] = (LineAmount(item) = {})
        /\ Faults(total, item)["sum"] = (NewTotal(total, item) = {})
    BY DEF Faults
  <2>3. FirstError(total, item) = NoError <=>
           /\ item.described /\ ~(item.quantity <= 0) /\ ~(item.unit < 0)
           /\ LineAmount(item) # {} /\ NewTotal(total, item) # {}
    BY <2>1, <2>2, Zenon
  <2>q. QED BY <1>1, <2>3 DEF Sound
<1> HIDE DEF p
<1>4. CASE LineAmount(item) = {}
  <2>1. ~(Sound(item) /\ total + p <= MaxTotal)
    BY <1>1, <1>2, <1>4, CapIsAmount
  <2>q. QED BY <1>3, <1>4, <2>1 DEF p
<1>5. CASE LineAmount(item) # {}
  <2>1. LineAmount(item) = {p} /\ p <= MaxTotal
    BY <1>2, <1>5
  <2>2. NewTotal(total, item) = {a \in {total + p} \cap Amount : a <= MaxTotal}
    BY <2>1 DEF NewTotal, WithinCap, CheckedAdd
  <2>3. Sound(item) /\ total + p <= MaxTotal => NewTotal(total, item) = {total + p}
    BY <1>1, <2>2, CapIsAmount
  <2>4. NewTotal(total, item) # {} => NewTotal(total, item) = {total + p} /\ total + p <= MaxTotal
    BY <2>2
  <2>q. QED BY <1>3, <1>5, <2>1, <2>3, <2>4 DEF p
<1>q. QED BY <1>4, <1>5

(* So a turn adds the exact amount, or ends the loop with an error. *)
LEMMA OneTurn ==
  ASSUME NEW total \in 0 .. MaxTotal, NEW lines, NEW item \in LineItemInput
  PROVE  LET p == item.quantity * item.unit
             next == PriceItem([error |-> NoError, total |-> total, lines |-> lines], item) IN
         IF Sound(item) /\ total + p <= MaxTotal
         THEN next = [error |-> NoError, total |-> total + p,
                      lines |-> Append(lines, [quantity |-> item.quantity, unit |-> item.unit, amount |-> p])]
         ELSE next.error # NoError
<1> DEFINE p == item.quantity * item.unit
           before == [error |-> NoError, total |-> total, lines |-> lines]
<1>1. CASE FirstError(total, item) # NoError
  <2>1. PriceItem(before, item).error = FirstError(total, item)
    BY <1>1 DEF PriceItem
  <2>q. QED BY <1>1, <2>1, FaultsOfItem
<1>2. CASE FirstError(total, item) = NoError
  <2>1. LineAmount(item) = {p} /\ NewTotal(total, item) = {total + p} /\ Sound(item) /\ total + p <= MaxTotal
    BY <1>2, FaultsOfItem
  <2>2. (CHOOSE x \in LineAmount(item) : TRUE) = p /\ (CHOOSE x \in NewTotal(total, item) : TRUE) = total + p
    BY <2>1, OneAmount, Zenon
  <2>3. PriceItem(before, item) =
          [error |-> NoError, total |-> CHOOSE x \in NewTotal(total, item) : TRUE,
           lines |-> Append(lines, [quantity |-> item.quantity, unit |-> item.unit,
                                    amount |-> CHOOSE x \in LineAmount(item) : TRUE])]
    BY <1>2 DEF PriceItem
  <2>q. QED BY <2>1, <2>2, <2>3
<1>q. QED BY <1>1, <1>2

(* Up to the n-th item. *)
SoundTo(items, n) == \A k \in 1 .. n : Sound(items[k])

Lines(items, n) ==
    [k \in 1 .. n |-> [quantity |-> items[k].quantity, unit |-> items[k].unit,
                       amount |-> items[k].quantity * items[k].unit]]

(* After n turns: the exact sum with its lines, or an error. *)
Exact(items, n) ==
    /\ Sums(items)[n] \in Int
    /\ SoundTo(items, n) => Sums(items)[n] >= 0
    /\ IF SoundTo(items, n) /\ Sums(items)[n] <= MaxTotal
       THEN Turns(items)[n] = [error |-> NoError, total |-> Sums(items)[n], lines |-> Lines(items, n)]
       ELSE Turns(items)[n].error # NoError

(* The lines, one by one. *)
LEMMA NoLines == \A items : Lines(items, 0) = <<>>
BY DEF Lines

LEMMA OneMoreLine ==
  ASSUME NEW items, NEW n \in Nat
  PROVE  Lines(items, n + 1) = Append(Lines(items, n),
            [quantity |-> items[n + 1].quantity, unit |-> items[n + 1].unit,
             amount |-> items[n + 1].quantity * items[n + 1].unit])
<1> DEFINE line(k) == [quantity |-> items[k].quantity, unit |-> items[k].unit,
                       amount |-> items[k].quantity * items[k].unit]
           S == {line(k) : k \in 1 .. n + 1}
<1>1. Lines(items, n) = [k \in 1 .. n |-> line(k)] /\ Lines(items, n + 1) = [k \in 1 .. n + 1 |-> line(k)]
  BY DEF Lines
<1>2. \A k \in 1 .. n + 1 : line(k) \in S
  OBVIOUS
<1> HIDE DEF line, S
<1>3. [k \in 1 .. n |-> line(k)] \in Seq(S) /\ Len([k \in 1 .. n |-> line(k)]) = n /\ line(n + 1) \in S
  BY <1>2
<1>4. [k \in 1 .. n + 1 |-> line(k)] = Append([k \in 1 .. n |-> line(k)], line(n + 1))
  BY <1>3
<1>q. QED BY <1>1, <1>4 DEF line

(* By induction over the turns; a sum above the cap stays above it. *)
LEMMA EveryTurnIsExact ==
  ASSUME NEW items \in Seq(LineItemInput)
  PROVE  \A n \in 0 .. Len(items) : Exact(items, n)
<1> DEFINE p(k) == items[k].quantity * items[k].unit
           T == {n \in Nat : n <= Len(items) => Exact(items, n)}
<1>1. Len(items) \in Nat /\ \A k \in 1 .. Len(items) : items[k] \in LineItemInput
  OBVIOUS
<1>2. /\ Sums(items)[0] = 0 /\ Turns(items)[0] = Empty
      /\ \A n \in 0 .. Len(items) - 1 :
            /\ Sums(items)[n + 1] = Sums(items)[n] + p(n + 1)
            /\ Turns(items)[n + 1] = PriceItem(Turns(items)[n], items[n + 1])
  BY <1>1, SumsAre, TurnsAre
<1>3. 0 \in T
  <2>1. SoundTo(items, 0)
    BY DEF SoundTo
  <2>2. Exact(items, 0)
    BY <1>2, <2>1, NoLines, CapFits DEF Exact, Empty
  <2>q. QED BY <2>2
<1>4. ASSUME NEW n \in Nat, n \in T PROVE n + 1 \in T
  <2>1. SUFFICES ASSUME n + 1 <= Len(items) PROVE Exact(items, n + 1)
    OBVIOUS
  <2>2. Exact(items, n) /\ n \in 0 .. Len(items) - 1 /\ items[n + 1] \in LineItemInput
    BY <1>1, <1>4, <2>1
  <2>3. p(n + 1) \in Int /\ (Sound(items[n + 1]) => p(n + 1) >= 0)
    BY <2>2, AmountOfItem
  <2>4. SoundTo(items, n + 1) <=> SoundTo(items, n) /\ Sound(items[n + 1])
    BY DEF SoundTo
  <2>5. /\ Sums(items)[n + 1] = Sums(items)[n] + p(n + 1)
        /\ Turns(items)[n + 1] = PriceItem(Turns(items)[n], items[n + 1])
    BY <1>2, <2>2
  <2> DEFINE sum == Sums(items)[n]
  <2>6. /\ sum \in Int /\ (SoundTo(items, n) => sum >= 0)
        /\ Sums(items)[n + 1] \in Int /\ (SoundTo(items, n + 1) => Sums(items)[n + 1] >= 0)
    BY <2>2, <2>3, <2>4, <2>5 DEF Exact
  <2>7. CASE SoundTo(items, n) /\ sum <= MaxTotal
    <3>1. sum \in 0 .. MaxTotal
      BY <2>6, <2>7, CapFits
    <3>2. Turns(items)[n] = [error |-> NoError, total |-> sum, lines |-> Lines(items, n)]
      BY <2>2, <2>7 DEF Exact
    <3>3. IF Sound(items[n + 1]) /\ sum + p(n + 1) <= MaxTotal
          THEN Turns(items)[n + 1] = [error |-> NoError, total |-> sum + p(n + 1), lines |-> Lines(items, n + 1)]
          ELSE Turns(items)[n + 1].error # NoError
      BY <2>2, <2>5, <3>1, <3>2, OneTurn, OneMoreLine
    <3> HIDE DEF p
    <3>q. QED BY <2>4, <2>5, <2>6, <2>7, <3>3 DEF Exact
  <2>8. CASE ~(SoundTo(items, n) /\ sum <= MaxTotal)
    <3>1. Turns(items)[n].error # NoError
      BY <2>2, <2>8 DEF Exact
    <3>2. Turns(items)[n + 1].error # NoError
      BY <2>5, <3>1 DEF PriceItem
    <3>3. ~(SoundTo(items, n + 1) /\ Sums(items)[n + 1] <= MaxTotal)
      BY <2>3, <2>4, <2>5, <2>6, <2>8, CapFits
    <3>q. QED BY <2>6, <3>2, <3>3 DEF Exact
  <2>q. QED BY <2>7, <2>8
<1>5. Nat \subseteq T
  <2> HIDE DEF T
  <2>q. QED BY <1>3, <1>4, Induction
<1>q. QED BY <1>1, <1>5

(* What is summed are quantities and units. *)
LEMMA SumOfLines ==
  ASSUME NEW items, Len(items) \in Nat, NEW lines, Len(lines) = Len(items),
         \A k \in 1 .. Len(items) : lines[k].quantity = items[k].quantity /\ lines[k].unit = items[k].unit
  PROVE  Sum(lines) = Sum(items)
<1> DEFINE T == {n \in Nat : n <= Len(items) => Sums(lines)[n] = Sums(items)[n]}
<1>1. \A n \in 0 .. Len(items) :
        /\ Sums(items)[n] = IF n = 0 THEN 0 ELSE Sums(items)[n - 1] + items[n].quantity * items[n].unit
        /\ Sums(lines)[n] = IF n = 0 THEN 0 ELSE Sums(lines)[n - 1] + items[n].quantity * items[n].unit
  BY SumsAre
<1>2. 0 \in T
  BY <1>1
<1>3. ASSUME NEW n \in Nat, n \in T PROVE n + 1 \in T
  BY <1>1, <1>3
<1>4. Len(items) \in T
  <2> HIDE DEF T
  <2>q. QED BY <1>2, <1>3, Induction
<1>q. QED BY <1>4 DEF Sum

(* price, for every list of items, every width and every cap: it refuses   *)
(* exactly what may not be paid, and its total and lines are exact.        *)
LEMMA PriceIsExact ==
  ASSUME NEW items \in Seq(LineItemInput)
  PROVE  /\ Price(items).error = NoError <=> Payable(items)
         /\ Price(items).error = NoError =>
               /\ Checked(Price(items))
               /\ Price(items).total = Sum(items)
               /\ Price(items).total = Sum(Price(items).lines)
               /\ Len(Price(items).lines) = Len(items)
<1> DEFINE n == Len(items)
           sum == Sums(items)[n]
<1>1. n \in Nat /\ DOMAIN items = 1 .. n /\ Exact(items, n) /\ Sum(items) = sum
  BY EveryTurnIsExact DEF Sum
<1>2. Payable(items) <=> n \in 1 .. MaxLineItems /\ SoundTo(items, n) /\ sum \in 1 .. MaxTotal
  BY <1>1 DEF Payable, SoundTo, Sound
<1>3. NoError # "line_items" /\ NoError # "zero"
  BY DEF NoError
<1>4. CASE n \notin 1 .. MaxLineItems
  <2>1. Price(items).error # NoError
    BY <1>3, <1>4 DEF Price, Empty
  <2>q. QED BY <1>2, <1>4, <2>1
<1>5. CASE n \in 1 .. MaxLineItems /\ SoundTo(items, n) /\ sum <= MaxTotal
  <2>1. Turns(items)[n] = [error |-> NoError, total |-> sum, lines |-> Lines(items, n)]
    BY <1>1, <1>5 DEF Exact
  <2>2. sum \in 0 .. MaxTotal
    BY <1>1, <1>5, CapFits DEF Exact
  <2>3. CASE sum = 0
    <3>1. Price(items).error # NoError
      BY <1>3, <1>5, <2>1, <2>3 DEF Price
    <3>q. QED BY <1>2, <2>3, <3>1
  <2>4. CASE sum # 0
    <3>1. Price(items) = [error |-> NoError, total |-> sum, lines |-> Lines(items, n)]
      BY <1>5, <2>1, <2>4 DEF Price
    <3>2. Payable(items)
      BY <1>2, <1>5, <2>2, <2>4
    <3>3. Len(Lines(items, n)) = n /\ Sum(Lines(items, n)) = Sum(items)
      <4>1. Len(Lines(items, n)) = n
        BY <1>1 DEF Lines
      <4>2. \A k \in 1 .. n : Lines(items, n)[k].quantity = items[k].quantity /\ Lines(items, n)[k].unit = items[k].unit
        BY DEF Lines
      <4>q. QED BY <1>1, <4>1, <4>2, SumOfLines
    <3>4. Checked(Price(items))
      <4>1. \A line \in Range(Lines(items, n)) : \E k \in 1 .. n : line = Lines(items, n)[k]
        BY DEF Range, Lines
      <4>2. \A k \in 1 .. n : LET line == Lines(items, n)[k] IN
               line.quantity > 0 /\ line.unit >= 0 /\ line.amount = line.quantity * line.unit
        BY <1>5 DEF Lines, SoundTo, Sound
      <4>3. sum > 0
        BY <2>2, <2>4
      <4>q. QED BY <3>1, <4>1, <4>2, <4>3 DEF Checked
    <3>q. QED BY <1>1, <3>1, <3>2, <3>3, <3>4
  <2>q. QED BY <2>3, <2>4
<1>6. CASE n \in 1 .. MaxLineItems /\ ~(SoundTo(items, n) /\ sum <= MaxTotal)
  <2>1. Turns(items)[n].error # NoError
    BY <1>1, <1>6 DEF Exact
  <2>2. Price(items).error # NoError
    BY <1>6, <2>1 DEF Price
  <2>3. ~Payable(items)
    BY <1>2, <1>6
  <2>q. QED BY <2>2, <2>3
<1>q. QED BY <1>4, <1>5, <1>6

(* Every creation ends as its price says. *)
LEMMA PriceStep == TypeOK /\ PriceInv /\ [Next]_vars => PriceInv'
<1> SUFFICES ASSUME TypeOK, PriceInv, [Next]_vars PROVE PriceInv'
  OBVIOUS
<1>1. ASSUME NEW c \in Creation, ask' = ask, DOMAIN quote' = Creation,
             \A b \in Creation \ {c} : stage'[b] = stage[b] /\ quote'[b] = quote[b],
             LET priced == Price(ask[c].items) IN
                /\ stage'[c] # "failed"
                /\ stage'[c] = "refused" => ask[c] # Null /\ (ask[c].usd => priced.error # NoError)
                /\ stage'[c] = "not_found" => ask[c] # Null /\ priced.error = NoError
                /\ stage'[c] \in {"inserted", "created"} =>
                      ask[c] # Null /\ ask[c].usd /\ priced.error = NoError /\ quote'[c] = priced
      PROVE  PriceInv'
  BY <1>1 DEF PriceInv, Parsed
<1>2. CASE UNCHANGED createVars
  BY <1>2 DEF createVars, PriceInv, Parsed
<1>3. ASSUME NEW c \in Creation, RefuseInvoice(c) PROVE PriceInv'
  BY <1>1, <1>3 DEF RefuseInvoice, Advance, PriceInv, TypeOK
<1>4. ASSUME NEW c \in Creation, CustomerNotFound(c) PROVE PriceInv'
  BY <1>1, <1>4 DEF CustomerNotFound, Advance, PriceInv, TypeOK
<1>5. ASSUME NEW c \in Creation, InsertInvoice(c) PROVE PriceInv'
  <2> DEFINE priced == Price(ask[c].items)
  <2>1. /\ ask' = ask /\ ask[c] # Null /\ ask[c].usd /\ priced.error = NoError
        /\ quote' = [quote EXCEPT ![c] = priced]
        /\ stage' = [stage EXCEPT ![c] = IF Checked(priced) THEN "inserted" ELSE "failed"]
    BY <1>5 DEF InsertInvoice, Advance
  <2>2. Checked(priced)
    BY <2>1, PriceIsExact DEF PriceInv, Parsed
  <2> HIDE DEF priced
  <2>q. QED BY <1>1, <2>1, <2>2 DEF PriceInv, priced, TypeOK
<1>6. ASSUME NEW c \in Creation, CommitInvoice(c) PROVE PriceInv'
  BY <1>1, <1>6 DEF CommitInvoice, Advance, PriceInv, TypeOK
<1>7. ASSUME NEW c \in Creation, RollBackInvoice(c) PROVE PriceInv'
  BY <1>1, <1>7 DEF RollBackInvoice, Advance, PriceInv, TypeOK
<1>8. ASSUME \/ \E k \in Customer : CreateCustomer(k)
             \/ \E c \in Creation : VoidInvoice(c) \/ ClaimInvoice(c) \/ SettleAttempt(c)
             \/ \E w \in Client : StartWalk(w) \/ NextPage(w) \/ StartView(w)
                                   \/ (\E what \in Range(Selects) : Select(w, what))
      PROVE  PriceInv'
  <2>1. UNCHANGED createVars
    BY <1>8 DEF CreateCustomer, ApplyTransition, VoidInvoice, ClaimInvoice, SettleAttempt,
       StartWalk, NextPage, StartView, Select, clientVars
  <2>q. QED BY <1>2, <2>1
<1>9. CASE Next
  BY <1>3, <1>4, <1>5, <1>6, <1>7, <1>8, <1>9 DEF Next, Create
<1>q. QED BY <1>2, <1>9 DEF vars

-----------------------------------------------------------------------------
(* What walks meet *)

(* The rows of a page are rows of the list, before the cursor. *)
LEMMA PageIsBeforeCursor ==
  ASSUME NEW ids \in SUBSET Id, NEW cursor \in Id \cup {Null}, NEW limit \in Int
  PROVE  /\ Page(ids, cursor, limit).data \subseteq ids
         /\ cursor # Null => \A i \in Page(ids, cursor, limit).data : i < cursor
BY DEF Page, FromOverfetch, Fetch, Newest, Before

(* What a list is read from are ids. *)
LEMMA ListsAreIds ==
  ASSUME TypeOK, ListedHasId, NEW table, NEW filter
  PROVE  Ids(table, filter) \in SUBSET Id
BY DEF TypeOK, ListedHasId, Ids, Matches

(* The other actions leave the walks alone. *)
LEMMA RowStepKeepsLists ==
  ASSUME ListsInv,
         \/ \E k \in Customer : CreateCustomer(k)
         \/ \E c \in Creation : \/ Create(c) \/ VoidInvoice(c) \/ ClaimInvoice(c) \/ SettleAttempt(c)
  PROVE  ListsInv'
<1>1. ASSUME NEW k \in Customer, CreateCustomer(k) PROVE ListsInv'
  BY <1>1 DEF CreateCustomer, FreshId, ListsInv, TypeOK, ListedHasId, ListedIsCreated,
              CursorIsLast, NoRowTwice,
              createVars, clientVars
<1>2. ASSUME NEW c \in Creation, RefuseInvoice(c) \/ CustomerNotFound(c) PROVE ListsInv'
  BY <1>2 DEF RefuseInvoice, CustomerNotFound, Advance, ListsInv, TypeOK, ListedHasId,
              ListedIsCreated, CursorIsLast,
              NoRowTwice, rowVars, clientVars
<1>3. ASSUME NEW c \in Creation, InsertInvoice(c) PROVE ListsInv'
  <2>1. /\ stage' = [stage EXCEPT ![c] = "inserted"] \/ stage' = [stage EXCEPT ![c] = "failed"]
        /\ stage[c] = "asked"
        /\ UNCHANGED <<status, walk>>
        /\ \E id \in Id \ {Null} : uid' = [uid EXCEPT ![c] = id]
    BY <1>3, IdsAreOrdered, LimitsAreLimits DEF InsertInvoice, Advance, FreshId, clientVars
  <2>2. PICK id \in Id \ {Null} : uid' = [uid EXCEPT ![c] = id]
    BY <2>1
  <2>3. TypeOK'
    BY <2>1, <2>2 DEF ListsInv, TypeOK
  <2>4. \A b \in Creation : /\ uid'[b] # Null \/ uid'[b] = uid[b]
                           /\ stage'[b] = "inserted" => b = c \/ stage[b] = "inserted"
    BY <2>1, <2>2 DEF ListsInv, TypeOK
  <2>5. uid'[c] # Null /\ status[c] = "absent"
    <3>1. uid'[c] # Null
      BY <2>2 DEF ListsInv, TypeOK
    <3>2. status[c] = "absent"
      BY <2>1 DEF ListsInv, ListedIsCreated
    <3> QED
      BY <3>1, <3>2
  <2>6. ListedHasId'
    BY <2>1, <2>4, <2>5 DEF ListsInv, ListedHasId
  <2>7. ListedIsCreated'
    BY <2>1, <2>5 DEF ListsInv, TypeOK, ListedIsCreated
  <2> QED
    BY <2>1, <2>3, <2>6, <2>7 DEF ListsInv, CursorIsLast, NoRowTwice
<1>4. ASSUME NEW c \in Creation, CommitInvoice(c) PROVE ListsInv'
  BY <1>4 DEF CommitInvoice, Advance, ListsInv, TypeOK, ListedHasId, ListedIsCreated,
              CursorIsLast, NoRowTwice,
              clientVars, InvoiceStatus
<1>5. ASSUME NEW c \in Creation, RollBackInvoice(c) PROVE ListsInv'
  BY <1>5 DEF RollBackInvoice, Advance, ListsInv, TypeOK, ListedHasId, ListedIsCreated,
              CursorIsLast, NoRowTwice,
              clientVars
<1>6. ASSUME NEW c \in Creation, VoidInvoice(c) \/ ClaimInvoice(c) \/ SettleAttempt(c) PROVE ListsInv'
  <2>1. PICK t \in InvoiceTransition : ApplyTransition(c, t)
    BY <1>6 DEF VoidInvoice, ClaimInvoice, SettleAttempt, InvoiceTransition
  <2>2. From(t) \in InvoiceStatus /\ To(t) \in InvoiceStatus
    BY DEF From, To, InvoiceTransition, InvoiceStatus
  <2> QED
    BY <2>1, <2>2 DEF ApplyTransition, ListsInv, TypeOK, ListedHasId, ListedIsCreated,
                      CursorIsLast, NoRowTwice,
                      createVars, InvoiceStatus
<1> QED
  BY <1>1, <1>2, <1>3, <1>4, <1>5, <1>6 DEF Create

(* A new page goes on where the last one ended. *)
LEMMA PageKeepsLists ==
  ASSUME ListsInv, NEW w \in Client, NextPage(w)
  PROVE  ListsInv'
<1> DEFINE page == Page(Ids(walk[w].table, walk[w].status), walk[w].cursor, walk[w].limit)
           old  == walk[w].pages
<1>1. PICK last \in page.data \cup (IF page.data = {} THEN {Null} ELSE {}) :
          /\ \A i \in page.data : last <= i
          /\ walk' = [walk EXCEPT ![w].pages  = Append(@, page.data),
                                  ![w].cursor = last,
                                  ![w].phase  = IF page.hasMore /\ last # Null THEN "walking" ELSE "over"]
  BY DEF NextPage
<1>2. /\ page.data \subseteq Id
      /\ walk[w].cursor # Null => \A i \in page.data : i < walk[w].cursor
  <2>1. Ids(walk[w].table, walk[w].status) \in SUBSET Id
    BY ListsAreIds DEF ListsInv
  <2>2. walk[w].cursor \in Id \cup {Null} /\ walk[w].limit \in Int
    BY DEF ListsInv, TypeOK, WalkRecord
  <2> HIDE DEF page
  <2> QED
    BY <2>1, <2>2, PageIsBeforeCursor DEF page
<1>3. walk[w].phase = "walking" /\ UNCHANGED <<uid, stage, status>>
  BY DEF NextPage, createVars, rowVars
<1> HIDE DEF page
<1>4. old \in Seq(SUBSET Id) /\ Append(old, page.data) \in Seq(SUBSET Id)
  BY <1>2 DEF ListsInv, TypeOK, WalkRecord
<1>5. last \in Id \cup {Null}
  BY <1>1, <1>2
<1>6. walk[w] \in WalkRecord
  BY DEF ListsInv, TypeOK
<1>7. walk[w].cursor # Null => walk[w].cursor \in Int
  BY <1>6, IdsAreOrdered DEF WalkRecord
<1>8. \A n \in DOMAIN old : \A i \in old[n] : i \in Int
  <2>1. \A n \in DOMAIN old : old[n] \in SUBSET Id
    BY <1>4
  <2> QED
    BY <2>1, IdsAreOrdered
<1>9. /\ walk'[w].pages = Append(old, page.data)
      /\ walk'[w].cursor = last
      /\ walk'[w].phase = "walking" => last # Null
      /\ \A v \in Client \ {w} : walk'[v] = walk[v]
  BY <1>1, <1>6 DEF ListsInv, TypeOK, WalkRecord
<1>10. TypeOK'
  <2>1. walk'[w] = [walk[w] EXCEPT !.pages = Append(old, page.data), !.cursor = last,
                                   !.phase = IF page.hasMore /\ last # Null THEN "walking" ELSE "over"]
    BY <1>1, <1>6 DEF ListsInv, TypeOK, WalkRecord
  <2>2. walk'[w] \in WalkRecord
    BY <2>1, <1>4, <1>5, <1>6 DEF WalkRecord
  <2> QED
    BY <1>1, <1>3, <1>9, <2>2 DEF ListsInv, TypeOK
<1>11. ListedHasId' /\ ListedIsCreated'
  BY <1>3 DEF ListsInv, ListedHasId, ListedIsCreated
<1>12. \A n \in DOMAIN old : \A i \in old[n] : walk[w].cursor # Null /\ walk[w].cursor <= i
  BY <1>3 DEF ListsInv, CursorIsLast
<1>13. \A n \in DOMAIN Append(old, page.data) :
          \/ n \in DOMAIN old /\ Append(old, page.data)[n] = old[n]
          \/ n = Len(old) + 1 /\ Append(old, page.data)[n] = page.data
  BY <1>2, <1>4
<1>14. CursorIsLast'
  <2>1. ASSUME last # Null, NEW n \in DOMAIN Append(old, page.data), NEW i \in Append(old, page.data)[n]
        PROVE  last <= i
    <3>1. CASE i \in page.data
      BY <3>1, <1>1
    <3>2. CASE n \in DOMAIN old /\ i \in old[n]
      <4>1. walk[w].cursor # Null /\ walk[w].cursor <= i
        BY <3>2, <1>12
      <4>2. last \in page.data /\ last < walk[w].cursor
        BY <2>1, <1>1, <1>2, <4>1
      <4>3. last \in Int /\ walk[w].cursor \in Int /\ i \in Int
        BY <4>1, <4>2, <1>2, <1>7, <1>8, <3>2, IdsAreOrdered
      <4> QED
        BY <4>1, <4>2, <4>3
    <3> QED
      BY <2>1, <1>13, <3>1, <3>2
  <2> QED
    BY <2>1, <1>9 DEF ListsInv, CursorIsLast
<1>15. NoRowTwice'
  <2>1. ASSUME NEW m \in DOMAIN Append(old, page.data), NEW n \in DOMAIN Append(old, page.data), m < n,
               NEW i \in Append(old, page.data)[m], NEW j \in Append(old, page.data)[n]
        PROVE  j < i
    <3>1. m \in DOMAIN old /\ i \in old[m]
      BY <2>1, <1>4, <1>13
    <3>2. CASE n \in DOMAIN old /\ j \in old[n]
      BY <2>1, <3>1, <3>2 DEF ListsInv, NoRowTwice
    <3>3. CASE j \in page.data
      <4>1. walk[w].cursor # Null /\ walk[w].cursor <= i /\ j < walk[w].cursor
        BY <3>1, <3>3, <1>12, <1>2
      <4>2. walk[w].cursor \in Int /\ i \in Int /\ j \in Int
        BY <4>1, <3>1, <3>3, <1>2, <1>7, <1>8, IdsAreOrdered
      <4> QED
        BY <4>1, <4>2
    <3> QED
      BY <2>1, <1>13, <3>2, <3>3
  <2> QED
    BY <2>1, <1>9 DEF ListsInv, NoRowTwice
<1> QED
  BY <1>10, <1>11, <1>14, <1>15 DEF ListsInv

(* A walk starts without pages; a view is none of its business. *)
LEMMA OtherStepKeepsLists ==
  ASSUME ListsInv, NEW w \in Client,
         StartWalk(w) \/ StartView(w) \/ (\E what \in Range(Selects) : Select(w, what))
  PROVE  ListsInv'
<1>1. CASE StartWalk(w)
  <2>1. UNCHANGED <<uid, stage, status>>
    BY <1>1 DEF StartWalk, createVars, rowVars
  <2>2. CASE walk' = [walk EXCEPT ![w].phase = "refused"]
    <3>1. walk'[w] = [walk[w] EXCEPT !.phase = "refused"] /\ \A v \in Client \ {w} : walk'[v] = walk[v]
      BY <2>2 DEF ListsInv, TypeOK, WalkRecord
    <3>2. TypeOK'
      <4>1. walk'[w] \in WalkRecord
        BY <3>1 DEF ListsInv, TypeOK, WalkRecord
      <4> QED
        BY <2>1, <2>2, <4>1 DEF ListsInv, TypeOK
    <3>3. walk'[w].pages = walk[w].pages /\ walk'[w].phase = "refused"
      BY <3>1 DEF ListsInv, TypeOK, WalkRecord
    <3>4. CursorIsLast' /\ NoRowTwice'
      BY <3>1, <3>3 DEF ListsInv, CursorIsLast, NoRowTwice
    <3> QED
      BY <2>1, <3>2, <3>4 DEF ListsInv, ListedHasId, ListedIsCreated
  <2>3. ASSUME NEW table \in {"customers", "invoices"}, NEW requested \in {Null} \cup 0 .. MaxLimit + 1,
               NEW filter \in Filters(table), ResolveLimit(requested) # {},
               walk' = [walk EXCEPT ![w] =
                           [phase |-> "walking", table |-> table, status |-> filter,
                            limit |-> CHOOSE n \in ResolveLimit(requested) : TRUE,
                            cursor |-> Null, pages |-> <<>>]]
        PROVE  ListsInv'
    <3> DEFINE n == CHOOSE n \in ResolveLimit(requested) : TRUE
    <3>1. n \in Int
      BY <2>3, LimitsAreLimits DEF ResolveLimit
    <3>2. filter \in {Null} \cup InvoiceStatus
      BY DEF Filters
    <3> QED
      BY <2>1, <2>3, <3>1, <3>2 DEF ListsInv, TypeOK, WalkRecord, ListedHasId, ListedIsCreated,
                                    CursorIsLast, NoRowTwice
  <2> QED
    BY <1>1, <2>2, <2>3 DEF StartWalk
<1>2. CASE StartView(w) \/ (\E what \in Range(Selects) : Select(w, what))
  BY <1>2 DEF StartView, Select, ListsInv, TypeOK, ListedHasId, ListedIsCreated, CursorIsLast,
              NoRowTwice,
              createVars, rowVars
<1> QED
  BY <1>1, <1>2

(* What is listed has an id, and walks go forward: from any state in which *)
(* that is so.                                                             *)
LEMMA ListsStep == ListsInv /\ [Next]_vars => ListsInv'
<1> SUFFICES ASSUME ListsInv, [Next]_vars PROVE ListsInv'
  OBVIOUS
<1>1. CASE UNCHANGED vars
  BY <1>1 DEF ListsInv, TypeOK, ListedHasId, ListedIsCreated, CursorIsLast, NoRowTwice, vars,
              createVars, rowVars, clientVars
<1>2. CASE Next
  BY <1>2, RowStepKeepsLists, PageKeepsLists, OtherStepKeepsLists DEF Next
<1> QED
  BY <1>1, <1>2

-----------------------------------------------------------------------------
(* A page takes all there is, or up to its last row *)

(* Rows above a row, as an ORDER BY id DESC counts them. *)
Above(rows, i) == {j \in rows : j > i}

(* Of a finite list, the n-th newest is there for every n below its length. *)
LEMMA NewerAreCounted ==
  ASSUME NEW rows \in SUBSET Int, IsFiniteSet(rows)
  PROVE  /\ Cardinality(rows) \in Nat
         /\ \A i \in rows : IsFiniteSet(Above(rows, i)) /\ Cardinality(Above(rows, i)) \in Nat
         /\ \A i \in rows : Cardinality(Above(rows, i)) < Cardinality(rows)
         /\ \A i, j \in rows : i < j => Cardinality(Above(rows, j)) < Cardinality(Above(rows, i))
<1>1. \A i \in rows : Above(rows, i) \in SUBSET rows /\ i \notin Above(rows, i)
  BY DEF Above
<1>2. /\ Cardinality(rows) \in Nat
      /\ \A i \in rows : IsFiniteSet(Above(rows, i)) /\ Cardinality(Above(rows, i)) \in Nat
  BY <1>1, FS_Subset, FS_CardinalityType
<1>3. \A i \in rows : Cardinality(Above(rows, i)) < Cardinality(rows)
  <2> SUFFICES ASSUME NEW i \in rows PROVE Cardinality(Above(rows, i)) < Cardinality(rows)
    OBVIOUS
  <2>1. Cardinality(Above(rows, i)) <= Cardinality(rows) /\ Cardinality(rows) # Cardinality(Above(rows, i))
    BY <1>1, FS_Subset
  <2> QED
    BY <1>2, <2>1
<1>4. \A i, j \in rows : i < j => Cardinality(Above(rows, j)) < Cardinality(Above(rows, i))
  <2> SUFFICES ASSUME NEW i \in rows, NEW j \in rows, i < j
               PROVE  Cardinality(Above(rows, j)) < Cardinality(Above(rows, i))
    OBVIOUS
  <2>1. Above(rows, j) \in SUBSET Above(rows, i) /\ j \in Above(rows, i) /\ j \notin Above(rows, j)
    <3>1. i \in Int /\ j \in Int /\ \A k \in rows : k \in Int
      OBVIOUS
    <3>2. j \in Above(rows, i) /\ j \notin Above(rows, j)
      BY <3>1 DEF Above
    <3>3. \A k \in Above(rows, j) : k \in rows /\ k > i
      BY <3>1 DEF Above
    <3> QED
      BY <3>2, <3>3 DEF Above
  <2>2. /\ Cardinality(Above(rows, j)) <= Cardinality(Above(rows, i))
        /\ Cardinality(Above(rows, i)) # Cardinality(Above(rows, j))
    BY <1>2, <2>1, FS_Subset
  <2> QED
    BY <1>2, <2>2
<1> QED
  BY <1>2, <1>3, <1>4

(* So every number of newer rows, from none to all but one, occurs. *)
LEMMA EveryCountOccurs ==
  ASSUME NEW rows \in SUBSET Int, IsFiniteSet(rows), NEW n \in Nat, n < Cardinality(rows)
  PROVE  \E i \in rows : Cardinality(Above(rows, i)) = n
<1> DEFINE N == Cardinality(rows)
           newer == [i \in rows |-> Cardinality(Above(rows, i))]
<1>1. N \in Nat /\ newer \in [rows -> 0 .. N - 1]
  BY NewerAreCounted
<1>2. \A i, j \in rows : newer[i] = newer[j] => i = j
  <2> SUFFICES ASSUME NEW i \in rows, NEW j \in rows, newer[i] = newer[j], i # j
               PROVE  FALSE
    OBVIOUS
  <2>1. i \in Int /\ j \in Int /\ (i < j \/ j < i)
    OBVIOUS
  <2>2. newer[i] = Cardinality(Above(rows, i)) /\ newer[j] = Cardinality(Above(rows, j))
    OBVIOUS
  <2>3. Cardinality(Above(rows, i)) \in Nat /\ Cardinality(Above(rows, j)) \in Nat
    BY NewerAreCounted
  <2>4. Cardinality(Above(rows, i)) # Cardinality(Above(rows, j))
    <3> HIDE DEF newer
    <3> QED
      BY <2>1, <2>3, NewerAreCounted
  <2> QED
    BY <2>2, <2>4
<1>3. newer \in Injection(rows, 0 .. N - 1)
  BY <1>1, <1>2 DEF Injection, IsInjective
<1>4. IsFiniteSet(0 .. N - 1) /\ Cardinality(0 .. N - 1) = N
  <2>1. 0 \in Int /\ N - 1 \in Int /\ (0 > N - 1 => N = 0) /\ (0 <= N - 1 => (N - 1) - 0 + 1 = N)
    BY <1>1
  <2> HIDE DEF N
  <2> QED
    BY <2>1, FS_Interval
<1>5. newer \in Surjection(rows, 0 .. N - 1)
  <2> HIDE DEF newer
  <2> QED
    BY <1>3, <1>4, FS_Injection
<1>6. n \in 0 .. N - 1
  BY <1>1
<1>7. PICK i \in rows : newer[i] = n
  <2> HIDE DEF N, newer
  <2> QED
    BY <1>5, <1>6 DEF Surjection
<1> QED
  BY <1>7

(* The newest n are those with less than n above them. *)
LEMMA NewestByRank ==
  ASSUME NEW rows, NEW n
  PROVE  Newest(rows, n) = {i \in rows : Cardinality(Above(rows, i)) < n}
BY DEF Newest, Above

(* LIMIT n leaves rows out only if it has n of them. *)
LEMMA ShortPageIsAll ==
  ASSUME NEW rows \in SUBSET Int, IsFiniteSet(rows), NEW n \in Nat, Cardinality(Newest(rows, n)) < n
  PROVE  Newest(rows, n) = rows
<1> SUFFICES ASSUME NEW i \in rows, i \notin Newest(rows, n) PROVE FALSE
  BY NewestByRank
<1> DEFINE page == Newest(rows, n)
           nth == [m \in 1 .. n |-> CHOOSE j \in rows : Cardinality(Above(rows, j)) = m - 1]
<1>1. n <= Cardinality(Above(rows, i)) /\ Cardinality(Above(rows, i)) < Cardinality(rows)
  <2>1. Cardinality(Above(rows, i)) \in Nat /\ Cardinality(Above(rows, i)) < Cardinality(rows)
    BY NewerAreCounted
  <2>2. ~(Cardinality(Above(rows, i)) < n)
    BY NewestByRank
  <2> QED
    BY <2>1, <2>2
<1>2. Cardinality(rows) \in Nat /\ Cardinality(Above(rows, i)) \in Nat
  BY NewerAreCounted
<1>3. \A m \in 1 .. n : nth[m] \in rows /\ Cardinality(Above(rows, nth[m])) = m - 1
  <2> SUFFICES ASSUME NEW m \in 1 .. n
               PROVE  \E j \in rows : Cardinality(Above(rows, j)) = m - 1
    OBVIOUS
  <2>1. m - 1 \in Nat /\ m - 1 < Cardinality(rows)
    BY <1>1, <1>2
  <2> QED
    BY <2>1, EveryCountOccurs
<1> HIDE DEF nth
<1>4. \A m \in 1 .. n : nth[m] \in page
  BY <1>3, NewestByRank
<1>5. nth \in Injection(1 .. n, page)
  <2>1. nth \in [1 .. n -> page]
    BY <1>4 DEF nth
  <2>2. \A l, m \in 1 .. n : nth[l] = nth[m] => l = m
    BY <1>3
  <2> QED
    BY <2>1, <2>2 DEF Injection, IsInjective
<1>6. page \in SUBSET rows
  BY DEF Newest
<1>7. IsFiniteSet(page) /\ Cardinality(page) \in Nat
  BY <1>6, FS_Subset, FS_CardinalityType
<1>8. Cardinality(1 .. n) <= Cardinality(page) /\ Cardinality(1 .. n) = n
  BY <1>5, <1>7, FS_Injection, FS_Interval
<1> QED
  BY <1>7, <1>8

(* A page is the newest rows before the cursor: it leaves out only older   *)
(* ones, has at least one if there is one, and all if there is no more.    *)
LEMMA PageTakesTheNewest ==
  ASSUME NEW ids \in SUBSET Int, IsFiniteSet(ids), NEW cursor, NEW limit \in Nat \ {0}
  PROVE  /\ \A i \in Before(ids, cursor) \ Page(ids, cursor, limit).data :
               \A d \in Page(ids, cursor, limit).data : i < d
         /\ Page(ids, cursor, limit).data = {} => Before(ids, cursor) = {}
         /\ ~Page(ids, cursor, limit).hasMore => Before(ids, cursor) \subseteq Page(ids, cursor, limit).data
<1> DEFINE B == Before(ids, cursor)
           N == Newest(B, limit + 1)
           data == Newest(N, limit)
<1>1. Page(ids, cursor, limit) = [data |-> data, hasMore |-> Cardinality(N) > limit]
  BY DEF Page, FromOverfetch, Fetch
<1>2. B \in SUBSET ids /\ B \in SUBSET Int
  BY DEF Before
<1>3. IsFiniteSet(B)
  BY <1>2, FS_Subset
<1> HIDE DEF B
<1>4. N \in SUBSET B /\ N \in SUBSET Int /\ N = {i \in B : Cardinality(Above(B, i)) < limit + 1}
  <2>1. N = {i \in B : Cardinality(Above(B, i)) < limit + 1}
    BY NewestByRank
  <2> QED
    BY <1>2, <2>1
<1>5. IsFiniteSet(N)
  BY <1>3, <1>4, FS_Subset
<1> HIDE DEF N
<1>6. data = {i \in N : Cardinality(Above(N, i)) < limit}
  BY NewestByRank
<1> HIDE DEF data
<1>7. \A i \in B \ data : \A d \in data : i < d
  <2> SUFFICES ASSUME NEW i \in B, i \notin data, NEW d \in data, ~(i < d)
               PROVE  FALSE
    OBVIOUS
  <2>1. i \in Int /\ d \in Int /\ d \in N /\ d \in B /\ d < i
    BY <1>2, <1>4, <1>6
  <2>2. i \in N
    <3>1. Cardinality(Above(B, i)) < Cardinality(Above(B, d)) /\ Cardinality(Above(B, d)) < limit + 1
      BY <1>2, <1>3, <1>4, <2>1, NewerAreCounted
    <3>2. Cardinality(Above(B, i)) \in Nat /\ Cardinality(Above(B, d)) \in Nat
      BY <1>2, <1>3, <2>1, NewerAreCounted
    <3>3. Cardinality(Above(B, i)) < limit + 1
      BY <3>1, <3>2
    <3> QED
      BY <1>4, <3>3
  <2>3. Cardinality(Above(N, i)) < Cardinality(Above(N, d)) /\ Cardinality(Above(N, d)) < limit
    BY <1>4, <1>5, <1>6, <2>1, <2>2, NewerAreCounted
  <2>4. Cardinality(Above(N, i)) \in Nat /\ Cardinality(Above(N, d)) \in Nat
    BY <1>4, <1>5, <2>1, <2>2, NewerAreCounted
  <2>5. Cardinality(Above(N, i)) < limit
    BY <2>3, <2>4
  <2> QED
    BY <1>6, <2>2, <2>5
<1>8. ASSUME NEW n \in Nat, Cardinality(N) = n, n <= limit
      PROVE  B \subseteq data
  <2>1. Cardinality(Newest(B, limit + 1)) < limit + 1
    BY <1>8 DEF N
  <2>2. N = B
    BY <1>2, <1>3, <2>1, ShortPageIsAll DEF N
  <2>3. \A i \in N : Cardinality(Above(N, i)) < Cardinality(N) /\ Cardinality(Above(N, i)) \in Nat
    BY <1>4, <1>5, NewerAreCounted
  <2>4. \A i \in N : Cardinality(Above(N, i)) < limit
    BY <1>8, <2>3
  <2> QED
    BY <1>6, <2>2, <2>4
<1>9. Cardinality(N) \in Nat
  BY <1>5, FS_CardinalityType
<1>10. ~(Cardinality(N) > limit) => B \subseteq data
  BY <1>8, <1>9
<1>11. data = {} => B = {}
  <2> SUFFICES ASSUME Cardinality(N) > limit PROVE data # {}
    BY <1>10
  <2>1. PICK i \in N : Cardinality(Above(N, i)) = 0
    <3>1. 0 \in Nat /\ 0 < Cardinality(N) /\ 0 < limit
      BY <1>9
    <3> QED
      BY <1>4, <1>5, <3>1, EveryCountOccurs
  <2>2. 0 < limit
    OBVIOUS
  <2> QED
    BY <1>6, <2>1, <2>2
<1>12. /\ Page(ids, cursor, limit).data = data
       /\ Page(ids, cursor, limit).hasMore = (Cardinality(N) > limit)
  BY <1>1
<1>13. Before(ids, cursor) = B
  BY DEF B
<1> QED
  BY <1>7, <1>10, <1>11, <1>12, <1>13

(* There are as many ids in a list as rows, at most. *)
LEMMA ListsAreFinite ==
  ASSUME TypeOK, ListedHasId, NEW table, NEW filter
  PROVE  IsFiniteSet(Ids(table, filter)) /\ Ids(table, filter) \in SUBSET Int
<1>1. \A S \in (SUBSET Customer) \cup (SUBSET Creation) : IsFiniteSet({uid[x] : x \in S})
  <2> SUFFICES ASSUME NEW S, S \in SUBSET Customer \/ S \in SUBSET Creation
               PROVE  IsFiniteSet({uid[x] : x \in S})
    OBVIOUS
  <2> DEFINE T == {uid[x] : x \in S}
             f == [x \in S |-> uid[x]]
  <2>1. IsFiniteSet(S)
    <3>1. IsFiniteSet(Customer) /\ IsFiniteSet(Creation)
      BY RowsAreFinite
    <3>3. CASE S \in SUBSET Customer
      BY <3>1, <3>3, FS_Subset
    <3>4. CASE S \in SUBSET Creation
      BY <3>1, <3>4, FS_Subset
    <3> QED
      BY <3>3, <3>4
  <2>2. f \in Surjection(S, T)
    BY DEF Surjection
  <2> HIDE DEF f, T
  <2>3. IsFiniteSet(T)
    BY <2>1, <2>2, FS_Surjection
  <2> QED
    BY <2>3 DEF T
<1> DEFINE known == {k \in Customer : uid[k] # Null}
           matching == {c \in Creation : Matches(c, filter)}
<1>2. Ids(table, filter) = {uid[x] : x \in known} \/ Ids(table, filter) = {uid[x] : x \in matching}
  BY DEF Ids
<1>3. known \in SUBSET Customer /\ matching \in SUBSET Creation
  OBVIOUS
<1> HIDE DEF known, matching
<1>4. IsFiniteSet(Ids(table, filter))
  BY <1>1, <1>2, <1>3
<1> QED
  BY <1>4, ListsAreIds, IdsAreOrdered

-----------------------------------------------------------------------------
(* What a walk has still to find is ahead of it *)

(* Rows that come, and rows that are undone before they were listed, take  *)
(* nothing that is due off a list.                                         *)
LEMMA ComingRowsKeepDue ==
  ASSUME ListsInv, DueInv,
         \/ \E k \in Customer : CreateCustomer(k)
         \/ \E c \in Creation : Create(c)
  PROVE  DueInv'
<1>1. UNCHANGED <<walk, due>>
  BY DEF CreateCustomer, Create, RefuseInvoice, CustomerNotFound, InsertInvoice, CommitInvoice,
         RollBackInvoice, clientVars
<1>2. ASSUME NEW table, NEW filter PROVE Ids(table, filter) \subseteq Ids(table, filter)'
  <2>1. ASSUME NEW k \in Customer, CreateCustomer(k) PROVE Ids(table, filter) \subseteq Ids(table, filter)'
    <3>1. uid[k] = Null /\ UNCHANGED status /\ \A x \in Customer \cup Creation : x # k => uid'[x] = uid[x]
      BY <2>1 DEF CreateCustomer, FreshId, ListsInv, TypeOK
    <3>2. k \notin Creation
      BY TablesAreDisjoint
    <3> QED
      BY <3>1, <3>2 DEF Ids, Matches
  <2>2. ASSUME NEW c \in Creation, RefuseInvoice(c) \/ CustomerNotFound(c)
        PROVE  Ids(table, filter) \subseteq Ids(table, filter)'
    BY <2>2 DEF RefuseInvoice, CustomerNotFound, rowVars, Ids, Matches
  <2>3. ASSUME NEW c \in Creation, InsertInvoice(c) \/ RollBackInvoice(c)
        PROVE  Ids(table, filter) \subseteq Ids(table, filter)'
    <3>1. stage[c] # "created" /\ UNCHANGED status /\ \A x \in Customer \cup Creation : x # c => uid'[x] = uid[x]
      BY <2>3 DEF InsertInvoice, RollBackInvoice, Advance, ListsInv, TypeOK
    <3>2. c \notin Customer /\ status[c] = "absent"
      BY <3>1, TablesAreDisjoint DEF ListsInv, ListedIsCreated
    <3> QED
      BY <3>1, <3>2 DEF Ids, Matches
  <2>4. ASSUME NEW c \in Creation, CommitInvoice(c) PROVE Ids(table, filter) \subseteq Ids(table, filter)'
    <3>1. stage[c] = "inserted" /\ UNCHANGED uid /\ \A b \in Creation : b # c => status'[b] = status[b]
      BY <2>4 DEF CommitInvoice, Advance, ListsInv, TypeOK
    <3>2. status[c] = "absent"
      BY <3>1 DEF ListsInv, ListedIsCreated
    <3> QED
      BY <3>1, <3>2 DEF Ids, Matches
  <2> QED
    BY <2>1, <2>2, <2>3, <2>4 DEF Create
<1>3. \A w \in Client : Ids(walk[w].table, walk[w].status) \subseteq Ids(walk[w].table, walk[w].status)'
  BY <1>1, <1>2
<1> QED
  BY <1>1, <1>3 DEF DueInv, DueIsAhead, WalkIsComplete

(* A transition takes one row off the lists of the other statuses: it is   *)
(* no longer due to a walk through those.                                  *)
LEMMA TransitionsKeepDue ==
  ASSUME ListsInv, DueInv, NEW c \in Creation, NEW t \in InvoiceTransition, ApplyTransition(c, t)
  PROVE  DueInv'
<1>1. /\ status[c] = From(t) /\ UNCHANGED <<uid, walk>>
      /\ status' = [status EXCEPT ![c] = To(t)]
      /\ due' = [w \in Client |-> IF walk[w].status \in {Null, To(t)} THEN due[w] ELSE due[w] \ {uid[c]}]
  BY DEF ApplyTransition, createVars
<1>2. From(t) # "absent" /\ To(t) # "absent"
  BY DEF From, To, InvoiceTransition
<1>3. /\ due' \in [Client -> SUBSET Id]
      /\ \A w \in Client : due'[w] \subseteq due[w]
  BY <1>1 DEF DueInv, DueIsAhead
<1>4. ASSUME NEW w \in Client, due[w] \subseteq Ids(walk[w].table, walk[w].status)
      PROVE  due'[w] \subseteq Ids(walk[w].table, walk[w].status)'
  <2> SUFFICES ASSUME NEW i \in due'[w] PROVE i \in Ids(walk[w].table, walk[w].status)'
    OBVIOUS
  <2>1. i \in Ids(walk[w].table, walk[w].status)
    BY <1>3, <1>4
  <2>2. CASE walk[w].table = "customers"
    BY <1>1, <2>1, <2>2 DEF Ids
  <2>3. CASE walk[w].table # "customers"
    <3>1. PICK b \in Creation : Matches(b, walk[w].status) /\ i = uid[b]
      BY <2>1, <2>3 DEF Ids
    <3>2. status'[b] = IF b = c THEN To(t) ELSE status[b]
      BY <1>1 DEF ListsInv, TypeOK
    <3>3. b = c => walk[w].status \in {Null, To(t)}
      BY <1>1, <3>1
    <3>4. Matches(b, walk[w].status)'
      BY <1>1, <1>2, <3>1, <3>2, <3>3 DEF Matches
    <3> QED
      BY <1>1, <2>3, <3>1, <3>4 DEF Ids
  <2> QED
    BY <2>2, <2>3
<1>5. DueIsAhead'
  BY <1>1, <1>3, <1>4 DEF DueInv, DueIsAhead
<1>6. WalkIsComplete'
  BY <1>1, <1>3 DEF DueInv, WalkIsComplete
<1> QED
  BY <1>5, <1>6 DEF DueInv

(* A page finds what is due before its last row, or, as the last page, all *)
(* that is due.                                                            *)
LEMMA PagesKeepDue ==
  ASSUME ListsInv, DueInv, NEW w \in Client, NextPage(w)
  PROVE  DueInv'
<1> DEFINE ids  == Ids(walk[w].table, walk[w].status)
           page == Page(ids, walk[w].cursor, walk[w].limit)
           old  == walk[w].pages
<1>1. PICK last \in page.data \cup (IF page.data = {} THEN {Null} ELSE {}) :
          /\ \A i \in page.data : last <= i
          /\ walk' = [walk EXCEPT ![w].pages  = Append(@, page.data),
                                  ![w].cursor = last,
                                  ![w].phase  = IF page.hasMore /\ last # Null THEN "walking" ELSE "over"]
  BY DEF NextPage
<1>2. walk[w].phase = "walking" /\ UNCHANGED <<uid, status, due>>
  BY DEF NextPage, rowVars
<1>3. /\ walk[w] \in WalkRecord /\ walk[w].limit \in Nat \ {0}
      /\ due[w] \subseteq Id /\ due[w] \subseteq ids
      /\ \A i \in due[w] : i \in UNION Range(old) \/ walk[w].cursor = Null \/ i < walk[w].cursor
  BY <1>2 DEF ListsInv, TypeOK, DueInv, DueIsAhead, WalkRecord
<1>4. IsFiniteSet(ids) /\ ids \in SUBSET Int /\ ids \in SUBSET Id
  BY ListsAreFinite, ListsAreIds DEF ListsInv
<1> HIDE DEF ids
<1>5. page.data \subseteq ids
  <2>1. walk[w].cursor \in Id \cup {Null} /\ walk[w].limit \in Int
    BY <1>3 DEF WalkRecord
  <2> QED
    BY <1>4, <2>1, PageIsBeforeCursor
<1>6. /\ \A i \in Before(ids, walk[w].cursor) \ page.data : \A d \in page.data : i < d
      /\ page.data = {} => Before(ids, walk[w].cursor) = {}
      /\ ~page.hasMore => Before(ids, walk[w].cursor) \subseteq page.data
  BY <1>3, <1>4, PageTakesTheNewest
<1> HIDE DEF page
<1>7. old \in Seq(SUBSET Id) /\ page.data \in SUBSET Id
  BY <1>3, <1>4, <1>5 DEF WalkRecord
<1>8. /\ walk'[w].pages = Append(old, page.data) /\ walk'[w].cursor = last
      /\ walk'[w].phase = IF page.hasMore /\ last # Null THEN "walking" ELSE "over"
      /\ walk'[w].limit = walk[w].limit /\ walk'[w].table = walk[w].table /\ walk'[w].status = walk[w].status
      /\ \A v \in Client \ {w} : walk'[v] = walk[v]
  BY <1>1, <1>3 DEF ListsInv, TypeOK, WalkRecord
<1>9. UNION Range(walk'[w].pages) = (UNION Range(old)) \cup page.data
  <2>1. \A n \in DOMAIN old : n \in DOMAIN Append(old, page.data) /\ Append(old, page.data)[n] = old[n]
    BY <1>7
  <2>2. Len(old) + 1 \in DOMAIN Append(old, page.data) /\ Append(old, page.data)[Len(old) + 1] = page.data
    BY <1>7
  <2>3. \A n \in DOMAIN Append(old, page.data) :
           n \in DOMAIN old \/ n = Len(old) + 1
    BY <1>7
  <2>4. Range(Append(old, page.data)) = Range(old) \cup {page.data}
    BY ONLY <2>1, <2>2, <2>3 DEF Range
  <2> QED
    BY <1>8, <2>4
<1>10. \A i \in due[w] : i \in UNION Range(old) \/ i \in Before(ids, walk[w].cursor)
  BY <1>3 DEF Before
<1>11. last = Null <=> page.data = {}
  BY <1>1, <1>4, <1>5, LimitsAreLimits
<1>12. ASSUME walk'[w].phase = "walking"
       PROVE  \A i \in due[w] : i \in UNION Range(walk'[w].pages) \/ i < walk'[w].cursor
  <2>1. last \in page.data
    BY <1>1, <1>8, <1>11, <1>12
  <2>2. \A i \in due[w] : i \in UNION Range(old) \/ i \in page.data \/ i < last
    BY <1>6, <1>10, <2>1
  <2> QED
    BY <1>8, <1>9, <2>2
<1>13. ASSUME walk'[w].phase = "over" PROVE due[w] \subseteq UNION Range(walk'[w].pages)
  <2>1. Before(ids, walk[w].cursor) \subseteq page.data
    BY <1>6, <1>8, <1>11, <1>13
  <2>2. \A i \in due[w] : i \in UNION Range(old) \/ i \in page.data
    BY <1>10, <2>1
  <2> QED
    BY <1>9, <2>2
<1>14. \A v \in Client : Ids(walk[v].table, walk[v].status)' = Ids(walk[v].table, walk[v].status)
  <2>1. \A table, filter : Ids(table, filter)' = Ids(table, filter)
    BY <1>2 DEF Ids, Matches
  <2>2. \A v \in Client : walk'[v].table = walk[v].table /\ walk'[v].status = walk[v].status
    BY <1>8
  <2> QED
    BY <2>1, <2>2
<1>15. DueIsAhead'
  BY <1>2, <1>3, <1>8, <1>12, <1>14 DEF DueInv, DueIsAhead, ids
<1>16. WalkIsComplete'
  BY <1>2, <1>8, <1>13 DEF DueInv, WalkIsComplete
<1> QED
  BY <1>15, <1>16 DEF DueInv

(* At its start all the list is due to a walk; a view is none of its business. *)
LEMMA StartsKeepDue ==
  ASSUME ListsInv, DueInv, NEW w \in Client,
         StartWalk(w) \/ StartView(w) \/ (\E what \in Range(Selects) : Select(w, what))
  PROVE  DueInv'
<1>1. CASE StartWalk(w)
  <2>1. UNCHANGED <<uid, status>>
    BY <1>1 DEF StartWalk, rowVars
  <2>2. \A table, filter : Ids(table, filter)' = Ids(table, filter)
    BY <2>1 DEF Ids, Matches
  <2>3. CASE walk' = [walk EXCEPT ![w].phase = "refused"] /\ UNCHANGED due
    <3>1. walk'[w].phase = "refused" /\ \A v \in Client \ {w} : walk'[v] = walk[v]
      BY <2>3 DEF ListsInv, TypeOK, WalkRecord
    <3> QED
      BY <2>2, <2>3, <3>1 DEF DueInv, DueIsAhead, WalkIsComplete
  <2>4. ASSUME NEW table \in {"customers", "invoices"}, NEW requested \in {Null} \cup 0 .. MaxLimit + 1,
               NEW filter \in Filters(table), NEW limit \in ResolveLimit(requested),
               walk' = [walk EXCEPT ![w] =
                           [phase |-> "walking", table |-> table, status |-> filter,
                            limit |-> limit, cursor |-> Null, pages |-> <<>>]],
               due' = [due EXCEPT ![w] = Ids(table, filter)]
        PROVE  DueInv'
    <3>1. limit > 0
      BY LimitsAreLimits DEF ResolveLimit
    <3>2. Ids(table, filter) \subseteq Id
      BY ListsAreIds DEF ListsInv
    <3>3. walk'[w] = [phase |-> "walking", table |-> table, status |-> filter,
                      limit |-> limit, cursor |-> Null, pages |-> <<>>]
      BY <2>4 DEF ListsInv, TypeOK
    <3>4. \A v \in Client \ {w} : walk'[v] = walk[v] /\ due'[v] = due[v]
      BY <2>4
    <3>5. due' \in [Client -> SUBSET Id] /\ due'[w] = Ids(table, filter)
      BY <2>4, <3>2 DEF DueInv, DueIsAhead
    <3> QED
      BY <2>2, <3>1, <3>2, <3>3, <3>4, <3>5 DEF DueInv, DueIsAhead, WalkIsComplete
  <2> QED
    BY <1>1, <2>3, <2>4 DEF StartWalk
<1>2. CASE StartView(w) \/ (\E what \in Range(Selects) : Select(w, what))
  <2>1. UNCHANGED <<uid, status, walk, due>>
    BY <1>2 DEF StartView, Select, rowVars
  <2>2. \A table, filter : Ids(table, filter)' = Ids(table, filter)
    BY <2>1 DEF Ids, Matches
  <2> QED
    BY <2>1, <2>2 DEF DueInv, DueIsAhead, WalkIsComplete
<1> QED
  BY <1>1, <1>2

LEMMA DueStep == ListsInv /\ DueInv /\ [Next]_vars => DueInv'
<1> SUFFICES ASSUME ListsInv, DueInv, [Next]_vars PROVE DueInv'
  OBVIOUS
<1>1. CASE UNCHANGED vars
  <2>1. \A table, filter : Ids(table, filter)' = Ids(table, filter)
    BY <1>1 DEF Ids, Matches, vars, rowVars
  <2> QED
    BY <1>1, <2>1 DEF DueInv, DueIsAhead, WalkIsComplete, vars, clientVars
<1>2. ASSUME NEW c \in Creation, VoidInvoice(c) \/ ClaimInvoice(c) \/ SettleAttempt(c) PROVE DueInv'
  <2>1. PICK t \in InvoiceTransition : ApplyTransition(c, t)
    BY <1>2 DEF VoidInvoice, ClaimInvoice, SettleAttempt, InvoiceTransition
  <2> QED
    BY <2>1, TransitionsKeepDue
<1>3. CASE Next
  BY <1>2, <1>3, ComingRowsKeepDue, PagesKeepDue, StartsKeepDue DEF Next
<1> QED
  BY <1>1, <1>3

-----------------------------------------------------------------------------
(* The attempts say what the status says *)

LEMMA SelectsAre ==
  /\ Len(Selects) = 3
  /\ Selects[1] = "invoice" /\ Selects[2] = "line_items" /\ Selects[3] = "attempts"
BY DEF Selects

(* Only invoices that are final stay as they were read: the others may     *)
(* move on, which takes no attempt away.                                   *)
LEMMA ViewsStayCurrent ==
  ASSUME DetailInv, UNCHANGED view,
         \A c \in Creation : /\ status[c] # "absent" => status'[c] # "absent"
                             /\ status[c] \in Terminal => status'[c] = status[c]
                             /\ attempts[c] # <<>> => attempts'[c] # <<>>
  PROVE  ViewIsCurrent' /\ DetailExplainsStatus'
<1>1. \A v \in Client : view[v].invoice \in Creation \cup {Null}
  BY DEF DetailInv, ViewIsCurrent, ViewRecord
<1>2. ViewIsCurrent'
  BY <1>1 DEF DetailInv, ViewIsCurrent
<1> QED
  BY <1>2 DEF DetailInv, DetailExplainsStatus

(* Each transition leaves the last attempt as its target has it. *)
LEMMA TransitionsKeepDetail ==
  ASSUME TypeOK, DetailInv, NEW c \in Creation,
         VoidInvoice(c) \/ ClaimInvoice(c) \/ SettleAttempt(c)
  PROVE  DetailInv'
<1> DEFINE Outcome == {"pending", "succeeded", "failed"}
           told == attempts[c]
<1>1. told \in Seq(Outcome)
  BY DEF DetailInv, AttemptsMatch
<1>2. /\ UNCHANGED view
      /\ attempts' \in [Creation -> Seq(Outcome)]
      /\ \A b \in Creation : b # c => status'[b] = status[b] /\ attempts'[b] = attempts[b]
      /\ status[c] \notin Terminal \cup {"absent"} /\ status'[c] # "absent"
      /\ told # <<>> => attempts'[c] # <<>>
      /\ \A n \in 1 .. Len(attempts'[c]) - 1 : attempts'[c][n] = "failed"
      /\ attempts'[c] # <<>> => LastOf(c)' = CASE status'[c] = "processing" -> "pending"
                                               [] status'[c] = "paid" -> "succeeded"
                                               [] OTHER -> "failed"
      /\ status'[c] \in {"processing", "paid"} => attempts'[c] # <<>>
  <2>1. CASE VoidInvoice(c)
    <3>1. status[c] = "open" /\ status'[c] = "void" /\ UNCHANGED <<attempts, view>>
      BY <2>1 DEF VoidInvoice, ApplyTransition, From, To, TypeOK
    <3>2. \A b \in Creation : b # c => status'[b] = status[b]
      BY <2>1 DEF VoidInvoice, ApplyTransition, TypeOK
    <3>3. LastOf(c)' = LastOf(c)
      BY <3>1 DEF LastOf
    <3> QED
      BY <3>1, <3>2, <3>3 DEF DetailInv, AttemptsMatch, Terminal
  <2>2. CASE ClaimInvoice(c)
    <3>1. /\ status[c] = "open" /\ status'[c] = "processing" /\ UNCHANGED view
          /\ \A b \in Creation : b # c => status'[b] = status[b]
      BY <2>2 DEF ClaimInvoice, ApplyTransition, From, To, TypeOK
    <3>2. /\ attempts' \in [Creation -> Seq(Outcome)] /\ attempts'[c] = Append(told, "pending")
          /\ \A b \in Creation : b # c => attempts'[b] = attempts[b]
      <4>1. attempts' = [attempts EXCEPT ![c] = Append(told, "pending")]
        BY <2>2 DEF ClaimInvoice
      <4>2. Append(told, "pending") \in Seq(Outcome)
        BY <1>1
      <4> HIDE DEF Outcome, told
      <4>3. attempts \in [Creation -> Seq(Outcome)]
        BY DEF DetailInv, AttemptsMatch, Outcome
      <4> QED
        BY <4>1, <4>2, <4>3
    <3>3. \A n \in 1 .. Len(told) : told[n] = "failed"
      <4>1. told # <<>> => told[Len(told)] = "failed"
        BY <3>1 DEF DetailInv, AttemptsMatch, LastOf
      <4>2. \A n \in 1 .. Len(told) - 1 : told[n] = "failed"
        BY DEF DetailInv, AttemptsMatch
      <4>3. Len(told) \in Nat /\ \A n \in 1 .. Len(told) : told # <<>> /\ (n \in 1 .. Len(told) - 1 \/ n = Len(told))
        BY <1>1
      <4> QED
        BY <4>1, <4>2, <4>3
    <3>4. /\ Len(Append(told, "pending")) = Len(told) + 1 /\ Len(told) \in Nat
          /\ Append(told, "pending")[Len(told) + 1] = "pending"
          /\ \A n \in 1 .. Len(told) : Append(told, "pending")[n] = told[n]
          /\ Append(told, "pending") # <<>>
      BY <1>1
    <3>5. LastOf(c)' = "pending"
      BY <3>2, <3>4 DEF LastOf
    <3>6. \A n \in 1 .. Len(attempts'[c]) - 1 : attempts'[c][n] = "failed"
      BY <3>2, <3>3, <3>4
    <3> QED
      BY <3>1, <3>2, <3>4, <3>5, <3>6 DEF Terminal
  <2>3. CASE SettleAttempt(c)
    <3>1. PICK succeeded \in BOOLEAN :
             /\ ApplyTransition(c, IF succeeded THEN "payment_succeeded" ELSE "payment_failed")
             /\ attempts' = [attempts EXCEPT ![c][Len(attempts[c])] = IF succeeded THEN "succeeded" ELSE "failed"]
      BY <2>3 DEF SettleAttempt
    <3>2. /\ status[c] = "processing" /\ status'[c] = IF succeeded THEN "paid" ELSE "open"
          /\ UNCHANGED view
          /\ \A b \in Creation : b # c => status'[b] = status[b]
      BY <3>1 DEF ApplyTransition, From, To, TypeOK
    <3>3. told # <<>> /\ Len(told) \in 1 .. Len(told) /\ Len(told) \in Nat
      <4>1. told # <<>>
        BY <3>2 DEF DetailInv, AttemptsMatch
      <4> QED
        BY <1>1, <4>1
    <3> DEFINE outcome == IF succeeded THEN "succeeded" ELSE "failed"
               settled == [told EXCEPT ![Len(told)] = outcome]
    <3>4. /\ attempts' = [attempts EXCEPT ![c] = settled]
          /\ settled \in Seq(Outcome) /\ Len(settled) = Len(told) /\ settled # <<>>
          /\ settled[Len(told)] = outcome
          /\ \A n \in 1 .. Len(told) - 1 : settled[n] = told[n]
      <4>1. outcome \in Outcome
        OBVIOUS
      <4> HIDE DEF outcome
      <4>2. /\ settled \in Seq(Outcome) /\ Len(settled) = Len(told)
            /\ settled[Len(told)] = outcome
            /\ \A n \in 1 .. Len(told) - 1 : settled[n] = told[n]
        BY <1>1, <3>3, <4>1
      <4>3. settled # <<>>
        BY <3>3, <4>2
      <4> QED
        BY <3>1, <4>2, <4>3 DEF outcome
    <3> HIDE DEF settled
    <3>5. /\ attempts' \in [Creation -> Seq(Outcome)] /\ attempts'[c] = settled
          /\ \A b \in Creation : b # c => attempts'[b] = attempts[b]
      BY <3>4 DEF DetailInv, AttemptsMatch
    <3>6. \A n \in 1 .. Len(told) - 1 : told[n] = "failed"
      BY DEF DetailInv, AttemptsMatch
    <3>7. LastOf(c)' = outcome
      BY <3>4, <3>5 DEF LastOf
    <3> QED
      BY <3>2, <3>4, <3>5, <3>6, <3>7 DEF Terminal
  <2> QED
    BY <2>1, <2>2, <2>3
<1>3. AttemptsMatch'
  <2> SUFFICES ASSUME NEW b \in Creation
               PROVE  /\ \A n \in 1 .. Len(attempts'[b]) - 1 : attempts'[b][n] = "failed"
                      /\ attempts'[b] # <<>> => LastOf(b)' = CASE status'[b] = "processing" -> "pending"
                                                               [] status'[b] = "paid" -> "succeeded"
                                                               [] OTHER -> "failed"
                      /\ status'[b] \in {"processing", "paid"} => attempts'[b] # <<>>
    BY <1>2 DEF AttemptsMatch
  <2>1. CASE b = c
    BY <1>2, <2>1
  <2>2. CASE b # c
    <3>1. status'[b] = status[b] /\ attempts'[b] = attempts[b]
      BY <1>2, <2>2
    <3>2. LastOf(b)' = LastOf(b)
      BY <3>1 DEF LastOf
    <3> QED
      BY <3>1, <3>2 DEF DetailInv, AttemptsMatch
  <2> QED
    BY <2>1, <2>2
<1>4. ViewIsCurrent' /\ DetailExplainsStatus'
  <2>1. \A b \in Creation : /\ status[b] # "absent" => status'[b] # "absent"
                            /\ status[b] \in Terminal => status'[b] = status[b]
                            /\ attempts[b] # <<>> => attempts'[b] # <<>>
    BY <1>2
  <2> QED
    BY <1>2, <2>1, ViewsStayCurrent
<1> QED
  BY <1>3, <1>4 DEF DetailInv

(* What an invoice is read with, from its status on. *)
LEMMA AttemptsExplainStatus ==
  ASSUME TypeOK, AttemptsMatch, NEW c \in Creation, NEW seen, seen.attempts = attempts[c],
         seen.status \in Terminal => status[c] = seen.status,
         seen.status = "processing" => attempts[c] # <<>>
  PROVE  Explained(seen)
<1> DEFINE told == attempts[c]
           succeeded == {n \in DOMAIN told : told[n] = "succeeded"}
<1>1. told \in Seq({"pending", "succeeded", "failed"})
  BY DEF AttemptsMatch
<1>2. /\ Len(told) \in Nat /\ DOMAIN told = 1 .. Len(told)
      /\ \A n \in DOMAIN told : told # <<>> /\ (n \in 1 .. Len(told) - 1 \/ n = Len(told))
  BY <1>1
<1>3. /\ \A n \in 1 .. Len(told) - 1 : told[n] = "failed"
      /\ told # <<>> => told[Len(told)] = CASE status[c] = "processing" -> "pending"
                                            [] status[c] = "paid" -> "succeeded"
                                            [] OTHER -> "failed"
      /\ status[c] \in {"processing", "paid"} => told # <<>>
  BY DEF AttemptsMatch, LastOf
<1>4. ASSUME status[c] = "paid" PROVE Cardinality(succeeded) = 1
  <2>1. told # <<>> /\ told[Len(told)] = "succeeded"
    BY <1>3, <1>4
  <2>2. Len(told) \in DOMAIN told
    BY <1>1, <2>1
  <2>3. succeeded = {Len(told)}
    BY <1>2, <1>3, <2>1, <2>2
  <2> QED
    BY <2>3, FS_Singleton
<1>5. ASSUME status[c] = "void" PROVE \A n \in DOMAIN told : told[n] = "failed"
  BY <1>2, <1>3, <1>5
<1> QED
  BY <1>3, <1>4, <1>5 DEF Explained, Terminal

(* The invoice first, its attempts last. *)
LEMMA SelectsKeepDetail ==
  ASSUME TypeOK, DetailInv, NEW v \in Client, NEW what \in Range(Selects), Select(v, what)
  PROVE  DetailInv'
<1> DEFINE c == view[v].invoice
           read == view[v].read
<1>1. c \in Creation /\ c # Null /\ status[c] # "absent" /\ UNCHANGED <<status, attempts>>
  BY DEF Select, DetailInv, ViewIsCurrent, ViewRecord, rowVars
<1>2. view[v] \in ViewRecord /\ read \in Seq({"invoice", "line_items", "attempts"}) /\ Len(read) \in {0, 1, 2}
  <2>1. view[v] \in ViewRecord
    BY DEF DetailInv, ViewIsCurrent
  <2>2. read \in Seq({"invoice", "line_items", "attempts"})
    BY <2>1 DEF ViewRecord
  <2>3. Len(read) < 3
    BY SelectsAre DEF Select
  <2>4. Len(read) \in Nat
    BY <2>2
  <2>5. \A n \in Nat : n < 3 => n \in {0, 1, 2}
    OBVIOUS
  <2>6. Len(read) \in {0, 1, 2}
    BY ONLY <2>3, <2>4, <2>5
  <2> QED
    BY <2>1, <2>2, <2>6
<1>3. AttemptsMatch'
  BY <1>1 DEF DetailInv, AttemptsMatch, LastOf
<1>4. \A u \in Client \ {v} : view'[u] = view[u]
  BY DEF Select, DetailInv, ViewIsCurrent
<1> DEFINE next == view'[v]
<1>5. /\ next \in ViewRecord /\ next.invoice = c /\ Len(next.read) = Len(read) + 1
      /\ next.status = IF Len(read) = 0 THEN status[c] ELSE view[v].status
      /\ next.attempts = IF Len(read) = 2 THEN attempts[c] ELSE view[v].attempts
      /\ view' = [view EXCEPT ![v] = next]
  <2>1. /\ what = Selects[Len(read) + 1]
        /\ view' = [view EXCEPT ![v].read     = Append(@, what),
                                ![v].status   = IF what = "invoice" THEN status[c] ELSE @,
                                ![v].attempts = IF what = "attempts" THEN attempts[c] ELSE @]
    BY DEF Select
  <2>2. attempts[c] \in Seq({"pending", "succeeded", "failed"}) /\ status[c] \in InvoiceStatus
    <3>1. attempts[c] \in Seq({"pending", "succeeded", "failed"})
      BY <1>1 DEF DetailInv, AttemptsMatch
    <3>2. status[c] \in InvoiceStatus
      BY <1>1 DEF TypeOK
    <3> QED
      BY <3>1, <3>2
  <2>3. what = IF Len(read) = 0 THEN "invoice" ELSE IF Len(read) = 1 THEN "line_items" ELSE "attempts"
    <3>1. Selects[Len(read) + 1] = IF Len(read) = 0 THEN Selects[1] ELSE IF Len(read) = 1 THEN Selects[2] ELSE Selects[3]
      <4>1. \A n \in {0, 1, 2} : Selects[n + 1] = IF n = 0 THEN Selects[1] ELSE IF n = 1 THEN Selects[2] ELSE Selects[3]
        OBVIOUS
      <4> QED
        BY ONLY <1>2, <4>1
    <3> QED
      BY <2>1, <3>1, SelectsAre
  <2>4. Append(read, what) \in Seq({"invoice", "line_items", "attempts"}) /\ Len(Append(read, what)) = Len(read) + 1
    BY <1>2, <2>3
  <2>5. view' = [view EXCEPT ![v] = [view[v] EXCEPT
                   !.read     = Append(read, what),
                   !.status   = IF what = "invoice" THEN status[c] ELSE view[v].status,
                   !.attempts = IF what = "attempts" THEN attempts[c] ELSE view[v].attempts]]
    BY <2>1
  <2>6. next = [view[v] EXCEPT
                   !.read     = Append(read, what),
                   !.status   = IF what = "invoice" THEN status[c] ELSE view[v].status,
                   !.attempts = IF what = "attempts" THEN attempts[c] ELSE view[v].attempts]
    BY <2>5 DEF DetailInv, ViewIsCurrent
  <2>7. next.read = Append(read, what) /\ next.invoice = c
        /\ next.status = (IF what = "invoice" THEN status[c] ELSE view[v].status)
        /\ next.attempts = (IF what = "attempts" THEN attempts[c] ELSE view[v].attempts)
    BY <1>2, <2>6 DEF ViewRecord
  <2>8. next \in ViewRecord
    BY <1>2, <2>2, <2>4, <2>6 DEF ViewRecord
  <2>9. view' = [view EXCEPT ![v] = next]
    BY <2>5, <2>6
  <2> QED
    BY <1>2, <2>3, <2>4, <2>7, <2>8, <2>9
<1>6. /\ next.status \in Terminal => status[c] = next.status
      /\ next.status = "processing" => attempts[c] # <<>>
  <2>1. CASE Len(read) = 0
    BY <1>1, <1>5, <2>1 DEF DetailInv, AttemptsMatch
  <2>2. CASE Len(read) \in {1, 2}
    <3>1. Len(read) > 0 /\ Len(read) # 0
      BY ONLY <2>2
    <3>2. /\ view[v].status \in Terminal => status[c] = view[v].status
          /\ view[v].status = "processing" => attempts[c] # <<>>
      BY <3>1 DEF DetailInv, ViewIsCurrent
    <3>3. next.status = view[v].status
      BY <1>5, <3>1
    <3> QED
      BY <3>2, <3>3
  <2> QED
    BY <1>2, <2>1, <2>2
<1> HIDE DEF c, read, next
<1>7. Len(next.read) <= 3 /\ (Len(next.read) = 3 => Len(read) = 2)
  <2>1. \A n \in {0, 1, 2} : n + 1 <= 3 /\ (n + 1 = 3 => n = 2)
    OBVIOUS
  <2>2. Len(read) \in {0, 1, 2} /\ Len(next.read) = Len(read) + 1
    BY <1>2, <1>5
  <2> HIDE DEF next
  <2> QED
    BY ONLY <2>1, <2>2
<1>8. ViewIsCurrent'
  <2>1. view' \in [Client -> ViewRecord]
    BY <1>5 DEF DetailInv, ViewIsCurrent
  <2> QED
    BY <1>1, <1>4, <1>5, <1>6, <1>7, <2>1, SelectsAre DEF DetailInv, ViewIsCurrent, next
<1>9. DetailExplainsStatus'
  <2>1. \A u \in Client : Len(view[u].read) = 3 => Explained(view[u])
    BY SelectsAre DEF DetailInv, DetailExplainsStatus
  <2>2. (\A u \in Client : Len(view'[u].read) = 3 => Explained(view'[u])) => DetailExplainsStatus'
    BY SelectsAre DEF DetailExplainsStatus
  <2> SUFFICES ASSUME Len(next.read) = 3 PROVE Explained(next)
    BY <1>4, <2>1, <2>2 DEF next
  <2>3. next.attempts = attempts[c]
    BY <1>5, <1>7
  <2> QED
    BY <1>1, <1>6, <2>3, AttemptsExplainStatus DEF DetailInv
<1> QED
  BY <1>3, <1>8, <1>9 DEF DetailInv

LEMMA DetailStep == ListsInv /\ DetailInv /\ [Next]_vars => DetailInv'
<1> SUFFICES ASSUME ListsInv, DetailInv, [Next]_vars PROVE DetailInv'
  OBVIOUS
<1>1. ASSUME UNCHANGED <<attempts, view>>,
             \/ UNCHANGED status
             \/ \E c \in Creation : status[c] = "absent" /\ status' = [status EXCEPT ![c] = "open"]
      PROVE  DetailInv'
  <2>1. \A c \in Creation : status'[c] = status[c] \/ (status[c] = "absent" /\ status'[c] = "open")
    BY <1>1 DEF ListsInv, TypeOK
  <2>2. \A c \in Creation : LastOf(c)' = LastOf(c)
    BY <1>1 DEF LastOf
  <2>3. AttemptsMatch'
    BY <1>1, <2>1, <2>2 DEF DetailInv, AttemptsMatch
  <2>4. ViewIsCurrent' /\ DetailExplainsStatus'
    BY <1>1, <2>1, ViewsStayCurrent DEF Terminal
  <2> QED
    BY <2>3, <2>4 DEF DetailInv
<1>2. CASE UNCHANGED vars
  BY <1>1, <1>2 DEF vars, rowVars, clientVars
<1>3. ASSUME NEW k \in Customer, CreateCustomer(k) PROVE DetailInv'
  BY <1>1, <1>3 DEF CreateCustomer, clientVars
<1>4. ASSUME NEW c \in Creation, RefuseInvoice(c) \/ CustomerNotFound(c) \/ InsertInvoice(c) \/ RollBackInvoice(c)
      PROVE  DetailInv'
  BY <1>1, <1>4 DEF RefuseInvoice, CustomerNotFound, InsertInvoice, RollBackInvoice, rowVars, clientVars
<1>5. ASSUME NEW c \in Creation, CommitInvoice(c) PROVE DetailInv'
  <2>1. status[c] = "absent"
    BY <1>5 DEF CommitInvoice, Advance, ListsInv, ListedIsCreated
  <2> QED
    BY <1>1, <1>5, <2>1 DEF CommitInvoice, clientVars
<1>6. ASSUME NEW c \in Creation, VoidInvoice(c) \/ ClaimInvoice(c) \/ SettleAttempt(c) PROVE DetailInv'
  BY <1>6, TransitionsKeepDetail DEF ListsInv
<1>7. ASSUME NEW w \in Client, StartWalk(w) \/ NextPage(w) PROVE DetailInv'
  BY <1>1, <1>7 DEF StartWalk, NextPage, rowVars
<1>8. ASSUME NEW v \in Client, StartView(v) PROVE DetailInv'
  <2>1. PICK c \in Creation : status[c] # "absent" /\ view' = [view EXCEPT ![v].invoice = c]
    BY <1>8 DEF StartView
  <2>2. UNCHANGED <<status, attempts>> /\ view[v] = NoView
    BY <1>8 DEF StartView, rowVars
  <2>3. /\ view'[v] = [NoView EXCEPT !.invoice = c] /\ view' \in [Client -> ViewRecord]
        /\ \A u \in Client \ {v} : view'[u] = view[u]
    BY <2>1, <2>2 DEF DetailInv, ViewIsCurrent, ViewRecord, NoView
  <2>4. view'[v].invoice = c /\ Len(view'[v].read) = 0
    BY <2>3 DEF NoView
  <2>5. AttemptsMatch'
    BY <2>2 DEF DetailInv, AttemptsMatch, LastOf
  <2>6. ViewIsCurrent'
    BY <2>1, <2>2, <2>3, <2>4, SelectsAre DEF DetailInv, ViewIsCurrent
  <2>7. DetailExplainsStatus'
    <3>1. \A u \in Client : Len(view[u].read) = 3 => Explained(view[u])
      BY SelectsAre DEF DetailInv, DetailExplainsStatus
    <3>2. Len(view'[v].read) # 3
      BY <2>4
    <3>3. \A u \in Client : u = v \/ view'[u] = view[u]
      BY <2>3
    <3> SUFFICES ASSUME NEW u \in Client, Len(view'[u].read) = 3 PROVE Explained(view[u])'
      BY SelectsAre DEF DetailExplainsStatus
    <3>4. view'[u] = view[u]
      BY <3>2, <3>3
    <3>5. Explained(view'[u])
      BY <3>1, <3>4
    <3> QED
      BY ONLY <3>5 DEF Explained
  <2> QED
    BY <2>5, <2>6, <2>7 DEF DetailInv
<1>9. ASSUME NEW v \in Client, NEW what \in Range(Selects), Select(v, what) PROVE DetailInv'
  BY <1>9, SelectsKeepDetail DEF ListsInv
<1>10. CASE Next
  BY <1>3, <1>4, <1>5, <1>6, <1>7, <1>8, <1>9, <1>10 DEF Next, Create
<1> QED
  BY <1>2, <1>10

-----------------------------------------------------------------------------
(* The theorems *)

LEMMA Initially == Init => IInv
<1> SUFFICES ASSUME Init PROVE IInv
  OBVIOUS
<1>1. NoWalk \in WalkRecord /\ NoWalk.phase = "idle" /\ NoWalk.pages = <<>>
  BY DEF NoWalk, WalkRecord
<1>2. /\ NoView \in ViewRecord /\ NoView.read = <<>> /\ NoView.invoice = Null
  BY DEF NoView, ViewRecord
<1>0. PriceInv
  BY AsksAreParsed DEF Init, PriceInv
<1>3. ListsInv
  BY <1>1 DEF Init, ListsInv, TypeOK, ListedHasId, ListedIsCreated, CursorIsLast, NoRowTwice
<1>4. DueInv
  BY <1>1 DEF Init, DueInv, DueIsAhead, WalkIsComplete
<1>5. DetailInv
  <2>1. AttemptsMatch
    BY DEF Init, AttemptsMatch
  <2>2. ViewIsCurrent
    BY <1>2, SelectsAre DEF Init, ViewIsCurrent
  <2>3. DetailExplainsStatus
    BY <1>2, SelectsAre DEF Init, DetailExplainsStatus
  <2> QED
    BY <2>1, <2>2, <2>3 DEF DetailInv
<1> QED
  BY <1>0, <1>3, <1>4, <1>5 DEF IInv

(* The inductive invariant: what is inserted is what was priced, what is   *)
(* listed has an id, what a walk has still to find is listed and ahead of  *)
(* its cursor, and the attempts of an invoice, and what a client has read  *)
(* of it, say what its status says (create_invoice, list_invoices,         *)
(* load_detail).                                                           *)
THEOREM Invariance == Spec => []IInv
<1>1. IInv /\ [Next]_vars => IInv'
  BY PriceStep, ListsStep, DueStep, DetailStep DEF IInv, ListsInv
<1> QED
  BY Initially, <1>1, PTL DEF Spec

(* A creation is refused exactly if it may not be paid, and what is        *)
(* inserted has the exact total of its lines: no product or sum wraps, for *)
(* any list, width and cap, and the schema's CHECKs are never what refuses *)
(* (price, create_invoice, migrations/0002).                               *)
THEOREM PricesAreExact == Spec => []PricedExactly
<1>1. IInv => PricedExactly
  <2> SUFFICES ASSUME PriceInv, NEW c \in Creation, ask[c] # Null
               PROVE  PricedExactly!(c)!2
    BY DEF IInv, PricedExactly
  <2>q. QED BY PriceIsExact DEF PriceInv, Parsed
<1> QED
  BY Invariance, <1>1, PTL

(* A walk through a list never goes back and never shows a row twice,      *)
(* whatever is inserted, paid or voided between its pages (pagination.rs). *)
THEOREM WalksGoForward == Spec => []NoRowTwice
<1>1. IInv => NoRowTwice
  BY DEF IInv, ListsInv
<1> QED
  BY Invariance, <1>1, PTL

(* A walk that was told there is no more has seen every row that was there *)
(* all along and matched its filter (from_overfetch and the queries).      *)
THEOREM WalksAreComplete == Spec => []WalkIsComplete
<1>1. IInv => WalkIsComplete
  BY DEF IInv, DueInv
<1> QED
  BY Invariance, <1>1, PTL

(* What get_invoice answers is consistent though each SELECT of load_detail *)
(* has a snapshot of its own: a paid invoice comes with the one attempt     *)
(* that succeeded, a processing one with an attempt.                        *)
THEOREM DetailIsConsistent == Spec => []DetailExplainsStatus
<1>1. IInv => DetailExplainsStatus
  BY DEF IInv, DetailInv
<1> QED
  BY Invariance, <1>1, PTL

=============================================================================
