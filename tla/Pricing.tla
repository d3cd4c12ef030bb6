------------------------------ MODULE Pricing -------------------------------
(***************************************************************************)
(* Server-side invoice totals (invoices/pricing.rs): checked arithmetic on *)
(* integers of a fixed width, a cap on each line and on the total, and the *)
(* first error in the order of the items.                                  *)
(***************************************************************************)
EXTENDS Integers, SequencesExt

CONSTANTS Bits,           \* width of an amount; i64 in the code
          MaxTotal,       \* MAX_INVOICE_TOTAL_CENTS
          MaxLineItems    \* MAX_LINE_ITEMS

ASSUME CapFits == Bits \in Nat \ {0} /\ MaxTotal \in 1 .. 2^(Bits - 1) - 1

Amount == -(2^(Bits - 1)) .. 2^(Bits - 1) - 1

(* A description passes text_field or it does not. *)
LineItemInput == [described : BOOLEAN, quantity : Amount, unit : Amount]

(* An Option is a set of at most one amount. *)
CheckedMul(a, b) == {a * b} \cap Amount
CheckedAdd(a, b) == {a + b} \cap Amount

WithinCap(option) == {amount \in option : amount <= MaxTotal}

(* Seeded faults: the product wraps around; the total has no cap. *)
FaultLineAmount(item) ==
    WithinCap({((item.quantity * item.unit + 2^(Bits - 1)) % 2^Bits) - 2^(Bits - 1)})

FaultNewTotal(total, item) == CheckedAdd(total, item.quantity * item.unit)

LineAmount(item) == WithinCap(CheckedMul(item.quantity, item.unit))

NewTotal(total, item) == WithinCap(UNION {CheckedAdd(total, amount) : amount \in LineAmount(item)})

(* What an item may be refused for, described being text_field. *)
Faults(total, item) ==
    [described |-> ~item.described,
     quantity  |-> item.quantity <= 0,
     unit      |-> item.unit < 0,
     product   |-> LineAmount(item) = {},
     sum       |-> NewTotal(total, item) = {}]

Refusals == <<"described", "quantity", "unit", "product", "sum">>

NoError == "none"

FirstError(total, item) ==
    LET wrong == {n \in DOMAIN Refusals : Faults(total, item)[Refusals[n]]}
    IN  IF wrong = {} THEN NoError ELSE Refusals[Min(wrong)]

(* One turn of the loop: an error ends it. *)
PriceItem(quote, item) ==
    IF quote.error # NoError THEN quote
    ELSE IF FirstError(quote.total, item) # NoError
    THEN [quote EXCEPT !.error = FirstError(quote.total, item)]
    ELSE [error |-> NoError,
          total |-> CHOOSE total \in NewTotal(quote.total, item) : TRUE,
          lines |-> Append(quote.lines, [quantity |-> item.quantity, unit |-> item.unit,
                                         amount |-> CHOOSE amount \in LineAmount(item) : TRUE])]

(* The CHECKs of invoices and invoice_line_items (0002). *)
Checked(quote) ==
    /\ quote.total > 0
    /\ \A line \in Range(quote.lines) :
          line.quantity > 0 /\ line.unit >= 0 /\ line.amount = line.quantity * line.unit

Empty == [error |-> NoError, total |-> 0, lines |-> <<>>]

(* The quote after each turn of the loop. *)
Turns(items) ==
    LET quote[n \in 0 .. Len(items)] == IF n = 0 THEN Empty ELSE PriceItem(quote[n - 1], items[n])
    IN  quote

(* An empty or overlong list is refused before the loop, a total of zero   *)
(* after it.                                                               *)
Price(items) ==
    LET quote == Turns(items)[Len(items)] IN
    IF Len(items) \notin 1 .. MaxLineItems THEN [Empty EXCEPT !.error = "line_items"]
    ELSE IF quote.error = NoError /\ quote.total = 0 THEN [quote EXCEPT !.error = "zero"]
    ELSE quote

-----------------------------------------------------------------------------
(* What it should come to, over the integers. *)

Sums(items) ==
    LET sum[n \in 0 .. Len(items)] ==
            IF n = 0 THEN 0 ELSE sum[n - 1] + items[n].quantity * items[n].unit
    IN  sum

Sum(items) == Sums(items)[Len(items)]

Payable(items) ==
    /\ Len(items) \in 1 .. MaxLineItems
    /\ \A n \in DOMAIN items : items[n].described /\ items[n].quantity > 0 /\ items[n].unit >= 0
    /\ Sum(items) \in 1 .. MaxTotal

=============================================================================
