----------------------------- MODULE MCInvoicing ----------------------------
(***************************************************************************)
(* Invoicing for TLC, three kinds of instance in one: a single creation    *)
(* with every list of items up to a length, several with one plain item,   *)
(* and several customers.                                                  *)
(***************************************************************************)
EXTENDS Invoicing, TLC

Item == [described : BOOLEAN, quantity : {0, 1, 2, 7}, unit : {-1, 0, 1, 3, 5}]

Baskets == UNION {[1 .. n -> {item \in Item : item.described \/ item.quantity = 1}] : n \in 0 .. 2}
           \cup {<<item, item, item>> : item \in Item}

Plain == <<[described |-> TRUE, quantity |-> 1, unit |-> 1]>>

(* Of the customers and creations, those in the sets send a request. *)
Asked(customers, valid, creations, request) ==
    [x \in Customer \cup Creation |->
        CASE x \in customers -> (IF x \in valid THEN "valid" ELSE "invalid")
          [] x \in creations -> request
          [] OTHER -> Null]

Request(k, usd, items) == [usd |-> usd, customer |-> k, items |-> items]

SmallAsks ==
    UNION {{Asked({k}, {k}, {c}, Request(k, TRUE, items)) : items \in Baskets} : k \in Customer, c \in Creation}
    \cup {Asked({k}, {k}, {c}, Request(k, FALSE, Plain)) : k \in Customer, c \in Creation}
    \cup {Asked({k}, {k}, Creation, Request(k, TRUE, Plain)) : k \in Customer}
    \cup {Asked(Customer, valid, {}, Null) : valid \in {Customer} \cup {Customer \ {k} : k \in Customer}}

Symmetric == Permutations(Customer) \cup Permutations(Creation)
=============================================================================
