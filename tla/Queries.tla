------------------------------ MODULE Queries ------------------------------
(***************************************************************************)
(* What SQL and Python do with rows on the way to a page: add them up, put *)
(* them in an order, cut a page out of them.                               *)
(***************************************************************************)
EXTENDS Integers, FiniteSets, Folds

\* The sum of a table of numbers over some of its keys.
SumOver(value, who) ==
    MapThenFoldSet(+, 0, LAMBDA w : value[w], LAMBDA some : CHOOSE w \in some : TRUE, who)

(* What rows are sorted by, the highest first, and what comes first of     *)
(* rows that share a key: the statement does not say, so an order is one   *)
(* of those the database may take, and the next statement may take another *)
(* one with the same key.                                                  *)
IsOrder(order, all) ==
    /\ order.key \in [all -> Int] /\ order.tie \in [all -> Int]
    /\ \A e, f \in all : order.tie[e] = order.tie[f] => e = f

Ahead(order, f, e) ==
    order.key[f] > order.key[e]
    \/ (order.key[f] = order.key[e] /\ order.tie[f] < order.tie[e])

Spot(some, order, e) == Cardinality({f \in some : Ahead(order, f, e)}) + 1

\* LIMIT and OFFSET.
Cut(some, order, skip, limit) ==
    {e \in some : skip < Spot(some, order, e) /\ Spot(some, order, e) <= skip + limit}

PageIn(some, order, page, limit) == Cut(some, order, (page - 1) * limit, limit)

\* How many rows surely come before a row, and how many may, itself included.
Higher(some, key, e) == Cardinality({f \in some : key[f] > key[e]})
NotLower(some, key, e) == Cardinality({f \in some : key[f] >= key[e]})

(* What pages show, of the rows that are wanted among those sorted: none   *)
(* that the keys put before or behind the page, and every one that they    *)
(* put on it whichever way the ties fall. Only rows that share a key with  *)
(* the end of a page may be shown on either side of it.                    *)
ByTheirKeys(pages, wanted, some, key, limit) ==
    \A n \in DOMAIN pages :
        LET page == pages[n] IN
        /\ page \subseteq wanted
        /\ \A e \in wanted :
               /\ e \in page => /\ Higher(some, key, e) < n * limit
                                /\ (n - 1) * limit < NotLower(some, key, e)
               /\ (n - 1) * limit <= Higher(some, key, e) /\ NotLower(some, key, e) <= n * limit
                      => e \in page

\* Every wanted row on one page.
EachOnOnePage(pages, wanted) ==
    \A e \in wanted : Cardinality({n \in DOMAIN pages : e \in pages[n]}) = 1
=============================================================================
