------------------------------- MODULE MCRope -------------------------------
(* Ropes grown at the end, at the front, in the middle and by turns, with     *)
(* smaller and larger leaves, and then used freely for a few calls.           *)
EXTENDS Rope

MCNodeIds == 1 .. 40

Inserts(n, place(_)) == [k \in 1 .. n |-> <<"insert_at", place(k)>>]
Appends(n) == Inserts(n, LAMBDA k : k - 1)
Prepends(n) == Inserts(n, LAMBDA k : 0)
Middles(n) == Inserts(n, LAMBDA k : k \div 2)
Turns(n) == Inserts(n, LAMBDA k : IF k % 2 = 0 THEN k - 1 ELSE 0)

Script(min, max, first, free) == [min |-> min, max |-> max, first |-> first, free |-> free]
Grown(min, max, n, free) == {Script(min, max, g, free) : g \in {Appends(n), Prepends(n), Middles(n), Turns(n)}}

\* The second leaf is found, and an item of the first one is erased.
Skewing == Script(1, 3, Appends(9) \o <<<<"operator[]", 2>>, <<"erase_at", 0>>>>, 2)

\* Two leaves are erased from until they have one and two items.
Draining == Script(3, 7, Appends(8) \o [k \in 1 .. 5 |-> <<"erase_at", IF k <= 3 THEN 0 ELSE 3>>], 2)

\* Prepending and erasing until small leaves have been put together by
\* rebalancing and all but one item of one of them are erased.  A number below
\* 100 is a place to insert at; 100 and more, a place to erase.
Shrinking ==
    LET calls == <<
       0, 0, 0, 0, 0, 0, 0, 0, 0, 0, 0, 0, 0, 0, 0, 0, 0, 0, 0, 0, 0, 0,
       106, 110, 106, 118, 108, 110, 106, 105, 108, 0, 112, 104, 104, 0,
       104, 106, 0, 103, 101, 0, 106, 102, 0, 0, 0, 102, 0, 0, 0, 101, 0,
       107, 0, 103, 109, 104, 100, 104, 103, 0, 101, 100, 101>>
    IN  Script(3, 7, [k \in DOMAIN calls |-> IF calls[k] < 100 THEN <<"insert_at", calls[k]>>
                                                               ELSE <<"erase_at", calls[k] - 100>>], 1)

MCScripts ==
    Grown(1, 3, 7, 3) \cup Grown(2, 5, 8, 3) \cup Grown(1, 3, 17, 2) \cup Grown(2, 5, 26, 2)
        \cup {Skewing, Draining, Shrinking}
=============================================================================
