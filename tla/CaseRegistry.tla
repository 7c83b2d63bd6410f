---------------------------- MODULE CaseRegistry ----------------------------
(***************************************************************************)
(* What case numbering promises: each tenant keeps a book of its cases,    *)
(* and opening a case appends it to the book.  The number of a case is its *)
(* place in the book, so numbers start from 1, no number is skipped, none  *)
(* names two cases and none ever changes.                                  *)
(***************************************************************************)
EXTENDS Naturals, Sequences

CONSTANTS Tenant, Case

VARIABLE book          \* book[t][n] is the case of tenant t that has number n

Init == book = [t \in Tenant |-> <<>>]

Entered(c) == \E t \in Tenant : \E n \in DOMAIN book[t] : book[t][n] = c

Open(t, c) == /\ ~Entered(c)
              /\ book' = [book EXCEPT ![t] = Append(@, c)]

Next == \E t \in Tenant, c \in Case : Open(t, c)

Spec == Init /\ [][Next]_book
=============================================================================
