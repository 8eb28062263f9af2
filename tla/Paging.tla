------------------------------- MODULE Paging -------------------------------
(***************************************************************************)
(* common/dto: the page that a listing asks for and the answer it gets.    *)
(* Integers of the code have a width, here a small one, so that an offset  *)
(* can overflow.                                                           *)
(***************************************************************************)
EXTENDS Integers

CONSTANTS
    DefaultSize,    \* 20 in the code
    MaxSize,        \* 200 in the code
    MaxInt          \* the largest int, 2^63 - 1 in the code

ASSUME PagingAssumption ==
    /\ DefaultSize \in Nat \ {0} /\ MaxSize \in Nat /\ MaxInt \in Nat
    /\ DefaultSize <= MaxSize /\ MaxSize <= MaxInt

Normalize(p) ==
    [p EXCEPT !.page = IF @ < 0 THEN 0 ELSE @,
              !.size = IF @ <= 0 THEN DefaultSize ELSE IF @ > MaxSize THEN MaxSize ELSE @]

\* Two's complement.
Wrap(n) == ((n + MaxInt + 1) % (2 * (MaxInt + 1))) - (MaxInt + 1)

Offset(p) == Wrap(p.page * p.size)

TotalPages(total, size) == (total + size - 1) \div size

NewPageLastOffByOne(p, total, content) ==
    [content |-> content, totalElements |-> total, totalPages |-> TotalPages(total, p.size),
     first |-> p.page = 0,
     last |-> p.page >= TotalPages(total, p.size),
     empty |-> content = {}]

NewPage(p, total, content) ==
    [content |-> content, totalElements |-> total, totalPages |-> TotalPages(total, p.size),
     first |-> p.page = 0,
     last |-> p.page >= TotalPages(total, p.size) - 1,
     empty |-> content = {}]
=============================================================================
