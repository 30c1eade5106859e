------------------------------ MODULE Pagination ------------------------------
(***************************************************************************)
(* application::PageRequest and Page.  A client asks for one page after      *)
(* another until has_next() is false.  Page numbers, sizes and offsets are   *)
(* unsigned integers of a fixed width; totals are twice as wide.             *)
(***************************************************************************)
EXTENDS Integers

CONSTANTS Wide,        \* numbers of a uint32_t: 2^32
          Sizes        \* page sizes asked for

ASSUME PagesAssumption == Wide \in Nat \ {0} /\ Sizes \subseteq 1..Wide - 1

VARIABLES total, size,   \* items there are, and items to a page
          page,          \* the page the client has
          seen,          \* items it has been given
          fetched        \* number of pages it has fetched

page_vars == <<total, size, page, seen, fetched>>

\* PageRequest::offset()
offset(p) == (p * size) % Wide

\* What the repository behind the request returns
Items(p) == {i \in offset(p)..offset(p) + size - 1 : i < total}

has_next_inclusive(p) == ((p + 1) % Wide) * size <= total

\* Page::has_next(): the page number is advanced before it is widened.
has_next(p) == ((p + 1) % Wide) * size < total

\* Page::total_pages()
total_pages == IF size = 0 THEN 0 ELSE ((total + size - 1) \div size) % Wide

\* A client of totals whose last page has a number and an offset that fit: with
\* larger ones page numbers and offsets wrap.
PagesInit ==
    /\ size \in Sizes
    /\ total \in {t \in 0..Wide : t + size - 1 < Wide * size}
    /\ page = 0
    /\ seen = Items(0)
    /\ fetched = 1

NextPage ==
    /\ has_next(page)
    /\ page' = (page + 1) % Wide
    /\ seen' = seen \cup Items(page')
    /\ fetched' = fetched + 1
    /\ UNCHANGED <<total, size>>

LastPage ==
    /\ ~has_next(page)
    /\ UNCHANGED page_vars

PagesNext == NextPage \/ LastPage

PagesSpec == PagesInit /\ [][PagesNext]_page_vars

-----------------------------------------------------------------------------
(* Properties *)

\* Following has_next() from page 0 gives a client all items, each of them once,
\* and takes total_pages() pages; it never asks for an empty page.  Where there are no
\* items, it stops after the first page.
EveryItemOnce ==
    /\ total > 0 => fetched <= total_pages /\ Items(page) # {}
    /\ ~has_next(page) => seen = 0..total - 1
    /\ ~has_next(page) => fetched = IF total = 0 THEN 1 ELSE total_pages
    /\ has_next(page) => Items((page + 1) % Wide) \cap seen = {}
=============================================================================
