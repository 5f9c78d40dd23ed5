-------------------------------- MODULE Pages --------------------------------
(***************************************************************************)
(* Page arithmetic of the three lists.  OFFSET is (page - 1) * page_size,  *)
(* multiplied in u32 before it is widened to i64.                          *)
(***************************************************************************)
EXTENDS Naturals

CONSTANTS
  Width,       \* 2^32: u32 arithmetic wraps there
  MaxPage,     \* 10000
  MaxPageSize  \* 100

ASSUME PagesAssumption ==
  /\ Width \in Nat /\ MaxPage \in Nat \ {0} /\ MaxPageSize \in Nat \ {0}
  /\ MaxPage * MaxPageSize <= Width

Offset(page, size) == ((page - 1) * size) % Width

(* LIMIT size OFFSET Offset(page, size), of rows numbered from 1.          *)
OnPage(row, page, size) ==
  Offset(page, size) < row /\ row <= Offset(page, size) + size

(* total.div_ceil(page_size)                                               *)
TotalPages(total, size) == (total + size - 1) \div size

(***************************************************************************)
(* Properties.                                                             *)
(***************************************************************************)

(* Row by row: a page ends where the next one begins, none is shown twice  *)
(* and none is skipped, up to the last page that can be asked for.         *)
PageShowsItsRows(page, size) ==
  \A row \in 1 .. MaxPage * MaxPageSize :
    OnPage(row, page, size) <=> (row - 1) \div size = page - 1

(* The pages up to the total, and no others, have rows on them.            *)
TotalCountsPages(page, size) ==
  \A rows \in 0 .. MaxPage * MaxPageSize :
    page <= TotalPages(rows, size)
      <=> \E row \in 1 .. rows : OnPage(row, page, size)
=============================================================================
