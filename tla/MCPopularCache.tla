--------------------------- MODULE MCPopularCache ---------------------------
(***************************************************************************)
(* A device that is published and archived again, next to a list of        *)
(* cameras that stays as it is.                                            *)
(***************************************************************************)
EXTENDS PopularCache

CONSTANTS r1, r2, r3

MCContents == [c \in {"smartphone", "camera"} |->
                 IF c = "camera" THEN {"cameras"} ELSE {"with", "without"}]
=============================================================================
