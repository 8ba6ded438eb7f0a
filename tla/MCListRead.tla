----------------------------- MODULE MCListRead -----------------------------
(***************************************************************************)
(* Instances of ListRead for TLC: lists of at most three pages of at most  *)
(* two rows, with the limits that fall before, on and after a page end.    *)
(***************************************************************************)
EXTENDS ListRead

CONSTANTS u1, u2, u3

Small == {None, 1, 2, 3}

Plain(modes) ==
    [mode : modes, operator : Small, sample : {None, 2}, maxRows : {None},
     maxEmpty : {None}, maxPages : {None, 2}, probing : BOOLEAN]

Capped(modes) ==
    [mode : modes, operator : {None, 2, 3}, sample : {None}, maxRows : {1, 2, 3},
     maxEmpty : {None, 1, 2}, maxPages : {None}, probing : {FALSE}]

AllAsks == Plain({"chunks", "items", "strict", "single", "object"}) \cup Capped({"chunks", "bounded"})

(* A ceiling below a sample, which the users list of identity.py is read    *)
(* with when --top is above 250,000.                                        *)
LowCeilings == [mode : {"chunks", "bounded"}, operator : {2, 3}, sample : {None, 2},
                maxRows : {1, 2}, maxEmpty : {None}, maxPages : {None}, probing : {FALSE}]

Probes == [mode : {"items"}, operator : {1, 2}, sample : {None}, maxRows : {None},
           maxEmpty : {None}, maxPages : {None}, probing : {TRUE}]
=============================================================================
