---------------------------- MODULE MCDbSession ----------------------------
(* Small instances of DbSession: one file of each way to load, with a      *)
(* refused row and a doubtful note in the FSN file.                        *)
EXTENDS DbSession

CONSTANTS fsn, blank, bf, box, bk, dk, sk

MCKind == [f \in Files |-> CASE f \in {fsn, blank} -> "FSN" [] f \in {bf, box} -> "BF"
                             [] f = bk -> "BK" [] f = dk -> "DK" [] f = sk -> "SK"]
MCRows == [f \in Files |-> CASE f = fsn -> <<"note", "doubtful">> [] f = blank -> <<"note", "nomon">>
                             [] f = bf -> <<"bundle", "bundle">> [] f = box -> <<"monbox", "bundle">>
                             [] f = bk -> <<"package", "package">> [] f = dk -> <<"bag">>
                             [] f = sk -> <<"account">>]
(* Which files share the session, and how often each may be loaded.        *)
Batches == {{fsn, bk, sk}, {fsn, blank}, {bf, box, dk}}
MCBudgets == {[f \in Files |-> IF f \in B THEN 2 ELSE 0] : B \in Batches}

MCRejected == {<<fsn, 1>>}
=============================================================================
