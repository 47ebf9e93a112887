--------------------------- MODULE MCAtmBusiness ----------------------------
(* Small instances of AtmBusiness: two files of one business, a file with a*)
(* business of its own, and one without notes.                             *)
EXTENDS AtmBusiness, TLC

CONSTANTS atm1, atm2, crs, bare, h1, h2, draw, deposit, check

MCBusiness == [f \in Files |-> CASE f \in {atm1, atm2} -> draw [] f = crs -> deposit
                                 [] f = bare -> check]
MCBatches  == {{atm1, atm2}, {crs, bare}}

HandlerSymmetry == Permutations(Handlers)
=============================================================================
