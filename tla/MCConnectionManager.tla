------------------------ MODULE MCConnectionManager ------------------------
(* ConnectionManager with the application's tasks interchangeable, for the *)
(* runs that check safety only.                                            *)
EXTENDS ConnectionManager, TLC

UserSymmetry == Permutations(Users)
=============================================================================
