------------------------------ MODULE MCIngestion ------------------------------
(***************************************************************************)
(* Bounds for Ingestion: four paths, three of which have names that        *)
(* collide, one of them with the number that the second would get.         *)
(***************************************************************************)
EXTENDS Ingestion

MCWalk == <<"x/a", "y/a", "z/a_001", "z/b">>

MCBase == [p \in Range(MCWalk) |->
             CASE p \in {"x/a", "y/a"} -> <<"a", <<>>>>
               [] p = "z/a_001" -> <<"a", <<1>>>>
               [] OTHER -> <<"b", <<>>>>]
=============================================================================
