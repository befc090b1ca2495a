----------------------------- MODULE MCRebuild -----------------------------
(***************************************************************************)
(* Instances of Rebuild for TLC: a program that uses a unit, which uses    *)
(* another unit and a runtime unit.                                        *)
(***************************************************************************)
EXTENDS Rebuild, TLC

MCOrder == <<"ub", "ua", "prog">>
MCRuntime == {"dos"}
MCUses == [n \in {"ub", "ua", "prog"} |->
             CASE n = "ub" -> {} [] n = "ua" -> {"ub", "dos"} [] n = "prog" -> {"ua"}]
MCSorted == <<"dos", "prog", "ua", "ub">>
MCShortSorted == <<"dos", "prog", "ua">>
MCShortOrder == <<"ua", "prog">>
MCShortUses == [n \in {"ua", "prog"} |-> IF n = "prog" THEN {"ua"} ELSE {"dos"}]
=============================================================================
