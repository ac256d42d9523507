-------------------------- MODULE MCTestAssetIntake ---------------------------
(* Small instances of TestAssetIntake.  Two contents, two keys of one actor,   *)
(* one requirement of the project and one of another project, which is         *)
(* archived.                                                                   *)
EXTENDS TestAssetIntake, TLC

CONSTANTS r1, r2, r3, shop, old, k1, k2, x, y, reqShop, reqOld

MCRequirementProject == [q \in {reqShop, reqOld} |-> IF q = reqShop THEN shop ELSE old]

Cmd(p, k, c, s) == [project |-> p, key |-> k, content |-> c, source |-> s]

(* Races on a key and on a content: the same request twice, its key with       *)
(* another content, its content under another key.                             *)
RaceCommands ==
    {Cmd(shop, k1, x, Manual), Cmd(shop, k1, y, Manual), Cmd(shop, k2, x, Manual)}

(* Sources: a requirement of the project or of another, an archived project.   *)
SourceCommands ==
    {Cmd(shop, k1, x, Manual), Cmd(shop, k2, x, reqShop), Cmd(shop, k1, x, reqShop),
     Cmd(shop, k2, x, reqOld), Cmd(old, k1, x, Manual)}

(* Requests are interchangeable.                                               *)
Symmetry == Permutations(Requests)
===============================================================================
