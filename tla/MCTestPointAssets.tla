-------------------------- MODULE MCTestPointAssets --------------------------
(* Small instances of TestPointAssets: two assets with two points, and the      *)
(* jobs among which every request chooses.                                     *)
EXTENDS TestPointAssets, TLC

CONSTANTS first, second, strong, weak, draft1

Alphabetical == (first :> 1) @@ (second :> 2)

Job(op, assets) ==
    [op |-> op, assets |-> assets, points |-> {}, approve |-> FALSE, sound |-> {},
     keep |-> FALSE, preview |-> None]

Save(sound)  == [Job("save", <<first>>) EXCEPT !.sound = sound, !.preview = draft1]
Edit(sound)  == [Job("edit", <<first>>) EXCEPT !.sound = sound]
Retitle      == [Job("edit", <<first>>) EXCEPT !.keep = TRUE]
Approve(assets, points) == [Job("review", assets) EXCEPT !.points = points, !.approve = TRUE]
Withdraw     == [Job("review", <<first>>) EXCEPT !.points = {strong}]

AllJobs ==
    {Save({strong}), Save(Points), Edit({}), Retitle, Approve(<<first, second>>, {strong}),
     Approve(<<second, first>>, Points), Withdraw, Job("delete", <<first, second>>),
     Job("list", << >>), Job("generate", <<first>>), Job("case", << >>)}
===============================================================================
