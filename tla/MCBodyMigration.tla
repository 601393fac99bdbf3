-------------------------- MODULE MCBodyMigration --------------------------
(***************************************************************************)
(* A pair of linked bodies, in two scenes.  "copies": the bodies move on   *)
(* three ranks, and one of them may leave the scene; none is inserted.     *)
(* "splits": they move on two of the ranks, crack or are split by a        *)
(* callback; the second one may be tied to a fragment, which the callback  *)
(* deletes.  The third rank then has nothing and goes last.                *)
(***************************************************************************)
EXTENDS BodyMigration

VARIABLE scene

Pair == {{1, 2}}
Ties == {{1, 2}, {2, 3}}

Copies == UNCHANGED pendingbods \/ phase = "manage"
Splits ==
    /\ \A b \in DOMAIN home' : home'[b] # 2 /\ 2 \notin box'[b]
    /\ \A r \in Ranks : ties'[r] \subseteq {{2, 3}}
    /\ 2 \in done' => done' = Ranks

ScenesInit == Init /\ scene \in {"copies", "splits"}

ScenesNext ==
    /\ Next /\ UNCHANGED scene
    /\ scene = "copies" => Copies
    /\ scene = "splits" => Splits

ScenesSpec == ScenesInit /\ [][ScenesNext]_<<vars, scene>>
=============================================================================
