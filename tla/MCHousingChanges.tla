-------------------------- MODULE MCHousingChanges --------------------------
(* The Raspberry Pi housing of the example project: a base 25 mm high under  *)
(* a lid of 15 mm.  The rim is a feature of the lid.                         *)
EXTENDS HousingChanges

MCInitial ==
    (BaseHeight :> 25) @@ (BaseWall :> 2) @@ (Floor :> 2) @@ (LidTop :> 2) @@ (TotalHeight :> 40)

MCDefault == (LidHeight :> 15) @@ (BossTop :> 14) @@ MCInitial

MCOwner == [o \in {"base", "lid", "rim"} |-> IF o = "rim" THEN "lid" ELSE o]

Prompt(object) ==
    [scope |-> <<object>>, names |-> {}, implied |-> FALSE, sense |-> 0, by |-> 0, to |-> 0,
     thickness |-> 0, faces |-> FALSE, geometry |-> <<>>]

By(object, sense, n) == [Prompt(object) EXCEPT !.implied = TRUE, !.sense = sense, !.by = n]
To(object, sense, n) == [Prompt(object) EXCEPT !.implied = TRUE, !.sense = sense, !.to = n]

Ask(request, proposal) == [request |-> request, proposal |-> proposal]
Local(request) == Ask(request, <<>>)
Proposed(key, value) == <<SetOp(key[1], key[2], value)>>

(* Lower the base by 4, the lid to 12, the lid by 3; raise the lid by 5; set *)
(* the floor thickness to 3 ("thickness" alone is read as well); a hole.     *)
(* Of a model: heights, a boss too high and one set low, a feature of the    *)
(* lid, a base outside the scope, base and lid together.                     *)
MCAsks ==
    {Local(By("base", -1, 4)), Local(To("lid", -1, 12)), Local(By("lid", -1, 3)),
     Local(By("lid", 1, 5)),
     Local([Prompt("base") EXCEPT !.names = {"floor_thickness"}, !.to = 3, !.thickness = 3]),
     Local([Prompt("base") EXCEPT !.geometry = <<"boolean_cut">>]),
     Ask(Prompt("lid"), Proposed(TotalHeight, 44)), Ask(Prompt("lid"), Proposed(BossTop, 20)),
     Ask(Prompt("lid"), Proposed(BossTop, 10)),
     Ask(Prompt("lid"), Proposed(<<"rim", "height">>, 11)),
     Ask(By("lid", -1, 1), Proposed(BaseHeight, 20)),
     Ask([Prompt("base") EXCEPT !.scope = <<"base", "lid">>],
         Proposed(BaseHeight, 21) \o Proposed(LidHeight, 12)),
     Ask(Prompt("base"), Proposed(BaseHeight, 38))}

(* What the theorem on undos assumes of the new housing. *)
ASSUME MCNewHousing == NewHousing
=============================================================================
