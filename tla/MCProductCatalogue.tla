------------------------- MODULE MCProductCatalogue -------------------------
(***************************************************************************)
(* Two vaults of the same id, the second one replacing the first, a boost  *)
(* for that id and one for a vault that is not in the file.  The first     *)
(* vault was listed as closed and is listed as active again, with a v1     *)
(* version that is skipped for its month and one that cannot be parsed.    *)
(* Developers remove the first vault for the second one, close the boost,  *)
(* or break a file.                                                        *)
(***************************************************************************)
EXTENDS ProductCatalogue

CONSTANTS old, new, boost, orphan

Listed(o, n) == (old :> o) @@ (new :> n)
BoostIs(status) == (boost :> status) @@ (orphan :> "active")

MCId == [v \in Vaults |-> "x"]
MCPool == (boost :> "x") @@ (orphan :> "y")
MCMonth == [d \in 0 .. 9 |-> IF d <= 1 THEN 1 ELSE d]

At(d, content) == [date |-> d, content |-> content]

MCV1Log == <<At(1, Listed("closed", "absent")), At(1, Listed("absent", "absent")),
             At(3, Broken)>>

MCHistory ==
    <<[file |-> "vaults", version |-> At(3, Listed("active", "absent"))],
      [file |-> "boosts", version |-> At(4, BoostIs("active"))]>>

MCEdits ==
    [vaults |-> {Listed("absent", "active"), Broken},
     boosts |-> {BoostIs("closed"), Broken}]
=============================================================================
