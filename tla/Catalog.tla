-------------------------------- MODULE Catalog --------------------------------
(***************************************************************************)
(* Review, seal and rerun of the evaluation catalog, side by side: they    *)
(* share the reviews' table and the directory of seals, and nothing orders *)
(* them.                                                                   *)
(***************************************************************************)
EXTENDS CatalogRerun

catalogVars == <<reviewVars, sealVars, rerunVars>>

CatalogTypeOK == ReviewTypeOK /\ SealTypeOK /\ RerunTypeOK

CatalogInit == ReviewInit /\ SealInit /\ RerunInit

CatalogNext ==
  \/ ReviewNext /\ UNCHANGED <<sealVars, rerunVars>>
  \/ SealNext /\ UNCHANGED rerunVars
  \/ RerunNext /\ UNCHANGED <<reviewVars, sealVars>>

CatalogSpec == CatalogInit /\ [][CatalogNext]_catalogVars
=============================================================================
