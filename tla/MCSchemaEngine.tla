-------------------------- MODULE MCSchemaEngine ----------------------------
(***************************************************************************)
(* Values of the constants of SchemaEngine for TLC.                        *)
(***************************************************************************)
EXTENDS SchemaEngine, TLC

MCTypes == {"number", "integer"}
MCNoColumnTypes == {"formula"}
MCConvertible == {<<"number", "integer">>, <<"integer", "number">>}
MCAutoCast == MCConvertible
MCStatusSlug == "_status"
MCStatusType == "varchar"

MCAutonumber == {"autonumber"}
MCTypesAndAutonumber == MCTypes \cup MCAutonumber

MCOneType == {"number"}

AllOps == Operations
NoRollback == Operations \ {"rollback"}
Symmetry == Permutations(CollectionIds) \cup Permutations(FieldIds)
              \cup Permutations(Slugs) \cup Permutations(FieldSlugs)
              \cup Permutations(Clients)

RollbackOps == {"create_collection", "drop_collection", "add_field", "drop_field",
                "rollback"}
=============================================================================
