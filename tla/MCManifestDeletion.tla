------------------------- MODULE MCManifestDeletion -------------------------
(***************************************************************************)
(* The git service does not know the kind of the resource, so two of its   *)
(* processes are checked with one kind.                                    *)
(***************************************************************************)
EXTENDS ManifestDeletion

LoadsValue == {[kind |-> "Namespace", processes |-> 1],
               [kind |-> "Repository", processes |-> 2]}

=============================================================================
