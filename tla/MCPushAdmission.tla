--------------------------- MODULE MCPushAdmission ---------------------------
(***************************************************************************)
(* Small repositories for PushAdmission.  One manifest and three pushes    *)
(* that may also reset or delete the branch, for each kind of handler: two *)
(* contents tell an older manifest from a newer one, and three let a       *)
(* content come back after two others.  Two manifests and two pushes mix a *)
(* kind that needs the whole-snapshot fence with one that does not.        *)
(***************************************************************************)
EXTENDS PushAdmission

All == {"commit", "reset", "delete"}

Repository(kinds, contents, changes, pushes) ==
    [kinds |-> kinds, contents |-> contents, changes |-> changes, pushes |-> pushes]

MCRepositories ==
    {Repository(<<"Product">>, 1..3, All, 3),
     Repository(<<"Namespace">>, 1..3, All, 3),
     Repository(<<"File">>, 1..2, All, 3),
     Repository(<<"Collection">>, 1..2, All, 3),
     Repository(<<"Collection", "Product">>, 1..2, All, 2),
     Repository(<<"Namespace", "Product">>, 1..2, All, 2)}

\* A Collection that is pushed, and changed by later pushes.
MCCollections == {Repository(<<"Collection">>, 1..3, {"commit"}, 3)}

=============================================================================
