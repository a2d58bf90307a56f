--------------------------- MODULE MCAuthorization ---------------------------
(* Two users and a superuser, who give and take the roles of a maintainer   *)
(* and of an owner.                                                         *)
EXTENDS Authorization, TLC

CONSTANTS alice, bob, root

MCUsers == {alice, bob, root}
MCSuperusers == {root}
MCGranted == {"Maintainer", "Owner"}

\* for each kind of object one that both have, and one that only an owner has
MCAsked == {"Product_Type_Edit", "Product_Type_Delete", "Product_Type_Add",
            "Product_Edit", "Product_Delete", "Group_Edit", "Group_Delete"}

Symmetric == Permutations({alice, bob})
=============================================================================
