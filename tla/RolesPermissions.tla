--------------------------- MODULE RolesPermissions ---------------------------
(***************************************************************************)
(* The roles of DefectDojo and what each may do.  The permissions are      *)
(* spelled as in the enumeration; each role is written as what it has on   *)
(* top of a smaller one.                                                   *)
(***************************************************************************)

CONSTANT None           \* no role

Roles == {"Reader", "API_Importer", "Writer", "Maintainer", "Owner"}

SeenByAll ==
    {"Product_Type_View", "Product_View", "Engagement_View", "Test_View", "Finding_View",
     "Finding_Group_View", "Endpoint_View", "Component_View", "Product_Group_View",
     "Product_Type_Group_View", "Technology_View", "Credential_View"}

ReaderPermissions == SeenByAll \cup
    {"Note_Add", "Group_View", "Language_View", "Product_API_Scan_Configuration_View",
     "Product_Tracking_Files_View"}

ImporterPermissions == SeenByAll \cup
    {"Engagement_Add", "Engagement_Edit", "Test_Edit", "Import_Scan_Result"}

WriterPermissions == ReaderPermissions \cup ImporterPermissions \cup
    {"Risk_Acceptance", "Test_Add", "Finding_Add", "Finding_Edit", "Finding_Group_Add",
     "Finding_Group_Edit", "Finding_Group_Delete", "Endpoint_Add", "Endpoint_Edit",
     "Benchmark_Edit", "Note_View_History", "Note_Edit", "Language_Add", "Language_Edit",
     "Language_Delete", "Technology_Add", "Technology_Edit", "Credential_Add", "Credential_Edit"}

MaintainerPermissions == WriterPermissions \cup
    {"Product_Type_Add_Product", "Product_Type_Member_Delete", "Product_Type_Manage_Members",
     "Product_Type_Edit", "Product_Member_Delete", "Product_Manage_Members",
     "Product_Configure_Notifications", "Product_Edit", "Engagement_Delete", "Test_Delete",
     "Finding_Delete", "Endpoint_Delete", "Benchmark_Delete", "Note_Delete",
     "Product_Group_Add", "Product_Group_Edit", "Product_Group_Delete",
     "Product_Type_Group_Add", "Product_Type_Group_Edit", "Product_Type_Group_Delete",
     "Group_Edit", "Group_Manage_Members", "Group_Member_Delete", "Technology_Delete",
     "Product_API_Scan_Configuration_Add", "Product_API_Scan_Configuration_Edit",
     "Product_API_Scan_Configuration_Delete", "Product_Tracking_Files_Add",
     "Product_Tracking_Files_Edit", "Product_Tracking_Files_Delete", "Credential_Delete"}

OwnerPermissions == MaintainerPermissions \cup
    {"Product_Type_Member_Add_Owner", "Product_Type_Delete", "Product_Member_Add_Owner",
     "Product_Delete", "Product_Group_Add_Owner", "Product_Type_Group_Add_Owner",
     "Group_Add_Owner", "Group_Delete"}

get_roles_with_permissions ==
    [r \in Roles |-> CASE r = "Reader" -> ReaderPermissions
                       [] r = "API_Importer" -> ImporterPermissions
                       [] r = "Writer" -> WriterPermissions
                       [] r = "Maintainer" -> MaintainerPermissions
                       [] r = "Owner" -> OwnerPermissions]

Permissions == OwnerPermissions \cup {"Product_Type_Add"}

\* what a global role has on top
GlobalOnly(role) == IF role \in {"Maintainer", "Owner"} THEN {"Product_Type_Add"} ELSE {}

\* the permissions numbered below Product_View, which a product does not know
ProductTypePermissions ==
    {"Product_Type_Add_Product", "Product_Type_View", "Product_Type_Member_Delete",
     "Product_Type_Manage_Members", "Product_Type_Member_Add_Owner", "Product_Type_Edit",
     "Product_Type_Delete", "Product_Type_Add"}

GroupPermissions ==
    {"Group_View", "Group_Member_Delete", "Group_Manage_Members", "Group_Add_Owner", "Group_Edit",
     "Group_Delete"}

role_has_permission(role, permission) ==
    role /= None /\ permission \in get_roles_with_permissions[role]

role_has_global_permission(role, permission) ==
    role /= None /\ (permission \in GlobalOnly(role) \/ role_has_permission(role, permission))

get_roles_for_permission(permission) ==
    {r \in Roles : permission \in get_roles_with_permissions[r]}
=============================================================================
