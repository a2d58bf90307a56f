----------------------------- MODULE Authorization -----------------------------
(***************************************************************************)
(* Who may do what, and how that changes: roles of users and of groups on  *)
(* product types and products, roles of users in groups, global roles and  *)
(* configuration permissions.  Every page and API call that writes one of  *)
(* these is an action, guarded by the permission it asks for.  The lists   *)
(* (what a query returns) are stated beside the single check (what         *)
(* user_has_permission answers), which is different code.                  *)
(*                                                                         *)
(* One request is one step.  The configuration permissions of a user or a  *)
(* group are one flag, is_superuser never changes, and two rows equal in   *)
(* every column count as one.                                              *)
(***************************************************************************)
EXTENDS RolesPermissions, FiniteSets, Naturals

CONSTANTS Users, Superusers, Groups, ProductTypes, Products,
          Granted,      \* the roles the forms and calls choose from
          Asked,        \* the permissions the properties ask about
          MaxGrants     \* bound on rows, global roles and configuration flags

ASSUME AuthorizationAssumption ==
    /\ Superusers \subseteq Users /\ Superusers /= {}
    /\ Users \cap Groups = {}
    /\ ProductTypes \cap Products = {} /\ Groups \cap (ProductTypes \cup Products) = {}
    /\ None \notin Roles \cup ProductTypes
    /\ "Owner" \in Granted /\ Granted \subseteq Roles
    /\ Asked \subseteq Permissions /\ MaxGrants \in Nat

VARIABLES users, groups, product_types,     \* what exists
          prod_type,                        \* the type of each product, None: there is none
          rows,                             \* the five tables of roles
          global_role, configured,          \* of users and of groups
          auth_users                        \* the users of each group's auth_group

tables == <<prod_type, rows>>
vars == <<users, groups, product_types, prod_type, rows, global_role, configured, auth_users>>

Memberships == {"product_type_member", "product_member", "group_member"}
Tables == Memberships \cup {"product_type_group", "product_group"}
Row == [table: Tables, who: Users \cup Groups, of: ProductTypes \cup Products \cup Groups,
        role: Roles]

Subjects(table) == IF table \in Memberships THEN users ELSE groups
Objects(table) == CASE table \in {"product_type_member", "product_type_group"} -> product_types
                    [] table \in {"product_member", "product_group"} ->
                           {p \in Products : prod_type[p] /= None}
                    [] table = "group_member" -> groups

adds == [table \in Tables |->
    CASE table = "product_type_member" -> "Product_Type_Manage_Members"
      [] table = "product_member" -> "Product_Manage_Members"
      [] table = "group_member" -> "Group_Manage_Members"
      [] table = "product_type_group" -> "Product_Type_Group_Add"
      [] table = "product_group" -> "Product_Group_Add"]

edits == [table \in Tables |->
    CASE table = "product_type_group" -> "Product_Type_Group_Edit"
      [] table = "product_group" -> "Product_Group_Edit"
      [] OTHER -> adds[table]]

deletes == [table \in Tables |->
    CASE table = "product_type_member" -> "Product_Type_Member_Delete"
      [] table = "product_member" -> "Product_Member_Delete"
      [] table = "group_member" -> "Group_Member_Delete"
      [] table = "product_type_group" -> "Product_Type_Group_Delete"
      [] table = "product_group" -> "Product_Group_Delete"]

adds_owner == [table \in Tables |->
    CASE table = "product_type_member" -> "Product_Type_Member_Add_Owner"
      [] table = "product_member" -> "Product_Member_Add_Owner"
      [] table = "group_member" -> "Group_Add_Owner"
      [] table = "product_type_group" -> "Product_Type_Group_Add_Owner"
      [] table = "product_group" -> "Product_Group_Add_Owner"]

views == [table \in Tables |->
    CASE table = "product_type_member" -> "Product_Type_View"
      [] table = "product_member" -> "Product_View"
      [] table = "group_member" -> "Group_View"
      [] table = "product_type_group" -> "Product_Type_Group_View"
      [] table = "product_group" -> "Product_Group_View"]

get_group_member_roles == Roles \ {"API_Importer", "Writer"}

-----------------------------------------------------------------------------
(* The single check. *)

held(table, who, of) == {r \in rows : r.table = table /\ r.who = who /\ r.of = of}

\* the dictionary of a user's rows keeps one of them for each object
member(table, user, of) ==
    IF held(table, user, of) = {} THEN None ELSE (CHOOSE r \in held(table, user, of) : TRUE).role

get_groups(user) == {g \in Groups : held("group_member", user, g) /= {}}

user_has_configuration_permission(user) ==
    \/ user \in Superusers \cup configured
    \/ \E g \in configured \cap groups : user \in auth_users[g]

user_has_global_permission(user, permission) ==
    \/ user \in Superusers
    \/ permission = "Product_Type_Add" /\ user_has_configuration_permission(user)
    \/ role_has_global_permission(global_role[user], permission)
    \/ \E g \in get_groups(user) : role_has_global_permission(global_role[g], permission)

\* mutant: a group's role counts only for who is its owner
by_role_owner_only(user, permission, memberTable, groupTable, of) ==
    \/ role_has_permission(member(memberTable, user, of), permission)
    \/ \E g \in get_groups(user) : \E r \in held(groupTable, g, of) :
           role_has_permission(r.role, permission) /\ member("group_member", user, g) = "Owner"

by_role(user, permission, memberTable, groupTable, of) ==
    \/ role_has_permission(member(memberTable, user, of), permission)
    \/ \E g \in get_groups(user) : \E r \in held(groupTable, g, of) :
           role_has_permission(r.role, permission)

user_has_permission_on_type(user, type, permission) ==
    \/ user_has_global_permission(user, permission)
    \/ by_role(user, permission, "product_type_member", "product_type_group", type)

user_has_permission_on_product(user, product, permission) ==
    \/ user_has_global_permission(user, permission)
    \/ user_has_permission_on_type(user, prod_type[product], permission)
    \/ by_role(user, permission, "product_member", "product_group", product)

user_has_permission_on_group(user, group, permission) ==
    user \in Superusers \/ role_has_permission(member("group_member", user, group), permission)

user_has_permission(user, of, permission) ==
    \/ of \in product_types /\ user_has_permission_on_type(user, of, permission)
    \/ of \in Objects("product_member") /\ user_has_permission_on_product(user, of, permission)
    \/ of \in groups /\ user_has_permission_on_group(user, of, permission)

\* every member may remove himself
user_may_delete(user, row) ==
    \/ row.table \in Memberships /\ row.who = user
    \/ user_has_permission(user, row.of, deletes[row.table])

-----------------------------------------------------------------------------
(* The lists.  Those of engagements, tests, findings, endpoints and the    *)
(* like join the four tables as the list of products does.                 *)

roles_held(table, who, of) == {r.role : r \in held(table, who, of)}

get_authorized_product_types(user, permission) ==
    {t \in product_types :
        \/ user_has_global_permission(user, permission)
        \/ roles_held("product_type_member", user, t) \cap get_roles_for_permission(permission) /= {}
        \/ \E g \in get_groups(user) :
              roles_held("product_type_group", g, t) \cap get_roles_for_permission(permission) /= {}}

get_authorized_products(user, permission) ==
    {p \in Objects("product_member") :
        \/ user_has_global_permission(user, permission)
        \/ \E held_roles \in
              {roles_held("product_type_member", user, prod_type[p]),
               roles_held("product_member", user, p)}
              \cup {roles_held("product_type_group", g, prod_type[p]) : g \in get_groups(user)}
              \cup {roles_held("product_group", g, p) : g \in get_groups(user)} :
                 held_roles \cap get_roles_for_permission(permission) /= {}}

get_authorized_groups(user, permission) ==
    {g \in groups :
        \/ user \in Superusers
        \/ roles_held("group_member", user, g) \cap get_roles_for_permission(permission) /= {}}

\* the rows of a table a user finds through the API
listed(user, table) ==
    LET of == CASE table \in {"product_type_member", "product_type_group"} ->
                       get_authorized_product_types(user, views[table])
                [] table \in {"product_member", "product_group"} ->
                       get_authorized_products(user, views[table])
                [] table = "group_member" -> get_authorized_groups(user, views[table])
    IN  {r \in rows : r.table = table /\ r.of \in of}

\* mutant: a member of the product type counts whatever his role
get_authorized_users_any_type_role(product, permission) ==
    LET roles == get_roles_for_permission(permission)
        by_group(g) ==
            \/ roles_held("product_group", g, product) \cap roles /= {}
            \/ roles_held("product_type_group", g, prod_type[product]) \cap roles /= {}
    IN  {u \in users : \/ roles_held("product_member", u, product) \cap roles /= {}
                       \/ roles_held("product_type_member", u, prod_type[product]) /= {}
                       \/ \E g \in get_groups(u) : by_group(g)
                       \/ global_role[u] \in roles
                       \/ u \in Superusers}

\* the users offered for a product: global roles of groups are not looked at
get_authorized_users_for_product_and_product_type(product, permission) ==
    LET roles == get_roles_for_permission(permission)
        direct(who) ==
            \/ roles_held("product_member", who, product) \cap roles /= {}
            \/ roles_held("product_type_member", who, prod_type[product]) \cap roles /= {}
        by_group(g) ==
            \/ roles_held("product_group", g, product) \cap roles /= {}
            \/ roles_held("product_type_group", g, prod_type[product]) \cap roles /= {}
    IN  {u \in users : \/ direct(u)
                       \/ \E g \in get_groups(u) : by_group(g)
                       \/ global_role[u] \in roles
                       \/ u \in Superusers}

-----------------------------------------------------------------------------
(* Rows: the pages of a product type, a product and a group, those of a    *)
(* user and a group, and the API.                                          *)

Holders == Users \cup Groups

room == Cardinality(rows) + Cardinality({h \in Holders : global_role[h] /= None})
            + Cardinality(configured) < MaxGrants

owners(table, of) == {r \in rows : r.table = table /\ r.of = of /\ r.role = "Owner"}

\* tables of which an object keeps an owner
Owned == {"product_type_member", "group_member"}

\* mutant: counts all members
not_last_member(row) ==
    row.role = "Owner" => Cardinality({r \in rows : r.table = row.table /\ r.of = row.of}) > 1

not_last_owner(row) == row.role = "Owner" => Cardinality(owners(row.table, row.of)) > 1

\* of the object the row is now for
keeps_owner(row, new) ==
    new.role /= "Owner" /\ new.table \in Owned => owners(new.table, new.of) \ {row} /= {}

\* mutant: a manager may make owners
may_make_by_manager(user, row) ==
    row.role = "Owner" => user_has_permission(user, row.of, edits[row.table])

may_make(user, row) ==
    row.role = "Owner" => user_has_permission(user, row.of, adds_owner[row.table])

\* mutant: looks for the same role only
create_other_role(row) ==
    /\ room /\ row \notin rows
    /\ rows' = rows \cup {row}
    /\ auth_users' = IF row.table = "group_member"
                     THEN [auth_users EXCEPT ![row.of] = @ \cup {row.who}] ELSE auth_users
    /\ UNCHANGED <<users, groups, product_types, prod_type, global_role, configured>>

\* the signals of a member's row keep the auth_group
create(row) ==
    /\ room
    /\ held(row.table, row.who, row.of) = {}
    /\ rows' = rows \cup {row}
    /\ auth_users' = IF row.table = "group_member"
                     THEN [auth_users EXCEPT ![row.of] = @ \cup {row.who}] ELSE auth_users
    /\ UNCHANGED <<users, groups, product_types, prod_type, global_role, configured>>

\* mutant: no signal on delete
remove_silently(row) ==
    /\ rows' = rows \ {row}
    /\ UNCHANGED <<users, groups, product_types, prod_type, global_role, configured, auth_users>>

remove(row) ==
    /\ rows' = rows \ {row}
    /\ auth_users' = IF row.table = "group_member"
                     THEN [auth_users EXCEPT ![row.of] = @ \ {row.who}] ELSE auth_users
    /\ UNCHANGED <<users, groups, product_types, prod_type, global_role, configured>>

rewrite(row, new) ==
    /\ rows' = (rows \ {row}) \cup {new}
    /\ UNCHANGED <<users, groups, product_types, prod_type, global_role, configured, auth_users>>

offered_role(row) == row.table = "group_member" => row.role \in get_group_member_roles

add_member(user, row) ==
    /\ user_has_permission(user, row.of, adds[row.table])
    /\ row.who \in (IF row.table \in Memberships THEN users \ Superusers
                     ELSE get_authorized_groups(user, "Group_View"))
    /\ offered_role(row) /\ may_make(user, row)
    /\ create(row)

edit_member(user, row, new) ==
    /\ new.table = row.table /\ new.who = row.who /\ new.of = row.of
    /\ user_has_permission(user, row.of, edits[row.table])
    /\ offered_role(new) /\ keeps_owner(row, new) /\ may_make(user, new)
    /\ rewrite(row, new)

delete_member(user, row) ==
    /\ user_may_delete(user, row)
    /\ row.table \in Owned => not_last_owner(row)
    /\ remove(row)

\* from the page of a user or a group, where superusers get roles too
superuser_adds(user, row) ==
    /\ user \in Superusers
    /\ offered_role(row)
    /\ create(row)

api_post(user, row) ==
    /\ user_has_permission(user, row.of, adds[row.table])
    /\ may_make(user, row)
    /\ create(row)

\* a PUT may move the row; the signal for created rows is not sent
api_put(user, row, new) ==
    /\ new.table = row.table
    /\ row \in listed(user, row.table)
    /\ user_has_permission(user, row.of, edits[row.table])
    /\ new.of /= row.of => user_has_permission(user, new.of, adds[row.table])
    /\ <<new.who, new.of>> /= <<row.who, row.of>> => held(row.table, new.who, new.of) = {}
    /\ keeps_owner(row, new) /\ may_make(user, new)
    /\ rewrite(row, new)

\* a group's last owner is not protected here
api_delete(user, row) ==
    /\ row \in listed(user, row.table)
    /\ user_may_delete(user, row)
    /\ row.table = "product_type_member" => not_last_owner(row)
    /\ remove(row)

-----------------------------------------------------------------------------
(* Product types and products. *)

add_product_type(user, type) ==
    /\ type \notin product_types /\ room
    /\ user_has_global_permission(user, "Product_Type_Add")
    /\ product_types' = product_types \cup {type}
    /\ rows' = rows \cup {[table |-> "product_type_member", who |-> user, of |-> type,
                           role |-> "Owner"]}
    /\ UNCHANGED <<users, groups, prod_type, global_role, configured, auth_users>>

delete_product_type(user, type) ==
    LET gone == {type} \cup {p \in Products : prod_type[p] = type} IN
    /\ user_has_permission(user, type, "Product_Type_Delete")
    /\ product_types' = product_types \ {type}
    /\ prod_type' = [p \in Products |-> IF p \in gone THEN None ELSE prod_type[p]]
    /\ rows' = {r \in rows : r.of \notin gone}
    /\ UNCHANGED <<users, groups, global_role, configured, auth_users>>

new_product(user, product, type) ==
    /\ prod_type[product] = None
    /\ type \in get_authorized_product_types(user, "Product_Type_Add_Product")
    /\ prod_type' = [prod_type EXCEPT ![product] = type]
    /\ UNCHANGED <<users, groups, product_types, rows, global_role, configured, auth_users>>

move(product, type) ==
    /\ prod_type' = [prod_type EXCEPT ![product] = type]
    /\ UNCHANGED <<users, groups, product_types, rows, global_role, configured, auth_users>>

edit_product(user, product, type) ==
    /\ user_has_permission(user, product, "Product_Edit")
    /\ type \in get_authorized_product_types(user, "Product_Type_Add_Product")
    /\ move(product, type)

api_put_product(user, product, type) ==
    /\ user_has_permission(user, product, "Product_Edit")
    /\ move(product, type)

delete_product(user, product) ==
    /\ user_has_permission(user, product, "Product_Delete")
    /\ prod_type' = [prod_type EXCEPT ![product] = None]
    /\ rows' = {r \in rows : r.of /= product}
    /\ UNCHANGED <<users, groups, product_types, global_role, configured, auth_users>>

-----------------------------------------------------------------------------
(* Groups, users, global roles and configuration permissions. *)

\* the signal makes the auth_group and an owner
AddGroup(user, group, role) ==
    /\ group \notin groups /\ room
    /\ user_has_configuration_permission(user)
    /\ role /= None => user \in Superusers /\ Cardinality(rows) + 1 < MaxGrants
    /\ groups' = groups \cup {group}
    /\ global_role' = [global_role EXCEPT ![group] = role]
    /\ rows' = rows \cup {[table |-> "group_member", who |-> user, of |-> group, role |-> "Owner"]}
    /\ auth_users' = [auth_users EXCEPT ![group] = {user}]
    /\ UNCHANGED <<users, product_types, prod_type, configured>>

EditGroup(user, group, role) ==
    /\ user_has_permission(user, group, "Group_Edit")
    /\ user \in Superusers /\ role /= global_role[group]
    /\ role /= None => room
    /\ global_role' = [global_role EXCEPT ![group] = role]
    /\ UNCHANGED <<users, groups, product_types, prod_type, rows, configured, auth_users>>

DeleteGroup(user, group) ==
    /\ user_has_permission(user, group, "Group_Delete")
    /\ groups' = groups \ {group}
    /\ rows' = {r \in rows : r.of /= group /\ r.who /= group}
    /\ global_role' = [global_role EXCEPT ![group] = None]
    /\ configured' = configured \ {group}
    /\ auth_users' = [auth_users EXCEPT ![group] = {}]
    /\ UNCHANGED <<users, product_types, prod_type>>

add_user(user, new) ==
    /\ new \in Users \ users
    /\ user_has_configuration_permission(user)
    /\ new \in Superusers => user \in Superusers
    /\ users' = users \cup {new}
    /\ UNCHANGED <<groups, product_types, prod_type, rows, global_role, configured, auth_users>>

\* who is no superuser can only save a user without a global role
edit_user(user, edited, role) ==
    /\ user_has_configuration_permission(user)
    /\ user \notin Superusers => role = None /\ edited \notin Superusers
    /\ role /= global_role[edited] /\ (role /= None => room)
    /\ global_role' = [global_role EXCEPT ![edited] = role]
    /\ UNCHANGED <<users, groups, product_types, prod_type, rows, configured, auth_users>>

edit_permissions(user, holder) ==
    /\ user_has_configuration_permission(user)
    /\ \/ holder \in configured /\ configured' = configured \ {holder}
       \/ holder \notin configured /\ room /\ configured' = configured \cup {holder}
    /\ UNCHANGED <<users, groups, product_types, prod_type, rows, global_role, auth_users>>

perform_destroy(deleted) ==
    /\ users' = users \ {deleted}
    /\ rows' = {r \in rows : r.who /= deleted}
    /\ global_role' = [global_role EXCEPT ![deleted] = None]
    /\ configured' = configured \ {deleted}
    /\ auth_users' = [g \in Groups |-> auth_users[g] \ {deleted}]
    /\ UNCHANGED <<groups, product_types, prod_type>>

delete_user(user, deleted) ==
    /\ user_has_configuration_permission(user) /\ deleted /= user
    /\ user \notin Superusers => deleted \notin Superusers /\ global_role[deleted] = None
    /\ perform_destroy(deleted)

\* superusers and global roles are not looked at here
api_delete_user(user, deleted) ==
    /\ user_has_configuration_permission(user) /\ deleted /= user
    /\ perform_destroy(deleted)

-----------------------------------------------------------------------------
Init ==
    /\ users = Users
    /\ groups = {}
    /\ product_types = {}
    /\ prod_type = [p \in Products |-> None]
    /\ rows = {}
    /\ global_role = [h \in Holders |-> None]
    /\ configured = {}
    /\ auth_users = [g \in Groups |-> {}]

\* a row as a form or a call gives it
Asked_Row(table) ==
    [table: {table}, who: Subjects(table), of: Objects(table), role: Granted]

Add_Request(user, row) ==
    add_member(user, row) \/ superuser_adds(user, row) \/ api_post(user, row)

Put_Request(user) ==
    \E row \in rows : \E new \in Asked_Row(row.table) : api_put(user, row, new)

Row_Request(user) ==
    \/ \E table \in Tables : \E row \in Asked_Row(table) : Add_Request(user, row)
    \/ \E row \in rows :
          \/ \E new \in Asked_Row(row.table) : edit_member(user, row, new)
          \/ delete_member(user, row)
          \/ api_delete(user, row)

Product_Request(user) ==
    \/ \E type \in ProductTypes : add_product_type(user, type)
    \/ \E type \in product_types : delete_product_type(user, type)
    \/ \E product \in Products, type \in product_types : new_product(user, product, type)
    \/ \E product \in Objects("product_member") : delete_product(user, product)

Move_Request(user) ==
    \E product \in Objects("product_member"), type \in product_types :
        edit_product(user, product, type) \/ api_put_product(user, product, type)

Account_Request(user) ==
    \/ \E group \in Groups, role \in Granted \cup {None} : AddGroup(user, group, role)
    \/ \E group \in groups : DeleteGroup(user, group)
    \/ \E group \in groups, role \in Granted \cup {None} : EditGroup(user, group, role)
    \/ \E other \in Users : add_user(user, other)
    \/ \E other \in users, role \in Granted \cup {None} : edit_user(user, other, role)
    \/ \E holder \in users \cup groups : edit_permissions(user, holder)
    \/ \E other \in users : delete_user(user, other) \/ api_delete_user(user, other)

Next ==
    \E user \in users :
        \/ Row_Request(user) \/ Put_Request(user)
        \/ Product_Request(user) \/ Move_Request(user)
        \/ Account_Request(user)

Spec == Init /\ [][Next]_vars

-----------------------------------------------------------------------------
\* the permissions that may be asked about an object; the check refuses to answer any other
asked(of) ==
    Asked \cap (IF of \in ProductTypes THEN ProductTypePermissions
                ELSE IF of \in Groups THEN GroupPermissions
                ELSE Permissions \ (ProductTypePermissions \cup GroupPermissions))

\* nobody has two roles for the same object: no constraint of the database says so, only the
\* checks of each page and each serializer before they save
OneRow ==
    \A r, s \in rows : r.table = s.table /\ r.who = s.who /\ r.of = s.of => r = s

\* what the queries list is what the single check allows, though they are separate code: the
\* queries join the rows, the check looks one of them up
ListsAgree ==
    \A u \in users :
        /\ \A p \in Asked \cap ProductTypePermissions :
              get_authorized_product_types(u, p) =
                  {t \in product_types : user_has_permission(u, t, p)}
        /\ \A p \in Asked \ (ProductTypePermissions \cup GroupPermissions) :
              get_authorized_products(u, p) =
                  {o \in Objects("product_member") : user_has_permission(u, o, p)}
        /\ \A p \in Asked \cap GroupPermissions :
              get_authorized_groups(u, p) = {g \in groups : user_has_permission(u, g, p)}

\* who is offered for a product may do what he is offered for, and only those are missing whose
\* permission comes from the global role of a group
OfferedAreAllowed ==
    \A o \in Objects("product_member"), p \in Asked \ ProductTypePermissions :
        LET offered == get_authorized_users_for_product_and_product_type(o, p) IN
        /\ \A u \in offered : user_has_permission(u, o, p)
        /\ \A u \in users \ offered : user_has_permission(u, o, p) =>
              \E g \in get_groups(u) : role_has_global_permission(global_role[g], p)

\* a product type and a group lose their last owner only with the owner's account, by a PUT that
\* moves his row, and (a group) by the DELETE of his row
OwnerStays ==
    [][\A table \in Owned : \A of \in Objects(table) :
          owners(table, of) /= {} /\ of \in Objects(table)' /\ owners(table, of)' = {} =>
             \/ users' /= users
             \/ Cardinality(rows') = Cardinality(rows)
                    /\ \A r \in owners(table, of) : held(table, r.who, of)' = {}
             \/ table = "group_member" /\ \E user \in users, r \in rows : api_delete(user, r)]_vars

Mirrored == \A g \in groups : auth_users[g] = {u \in users : g \in get_groups(u)}

\* the users of a group's auth_group, who get its configuration permissions, stay the members
\* of the group through every request but a PUT
MirrorKept == [][Mirrored => Mirrored' \/ \E user \in users : Put_Request(user)]_vars

\* nobody gets, by a request that writes roles, a permission the requester does not have
\* himself: neither by a role he gives, nor by a group he adds him to or gives a role to
NoGift ==
    [][\A new \in rows' \ rows, user \in users \ Superusers :
          (\E of \in product_types \cup Objects("product_member") \cup groups :
              \E p \in asked(of) \ {"Product_Type_Add"} :
                 /\ ~user_has_permission(user, of, p)
                 /\ \E u \in users \ Superusers :
                        ~user_has_permission(u, of, p) /\ user_has_permission(u, of, p)')
          => /\ ~Add_Request(user, new)
             /\ \A row \in rows : ~edit_member(user, row, new) /\ ~api_put(user, row, new)]_vars
=============================================================================
