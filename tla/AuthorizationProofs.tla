-------------------------- MODULE AuthorizationProofs --------------------------
(***************************************************************************)
(* For any users, groups, product types, products and roles: the rows stay *)
(* within what exists, nobody gets two rows for one object, and therefore  *)
(* the lists and the single check agree.                                   *)
(***************************************************************************)
EXTENDS Authorization, FiniteSetTheorems, TLAPS

\* The rows are of the tables' types, and about users, groups and objects that exist.
RowsFit ==
    /\ rows \subseteq Row
    /\ \A r \in rows : r.who \in Subjects(r.table) /\ r.of \in Objects(r.table)
    /\ users \subseteq Users /\ groups \subseteq Groups /\ product_types \subseteq ProductTypes
    /\ prod_type \in [Products -> ProductTypes \cup {None}]
    /\ \A p \in Products : prod_type[p] /= None => prod_type[p] \in product_types

Inv == RowsFit /\ OneRow

\* A row is in one of five tables.
LEMMA TablesOf ==
    ASSUME NEW table \in Tables
    PROVE  \/ table = "product_type_member" \/ table = "product_member"
           \/ table = "group_member" \/ table = "product_type_group" \/ table = "product_group"
BY DEF Tables, Memberships

LEMMA ObjectsOf ==
    /\ Objects("product_type_member") = product_types
    /\ Objects("product_type_group") = product_types
    /\ Objects("product_member") = {p \in Products : prod_type[p] /= None}
    /\ Objects("product_group") = {p \in Products : prod_type[p] /= None}
    /\ Objects("group_member") = groups
    /\ Subjects("product_type_member") = users /\ Subjects("product_member") = users
    /\ Subjects("group_member") = users
    /\ Subjects("product_type_group") = groups /\ Subjects("product_group") = groups
BY DEF Objects, Subjects, Memberships

\* What a form or a call gives is a row of the table.
LEMMA AskedRowFits ==
    ASSUME RowsFit, NEW table \in Tables, NEW row \in Asked_Row(table)
    PROVE  row \in Row /\ row.table = table /\ row.who \in Subjects(table)
                       /\ row.of \in Objects(table)
<1>1. row.table = table /\ row.who \in Subjects(table) /\ row.of \in Objects(table)
         /\ row.role \in Roles
  BY AuthorizationAssumption DEF Asked_Row
<1>2. Subjects(table) \subseteq Users \cup Groups
  BY DEF Subjects, RowsFit
<1>3. Objects(table) \subseteq ProductTypes \cup Products \cup Groups
  BY TablesOf, ObjectsOf DEF RowsFit
<1>4. row = [table |-> table, who |-> row.who, of |-> row.of, role |-> row.role]
  BY DEF Asked_Row
<1> QED BY <1>1, <1>2, <1>3, <1>4 DEF Row

\* Adding a row where there was none keeps rows apart.
LEMMA CreateKeepsApart ==
    ASSUME Inv, NEW row \in Row, create(row),
           row.who \in Subjects(row.table), row.of \in Objects(row.table)
    PROVE  Inv'
<1>1. rows' = rows \cup {row} /\ held(row.table, row.who, row.of) = {}
  BY DEF create
<1>2. \A r \in rows : ~(r.table = row.table /\ r.who = row.who /\ r.of = row.of)
  BY <1>1 DEF held
<1>3. OneRow'
  BY <1>1, <1>2 DEF Inv, OneRow
<1>4. \A t : Objects(t)' = Objects(t) /\ Subjects(t)' = Subjects(t)
  BY DEF create, Objects, Subjects
<1>5. RowsFit'
  BY <1>1, <1>4 DEF create, Inv, RowsFit
<1> QED BY <1>3, <1>5 DEF Inv

\* Replacing a row by one for the same pair, or for a pair that had none.
LEMMA RewriteKeepsApart ==
    ASSUME Inv, NEW row \in rows, NEW new \in Row, rewrite(row, new), new.table = row.table,
           new.who \in Subjects(new.table), new.of \in Objects(new.table),
           <<new.who, new.of>> /= <<row.who, row.of>> => held(row.table, new.who, new.of) = {}
    PROVE  Inv'
<1>1. rows' = (rows \ {row}) \cup {new}
  BY DEF rewrite
<1>2. \A r \in rows \ {row} : ~(r.table = new.table /\ r.who = new.who /\ r.of = new.of)
  BY DEF held, Inv, OneRow
<1>3. OneRow'
  BY <1>1, <1>2 DEF Inv, OneRow
<1>4. \A t : Objects(t)' = Objects(t) /\ Subjects(t)' = Subjects(t)
  BY DEF rewrite, Objects, Subjects
<1>5. RowsFit'
  BY <1>1, <1>4 DEF rewrite, Inv, RowsFit
<1> QED BY <1>3, <1>5 DEF Inv

LEMMA RemoveKeepsApart ==
    ASSUME Inv, NEW row \in rows, remove(row)
    PROVE  Inv'
<1>1. rows' = rows \ {row}
  BY DEF remove
<1>2. \A t : Objects(t)' = Objects(t) /\ Subjects(t)' = Subjects(t)
  BY DEF remove, Objects, Subjects
<1>3. RowsFit'
  BY <1>1, <1>2 DEF remove, Inv, RowsFit
<1> QED BY <1>1, <1>3 DEF Inv, OneRow

LEMMA RowRequestKeepsApart ==
    ASSUME Inv, NEW user \in users, Row_Request(user) \/ Put_Request(user)
    PROVE  Inv'
<1>1. CASE \E table \in Tables : \E row \in Asked_Row(table) : Add_Request(user, row)
  <2>0. PICK table \in Tables : \E row \in Asked_Row(table) : Add_Request(user, row)
    BY <1>1
  <2>1. PICK row \in Asked_Row(table) : Add_Request(user, row)
    BY <2>0
  <2>2. create(row)
    BY <2>1 DEF Add_Request, add_member, superuser_adds, api_post
  <2> QED BY <2>1, <2>2, AskedRowFits, CreateKeepsApart DEF Inv
<1>2. CASE \E row \in rows : \E new \in Asked_Row(row.table) : edit_member(user, row, new)
  <2>0. PICK row \in rows : \E new \in Asked_Row(row.table) : edit_member(user, row, new)
    BY <1>2
  <2>1. PICK new \in Asked_Row(row.table) : edit_member(user, row, new)
    BY <2>0
  <2>2. row.table \in Tables
    BY DEF Inv, RowsFit, Row
  <2> QED BY <2>1, <2>2, AskedRowFits, RewriteKeepsApart DEF Inv, edit_member
<1>3. CASE \E row \in rows : delete_member(user, row) \/ api_delete(user, row)
  BY <1>3, RemoveKeepsApart DEF delete_member, api_delete
<1>4. CASE Put_Request(user)
  <2>0. PICK row \in rows : \E new \in Asked_Row(row.table) : api_put(user, row, new)
    BY <1>4 DEF Put_Request
  <2>1. PICK new \in Asked_Row(row.table) : api_put(user, row, new)
    BY <2>0
  <2>2. row.table \in Tables
    BY DEF Inv, RowsFit, Row
  <2> QED BY <2>1, <2>2, AskedRowFits, RewriteKeepsApart DEF Inv, api_put
<1> QED BY <1>1, <1>2, <1>3, <1>4 DEF Row_Request

\* New and deleted types and products take their rows with them.
LEMMA ProductRequestKeepsApart ==
    ASSUME Inv, NEW user \in users, Product_Request(user) \/ Move_Request(user)
    PROVE  Inv'
<1>1. CASE \E type \in ProductTypes : add_product_type(user, type)
  <2>1. PICK type \in ProductTypes : add_product_type(user, type)
    BY <1>1
  <2> DEFINE row == [table |-> "product_type_member", who |-> user, of |-> type, role |-> "Owner"]
  <2>2. row \in Row
    BY DEF Inv, RowsFit, Row, Tables, Memberships, Roles
  <2>3. \A r \in rows : ~(r.table = row.table /\ r.of = row.of)
    BY <2>1, ObjectsOf DEF add_product_type, Inv, RowsFit
  <2>4. rows' = rows \cup {row}
    BY <2>1 DEF add_product_type
  <2>5. OneRow'
    BY <2>3, <2>4 DEF Inv, OneRow
  <2>6. \A t : Subjects(t)' = Subjects(t)
    BY <2>1 DEF add_product_type, Subjects
  <2>7. \A t \in Tables : Objects(t) \subseteq Objects(t)'
    BY <2>1, TablesOf DEF add_product_type, Objects
  <2>8. row.who \in Subjects(row.table)' /\ row.of \in Objects(row.table)'
    BY <2>1 DEF add_product_type, Objects, Subjects, Memberships
  <2>9. \A r \in rows' : r.who \in Subjects(r.table)' /\ r.of \in Objects(r.table)'
    BY <2>4, <2>6, <2>7, <2>8 DEF Inv, RowsFit, Row
  <2> QED BY <2>1, <2>2, <2>4, <2>5, <2>9 DEF add_product_type, Inv, RowsFit
<1>2. CASE \E type \in product_types : delete_product_type(user, type)
  <2>1. PICK type \in product_types : delete_product_type(user, type)
    BY <1>2
  <2> DEFINE gone == {type} \cup {p \in Products : prod_type[p] = type}
  <2>2. /\ product_types' = product_types \ {type}
        /\ prod_type' = [p \in Products |-> IF p \in gone THEN None ELSE prod_type[p]]
        /\ rows' = {r \in rows : r.of \notin gone}
        /\ users' = users /\ groups' = groups
    BY <2>1 DEF delete_product_type
  <2>3. \A t : Subjects(t)' = Subjects(t)
    BY <2>2 DEF Subjects
  <2>4. \A t \in Tables : \A o \in Objects(t) \ gone : o \in Objects(t)'
    <3>1. type \in ProductTypes /\ \A p \in Products : p /= type
      BY AuthorizationAssumption DEF Inv, RowsFit
    <3>2. \A p \in Products \ gone : prod_type'[p] = prod_type[p]
      BY <2>2
    <3>3. (product_types \ gone) \subseteq product_types'
      BY <2>2
    <3>4. \A o \in Objects("product_member") \ gone : o \in Objects("product_member")'
      BY <3>2, ObjectsOf DEF Objects
    <3>5. Objects("product_group") = Objects("product_member")
             /\ Objects("product_group")' = Objects("product_member")'
      BY DEF Objects
    <3>6. Objects("product_type_member")' = product_types'
             /\ Objects("product_type_group")' = product_types' /\ Objects("group_member")' = groups'
      BY DEF Objects
    <3> QED BY <2>2, <3>3, <3>4, <3>5, <3>6, ObjectsOf, TablesOf
  <2>5. \A r \in rows' : r.who \in Subjects(r.table)' /\ r.of \in Objects(r.table)'
    BY <2>2, <2>3, <2>4 DEF Inv, RowsFit, Row
  <2>6. /\ prod_type' \in [Products -> ProductTypes \cup {None}]
        /\ \A p \in Products : prod_type'[p] /= None => prod_type'[p] \in product_types'
    BY <2>2 DEF Inv, RowsFit
  <2> QED BY <2>2, <2>5, <2>6 DEF Inv, RowsFit, OneRow
<1>3. CASE \E product \in Products, type \in product_types :
              \/ new_product(user, product, type) \/ move(product, type)
  <2>1. PICK product \in Products, type \in product_types :
              new_product(user, product, type) \/ move(product, type)
    BY <1>3
  <2>2. /\ prod_type' = [prod_type EXCEPT ![product] = type]
        /\ rows' = rows /\ users' = users /\ groups' = groups /\ product_types' = product_types
    BY <2>1 DEF new_product, move
  <2>3. type /= None /\ type \in ProductTypes
    BY AuthorizationAssumption DEF Inv, RowsFit
  <2>4. \A t : Subjects(t)' = Subjects(t)
    BY <2>2 DEF Subjects
  <2>5. \A p \in Products : prod_type[p] /= None => prod_type'[p] /= None
    BY <2>2, <2>3 DEF Inv, RowsFit
  <2>6. \A t \in Tables : Objects(t) \subseteq Objects(t)'
    BY <2>2, <2>5, TablesOf DEF Objects
  <2>7. \A r \in rows' : r.who \in Subjects(r.table)' /\ r.of \in Objects(r.table)'
    BY <2>2, <2>4, <2>6 DEF Inv, RowsFit, Row
  <2> QED BY <2>2, <2>3, <2>7 DEF Inv, RowsFit, OneRow
<1>4. CASE \E product \in Objects("product_member") : delete_product(user, product)
  <2>1. PICK product \in Products : delete_product(user, product)
    BY <1>4, ObjectsOf
  <2>2. /\ prod_type' = [prod_type EXCEPT ![product] = None]
        /\ rows' = {r \in rows : r.of /= product}
        /\ users' = users /\ groups' = groups /\ product_types' = product_types
    BY <2>1 DEF delete_product
  <2>3. \A t : Subjects(t)' = Subjects(t)
    BY <2>2 DEF Subjects
  <2>4. \A t \in Tables : \A o \in Objects(t) \ {product} : o \in Objects(t)'
    BY <2>2, TablesOf DEF Objects, Inv, RowsFit
  <2>5. \A r \in rows' : r.who \in Subjects(r.table)' /\ r.of \in Objects(r.table)'
    BY <2>2, <2>3, <2>4 DEF Inv, RowsFit, Row
  <2> QED BY <2>2, <2>5 DEF Inv, RowsFit, OneRow
<1> QED
  BY <1>1, <1>2, <1>3, <1>4, ObjectsOf
  DEF Product_Request, Move_Request, edit_product, api_put_product

\* Groups and users take their rows with them, and a new group has one owner.
LEMMA AccountRequestKeepsApart ==
    ASSUME Inv, NEW user \in users, Account_Request(user)
    PROVE  Inv'
<1>1. CASE \E group \in Groups, role \in Granted \cup {None} : AddGroup(user, group, role)
  <2>1. PICK group \in Groups, role \in Granted \cup {None} : AddGroup(user, group, role)
    BY <1>1
  <2> DEFINE row == [table |-> "group_member", who |-> user, of |-> group, role |-> "Owner"]
  <2>2. row \in Row
    BY DEF Inv, RowsFit, Row, Tables, Memberships, Roles
  <2>3. /\ group \notin groups /\ groups' = groups \cup {group} /\ rows' = rows \cup {row}
        /\ users' = users /\ product_types' = product_types /\ prod_type' = prod_type
    BY <2>1 DEF AddGroup
  <2>4. \A r \in rows : ~(r.table = row.table /\ r.of = row.of)
    BY <2>3, ObjectsOf DEF Inv, RowsFit
  <2>5. OneRow'
    BY <2>3, <2>4 DEF Inv, OneRow
  <2>6. \A t \in Tables : Subjects(t) \subseteq Subjects(t)' /\ Objects(t) \subseteq Objects(t)'
    BY <2>3, TablesOf DEF Subjects, Objects
  <2>7. row.who \in Subjects(row.table)' /\ row.of \in Objects(row.table)'
    BY <2>3 DEF Objects, Subjects, Memberships
  <2>8. \A r \in rows' : r.who \in Subjects(r.table)' /\ r.of \in Objects(r.table)'
    BY <2>3, <2>6, <2>7 DEF Inv, RowsFit, Row
  <2> QED BY <2>2, <2>3, <2>5, <2>8 DEF Inv, RowsFit
<1>2. CASE \E group \in groups : DeleteGroup(user, group)
  <2>1. PICK group \in groups : DeleteGroup(user, group)
    BY <1>2
  <2>2. /\ groups' = groups \ {group} /\ rows' = {r \in rows : r.of /= group /\ r.who /= group}
        /\ users' = users /\ product_types' = product_types /\ prod_type' = prod_type
    BY <2>1 DEF DeleteGroup
  <2>3. \A t \in Tables : /\ Subjects(t) \ {group} \subseteq Subjects(t)'
                          /\ Objects(t) \ {group} \subseteq Objects(t)'
    BY <2>2, TablesOf DEF Subjects, Objects
  <2>4. \A r \in rows' : r.who \in Subjects(r.table)' /\ r.of \in Objects(r.table)'
    BY <2>2, <2>3 DEF Inv, RowsFit, Row
  <2> QED BY <2>2, <2>4 DEF Inv, RowsFit, OneRow
<1>3. CASE \E other \in users : delete_user(user, other) \/ api_delete_user(user, other)
  <2>1. PICK other \in users : delete_user(user, other) \/ api_delete_user(user, other)
    BY <1>3
  <2>2. /\ users' = users \ {other} /\ rows' = {r \in rows : r.who /= other}
        /\ groups' = groups /\ product_types' = product_types /\ prod_type' = prod_type
    BY <2>1 DEF delete_user, api_delete_user, perform_destroy
  <2>3. \A t \in Tables : /\ Subjects(t) \ {other} \subseteq Subjects(t)'
                          /\ Objects(t)' = Objects(t)
    BY <2>2, TablesOf DEF Subjects, Objects
  <2>4. \A r \in rows' : r.who \in Subjects(r.table)' /\ r.of \in Objects(r.table)'
    BY <2>2, <2>3 DEF Inv, RowsFit, Row
  <2> QED BY <2>2, <2>4 DEF Inv, RowsFit, OneRow
<1>4. CASE \E other \in Users : add_user(user, other)
  <2>1. PICK other \in Users : add_user(user, other)
    BY <1>4
  <2>2. /\ users' = users \cup {other} /\ rows' = rows
        /\ groups' = groups /\ product_types' = product_types /\ prod_type' = prod_type
    BY <2>1 DEF add_user
  <2>3. \A t \in Tables : Subjects(t) \subseteq Subjects(t)' /\ Objects(t)' = Objects(t)
    BY <2>2, TablesOf DEF Subjects, Objects
  <2>4. \A r \in rows' : r.who \in Subjects(r.table)' /\ r.of \in Objects(r.table)'
    BY <2>2, <2>3 DEF Inv, RowsFit, Row
  <2> QED BY <2>2, <2>4 DEF Inv, RowsFit, OneRow
<1>5. CASE UNCHANGED <<users, groups, product_types, prod_type, rows>>
  BY <1>5 DEF Inv, RowsFit, OneRow, Subjects, Objects
<1> QED
  BY <1>1, <1>2, <1>3, <1>4, <1>5
  DEF Account_Request, EditGroup, edit_user, edit_permissions

LEMMA InvInit == Init => Inv
BY DEF Init, Inv, RowsFit, OneRow

\* The rows stay apart in every step.
LEMMA InvKept == Inv /\ [Next]_vars => Inv'
<1> SUFFICES ASSUME Inv, [Next]_vars PROVE Inv'
  OBVIOUS
<1>1. CASE UNCHANGED vars
  BY <1>1 DEF vars, Inv, RowsFit, OneRow, Subjects, Objects
<1> QED
  BY <1>1, RowRequestKeepsApart, ProductRequestKeepsApart, AccountRequestKeepsApart DEF Next

\* Nobody ever has two roles for the same object, nor one of or for what was deleted,
\* whatever the requests and their order.
THEOREM RolesAreUnique == Spec => [](RowsFit /\ OneRow)
BY InvInit, InvKept, PTL DEF Spec, Inv

\* With one row for each pair the role looked up is the role the joins find.
LEMMA LookupIsJoin ==
    ASSUME Inv, NEW table, NEW who, NEW of, NEW permission
    PROVE  role_has_permission(member(table, who, of), permission)
              <=> roles_held(table, who, of) \cap get_roles_for_permission(permission) /= {}
<1>1. CASE held(table, who, of) = {}
  BY <1>1 DEF member, roles_held, role_has_permission
<1>2. CASE held(table, who, of) /= {}
  <2>1. PICK r \in held(table, who, of) : member(table, who, of) = r.role
    BY <1>2 DEF member
  <2>2. \A s \in held(table, who, of) : s = r
    BY <2>1 DEF held, Inv, OneRow
  <2>3. r.role \in Roles /\ r.role /= None
    BY <2>1, AuthorizationAssumption DEF held, Inv, RowsFit, Row
  <2>4. roles_held(table, who, of) = {r.role}
    BY <2>1, <2>2 DEF roles_held
  <2> QED BY <2>1, <2>3, <2>4 DEF role_has_permission, get_roles_for_permission
<1> QED BY <1>1, <1>2

\* Rows of a group are found alike by the dictionary of lists and by the join.
LEMMA GroupRowsAreJoined ==
    ASSUME Inv, NEW table, NEW who, NEW of, NEW permission
    PROVE  (\E r \in held(table, who, of) : role_has_permission(r.role, permission))
              <=> roles_held(table, who, of) \cap get_roles_for_permission(permission) /= {}
<1>1. \A r \in held(table, who, of) : r.role \in Roles /\ r.role /= None
  BY AuthorizationAssumption DEF held, Inv, RowsFit, Row
<1> QED BY <1>1 DEF roles_held, role_has_permission, get_roles_for_permission

\* What by_role answers is what the two joins of a query find.
LEMMA CheckIsJoin ==
    ASSUME Inv, NEW user, NEW permission, NEW memberTable, NEW groupTable, NEW of
    PROVE  by_role(user, permission, memberTable, groupTable, of) <=>
              \/ roles_held(memberTable, user, of) \cap get_roles_for_permission(permission) /= {}
              \/ \E g \in get_groups(user) :
                    roles_held(groupTable, g, of) \cap get_roles_for_permission(permission) /= {}
BY LookupIsJoin, GroupRowsAreJoined DEF by_role

\* The lists of product types, products and groups are what the check allows: one theorem for
\* three queries and a check that share no code but the table of roles.
THEOREM ListsMatchChecks == Spec => []ListsAgree
<1>1. Inv => ListsAgree
  <2> SUFFICES ASSUME Inv, NEW u \in users, NEW p
               PROVE  /\ get_authorized_product_types(u, p) =
                             {t \in product_types : user_has_permission(u, t, p)}
                      /\ get_authorized_products(u, p) =
                             {o \in Objects("product_member") : user_has_permission(u, o, p)}
                      /\ get_authorized_groups(u, p) =
                             {g \in groups : user_has_permission(u, g, p)}
    BY DEF ListsAgree
  <2>0. /\ product_types \subseteq ProductTypes /\ groups \subseteq Groups
        /\ Objects("product_member") \subseteq Products
        /\ ProductTypes \cap Products = {} /\ Groups \cap (ProductTypes \cup Products) = {}
    BY ObjectsOf, AuthorizationAssumption DEF Inv, RowsFit
  <2>1. \A t \in product_types : user_has_permission(u, t, p) <=>
           \/ user_has_global_permission(u, p)
           \/ by_role(u, p, "product_type_member", "product_type_group", t)
    BY <2>0 DEF user_has_permission, user_has_permission_on_type
  <2>2. get_authorized_product_types(u, p) =
           {t \in product_types : user_has_permission(u, t, p)}
    BY <2>1, CheckIsJoin DEF get_authorized_product_types
  <2>3. \A o \in Objects("product_member") : user_has_permission(u, o, p) <=>
           \/ user_has_global_permission(u, p)
           \/ by_role(u, p, "product_type_member", "product_type_group", prod_type[o])
           \/ by_role(u, p, "product_member", "product_group", o)
    BY <2>0 DEF user_has_permission, user_has_permission_on_product, user_has_permission_on_type
  <2>4. get_authorized_products(u, p) =
           {o \in Objects("product_member") : user_has_permission(u, o, p)}
    BY <2>3, CheckIsJoin DEF get_authorized_products
  <2>5. \A g \in groups : user_has_permission(u, g, p) <=> user_has_permission_on_group(u, g, p)
    BY <2>0 DEF user_has_permission
  <2>6. get_authorized_groups(u, p) = {g \in groups : user_has_permission(u, g, p)}
    BY <2>5, LookupIsJoin DEF get_authorized_groups, user_has_permission_on_group
  <2> QED BY <2>2, <2>4, <2>6
<1> QED BY <1>1, InvInit, InvKept, PTL DEF Spec

-----------------------------------------------------------------------------
(* What each request does to the rows. *)

\* The rest of the state: there are finitely many rows, and a holder has at most one global role.
Typed ==
    /\ IsFiniteSet(rows)
    /\ global_role \in [Holders -> Roles \cup {None}]
    /\ auth_users \in [Groups -> SUBSET Users]

\* A row that is written, whichever page or call writes it.
Creates(user) ==
    \E row \in Row : /\ create(row)
                     /\ row.who \in Subjects(row.table) /\ row.of \in Objects(row.table)

Rewrites(user) ==
    \E row \in rows, new \in Row :
        /\ rewrite(row, new) /\ new.table = row.table /\ keeps_owner(row, new)
        /\ new.who \in Subjects(new.table) /\ new.of \in Objects(new.table)
        /\ \/ new.who = row.who /\ new.of = row.of
           \/ Put_Request(user)
        /\ <<new.who, new.of>> /= <<row.who, row.of>> => held(row.table, new.who, new.of) = {}

Removes(user) ==
    \E row \in rows : /\ remove(row)
                      /\ \/ row.table \in Owned => not_last_owner(row)
                         \/ row.table = "group_member" /\ api_delete(user, row)

\* Every request of a row writes, rewrites or removes one.
LEMMA RowRequests ==
    ASSUME Inv, NEW user \in users, Row_Request(user) \/ Put_Request(user)
    PROVE  Creates(user) \/ Rewrites(user) \/ Removes(user)
<1>1. CASE \E table \in Tables : \E row \in Asked_Row(table) : Add_Request(user, row)
  <2>0. PICK table \in Tables : \E row \in Asked_Row(table) : Add_Request(user, row)
    BY <1>1
  <2>1. PICK row \in Asked_Row(table) : Add_Request(user, row)
    BY <2>0
  <2>2. create(row)
    BY <2>1 DEF Add_Request, add_member, superuser_adds, api_post
  <2> QED BY <2>2, AskedRowFits DEF Inv, Creates
<1>2. CASE \E row \in rows : \E new \in Asked_Row(row.table) : edit_member(user, row, new)
  <2>0. PICK row \in rows : \E new \in Asked_Row(row.table) : edit_member(user, row, new)
    BY <1>2
  <2>1. PICK new \in Asked_Row(row.table) : edit_member(user, row, new)
    BY <2>0
  <2>2. row.table \in Tables
    BY DEF Inv, RowsFit, Row
  <2>3. new \in Row /\ new.who \in Subjects(new.table) /\ new.of \in Objects(new.table)
    BY <2>2, AskedRowFits DEF Inv
  <2> QED BY <2>1, <2>3 DEF edit_member, Rewrites
<1>3. CASE \E row \in rows : delete_member(user, row) \/ api_delete(user, row)
  <2>1. PICK row \in rows : delete_member(user, row) \/ api_delete(user, row)
    BY <1>3
  <2>2. remove(row)
    BY <2>1 DEF delete_member, api_delete
  <2>3. CASE delete_member(user, row)
    BY <2>2, <2>3 DEF delete_member, Removes
  <2>4. CASE api_delete(user, row)
    BY <2>2, <2>4 DEF api_delete, Removes, Owned
  <2> QED BY <2>1, <2>3, <2>4
<1>4. CASE Put_Request(user)
  <2>0. PICK row \in rows : \E new \in Asked_Row(row.table) : api_put(user, row, new)
    BY <1>4 DEF Put_Request
  <2>1. PICK new \in Asked_Row(row.table) : api_put(user, row, new)
    BY <2>0
  <2>2. row.table \in Tables
    BY DEF Inv, RowsFit, Row
  <2>3. new \in Row /\ new.who \in Subjects(new.table) /\ new.of \in Objects(new.table)
    BY <2>2, AskedRowFits DEF Inv
  <2> QED BY <1>4, <2>1, <2>3 DEF api_put, Rewrites
<1> QED BY <1>1, <1>2, <1>3, <1>4 DEF Row_Request

LEMMA TypedInit == Init => Typed
BY FS_EmptySet DEF Init, Typed

LEMMA TypedKept == Inv /\ Typed /\ [Next]_vars => Typed'
<1> SUFFICES ASSUME Inv, Typed, [Next]_vars PROVE Typed'
  OBVIOUS
<1>0. \A S \in SUBSET rows : IsFiniteSet(S) /\ \A x : IsFiniteSet(S \cup {x})
  BY FS_Subset, FS_AddElement DEF Typed
<1>1. CASE UNCHANGED vars
  BY <1>1 DEF vars, Typed
<1> SUFFICES ASSUME NEW user \in users,
                    \/ Row_Request(user) \/ Put_Request(user)
                    \/ Product_Request(user) \/ Move_Request(user) \/ Account_Request(user)
             PROVE  Typed'
  BY <1>1 DEF Next
<1>u. users \subseteq Users /\ groups \subseteq Groups /\ None \notin Roles
        /\ Granted \subseteq Roles
  BY AuthorizationAssumption DEF Inv, RowsFit
<1>2. CASE Row_Request(user) \/ Put_Request(user)
  <2>1. CASE Creates(user)
    <3>1. PICK row \in Row : create(row) /\ row.who \in Subjects(row.table)
                                /\ row.of \in Objects(row.table)
      BY <2>1 DEF Creates
    <3>2. IsFiniteSet(rows') /\ global_role' = global_role
      BY <1>0, <3>1 DEF create
    <3>3. row.table = "group_member" => row.who \in Users
      BY <1>u, <3>1 DEF Subjects, Memberships
    <3>4. auth_users' \in [Groups -> SUBSET Users]
      BY <3>1, <3>3 DEF create, Typed
    <3> QED BY <3>2, <3>4 DEF Typed
  <2>2. CASE Rewrites(user)
    <3>1. PICK row \in rows, new \in Row : rewrite(row, new)
      BY <2>2 DEF Rewrites
    <3>2. IsFiniteSet(rows')
      BY <1>0, <3>1 DEF rewrite
    <3> QED BY <3>1, <3>2 DEF rewrite, Typed
  <2>3. CASE Removes(user)
    <3>1. PICK row \in rows : remove(row)
      BY <2>3 DEF Removes
    <3>2. IsFiniteSet(rows') /\ global_role' = global_role
      BY <1>0, <3>1 DEF remove
    <3>3. auth_users' \in [Groups -> SUBSET Users]
      BY <3>1 DEF remove, Typed
    <3> QED BY <3>2, <3>3 DEF Typed
  <2> QED BY <1>2, <2>1, <2>2, <2>3, RowRequests
<1>3. CASE Product_Request(user) \/ Move_Request(user)
  <2>1. global_role' = global_role /\ auth_users' = auth_users
    BY <1>3 DEF Product_Request, Move_Request, add_product_type, delete_product_type,
                new_product, delete_product, edit_product, api_put_product, move
  <2>2. rows' \in SUBSET rows \/ \E x : rows' = rows \cup {x}
    BY <1>3 DEF Product_Request, Move_Request, add_product_type, delete_product_type,
                new_product, delete_product, edit_product, api_put_product, move
  <2>3. IsFiniteSet(rows')
    BY <1>0, <2>2
  <2> QED BY <2>1, <2>3 DEF Typed
<1>4. CASE Account_Request(user)
  <2>1. CASE \E group \in Groups, role \in Granted \cup {None} : AddGroup(user, group, role)
    <3>1. PICK group \in Groups, role \in Granted \cup {None} : AddGroup(user, group, role)
      BY <2>1
    <3>2. IsFiniteSet(rows')
      BY <1>0, <3>1 DEF AddGroup
    <3> QED BY <1>u, <3>1, <3>2 DEF AddGroup, Typed
  <2>2. CASE \E group \in groups : DeleteGroup(user, group)
    <3>1. PICK group \in Groups : DeleteGroup(user, group)
      BY <1>u, <2>2
    <3>2. IsFiniteSet(rows')
      BY <1>0, <3>1 DEF DeleteGroup
    <3> QED BY <3>1, <3>2 DEF DeleteGroup, Typed
  <2>3. CASE \E group \in groups, role \in Granted \cup {None} : EditGroup(user, group, role)
    BY <1>u, <2>3 DEF EditGroup, Typed
  <2>4. CASE \E other \in Users : add_user(user, other) \/ edit_permissions(user, other)
    BY <2>4 DEF add_user, edit_permissions, Typed
  <2>5. CASE \E other \in users, role \in Granted \cup {None} : edit_user(user, other, role)
    BY <1>u, <2>5 DEF edit_user, Typed
  <2>6. CASE \E holder \in users \cup groups : edit_permissions(user, holder)
    BY <2>6 DEF edit_permissions, Typed
  <2>7. CASE \E other \in users : delete_user(user, other) \/ api_delete_user(user, other)
    <3>1. PICK other \in Users : delete_user(user, other) \/ api_delete_user(user, other)
      BY <1>u, <2>7
    <3>2. IsFiniteSet(rows')
      BY <1>0, <3>1 DEF delete_user, api_delete_user, perform_destroy
    <3> QED BY <3>1, <3>2 DEF delete_user, api_delete_user, perform_destroy, Typed
  <2> QED
    BY <1>4, <2>1, <2>2, <2>3, <2>4, <2>5, <2>6, <2>7 DEF Account_Request
<1> QED BY <1>2, <1>3, <1>4

\* The invariant behind the results below.
LEMMA FitInvariant == Spec => [](Inv /\ Typed)
BY InvInit, InvKept, TypedInit, TypedKept, PTL DEF Spec

-----------------------------------------------------------------------------
(* The users offered for a product. *)

\* The list of users and the check read the same rows and the same global roles; the check
\* also reads the global roles of groups.
THEOREM OfferedMatchCheck == Spec => []OfferedAreAllowed
<1>1. Inv /\ Typed => OfferedAreAllowed
  <2> SUFFICES ASSUME Inv, Typed, NEW o \in Objects("product_member"),
                      NEW p \in Asked \ ProductTypePermissions, NEW u \in users
               PROVE  LET offered == get_authorized_users_for_product_and_product_type(o, p) IN
                      /\ u \in offered => user_has_permission(u, o, p)
                      /\ u \notin offered /\ user_has_permission(u, o, p) =>
                           \E g \in get_groups(u) : role_has_global_permission(global_role[g], p)
    BY DEF OfferedAreAllowed, get_authorized_users_for_product_and_product_type
  <2> DEFINE offered == get_authorized_users_for_product_and_product_type(o, p)
             roles == get_roles_for_permission(p)
             by_group_role == \E g \in get_groups(u) : role_has_global_permission(global_role[g], p)
             joined == \/ roles_held("product_member", u, o) \cap roles /= {}
                       \/ roles_held("product_type_member", u, prod_type[o]) \cap roles /= {}
                       \/ \E g \in get_groups(u) :
                             roles_held("product_group", g, o) \cap roles /= {}
                       \/ \E g \in get_groups(u) :
                             roles_held("product_type_group", g, prod_type[o]) \cap roles /= {}
  <2>1. p /= "Product_Type_Add"
    BY DEF ProductTypePermissions
  <2>2. global_role[u] \in Roles \cup {None} /\ None \notin Roles
    BY AuthorizationAssumption DEF Typed, Holders, Inv, RowsFit
  <2>3. role_has_global_permission(global_role[u], p) <=> global_role[u] \in roles
    BY <2>1, <2>2 DEF role_has_global_permission, GlobalOnly, role_has_permission,
                      get_roles_for_permission
  <2>4. user_has_global_permission(u, p) <=>
           u \in Superusers \/ global_role[u] \in roles \/ by_group_role
    BY <2>1, <2>3 DEF user_has_global_permission
  <2>5. u \in offered <=> joined \/ global_role[u] \in roles \/ u \in Superusers
    BY DEF get_authorized_users_for_product_and_product_type
  <2>6. o \in Products /\ o \notin product_types /\ o \notin groups
    BY ObjectsOf, AuthorizationAssumption DEF Inv, RowsFit
  <2>7. user_has_permission(u, o, p) <=>
           \/ user_has_global_permission(u, p)
           \/ by_role(u, p, "product_type_member", "product_type_group", prod_type[o])
           \/ by_role(u, p, "product_member", "product_group", o)
    BY <2>6 DEF user_has_permission, user_has_permission_on_product, user_has_permission_on_type
  <2>8. user_has_permission(u, o, p) <=> user_has_global_permission(u, p) \/ joined
    BY <2>7, CheckIsJoin
  <2> QED BY <2>4, <2>5, <2>8
<1> QED BY <1>1, FitInvariant, PTL

-----------------------------------------------------------------------------
(* Owners. *)

\* What OwnerStays says of one table and one object in a step.
Keeps(table, of) ==
    owners(table, of) /= {} /\ of \in Objects(table)' /\ owners(table, of)' = {} =>
       \/ users' /= users
       \/ Cardinality(rows') = Cardinality(rows)
              /\ \A r \in owners(table, of) : held(table, r.who, of)' = {}
       \/ table = "group_member" /\ \E user \in users, r \in rows : api_delete(user, r)

LEMMA KeepsMoreRows ==
    ASSUME NEW table, NEW of, rows \subseteq rows'
    PROVE  Keeps(table, of)
BY DEF Keeps, owners

\* A page that takes a row leaves another owner; the DELETE of a group's row need not.
LEMMA RemovesKeepsOwner ==
    ASSUME NEW user \in users, Removes(user), NEW table \in Owned, NEW of
    PROVE  Keeps(table, of)
<1> SUFFICES ASSUME owners(table, of) /= {}, owners(table, of)' = {}
             PROVE  table = "group_member" /\ \E u \in users, r \in rows : api_delete(u, r)
  BY DEF Keeps
<1>1. PICK row \in rows : /\ remove(row)
                          /\ \/ row.table \in Owned => not_last_owner(row)
                             \/ row.table = "group_member" /\ api_delete(user, row)
  BY DEF Removes
<1>2. owners(table, of)' = owners(table, of) \ {row}
  BY <1>1 DEF remove, owners
<1>3. owners(table, of) = {row} /\ row.table = table /\ row.of = of /\ row.role = "Owner"
  BY <1>2 DEF owners
<1>4. ~not_last_owner(row)
  <2>1. Cardinality(owners(row.table, row.of)) = 1
    BY <1>3, FS_Singleton
  <2> QED BY <1>3, <2>1 DEF not_last_owner
<1> QED BY <1>1, <1>3, <1>4

\* A page that changes a row leaves another owner; a PUT may take the row elsewhere, where its
\* holder had none, and then nothing of him is left where it was.
LEMMA RewritesKeepsOwner ==
    ASSUME Inv, Typed, NEW user \in users, Rewrites(user), NEW table \in Owned, NEW of
    PROVE  Keeps(table, of)
<1> SUFFICES ASSUME owners(table, of) /= {}, owners(table, of)' = {}
             PROVE  /\ Cardinality(rows') = Cardinality(rows)
                    /\ \A r \in owners(table, of) : held(table, r.who, of)' = {}
  BY DEF Keeps
<1>1. PICK row \in rows, new \in Row :
        /\ rewrite(row, new) /\ new.table = row.table /\ keeps_owner(row, new)
        /\ <<new.who, new.of>> /= <<row.who, row.of>> => held(row.table, new.who, new.of) = {}
  BY DEF Rewrites
<1>2. rows' = (rows \ {row}) \cup {new}
  BY <1>1 DEF rewrite
<1>3. owners(table, of) \ {row} = {} /\ ~(new.table = table /\ new.of = of /\ new.role = "Owner")
  BY <1>2 DEF owners
<1>4. owners(table, of) = {row} /\ row.table = table /\ row.of = of /\ row.role = "Owner"
  BY <1>3 DEF owners
<1>5. new.of /= of
  <2> SUFFICES ASSUME new.of = of PROVE FALSE
    OBVIOUS
  <2>1. new.role /= "Owner" /\ new.table = table
    BY <1>1, <1>3, <1>4
  <2> QED BY <1>1, <1>3, <2>1 DEF keeps_owner
<1>6. new \notin rows
  BY <1>1, <1>4, <1>5 DEF held
<1>7. Cardinality(rows') = Cardinality(rows)
  <2>1. IsFiniteSet(rows) /\ Cardinality(rows) \in Nat
    BY FS_CardinalityType DEF Typed
  <2>2. IsFiniteSet(rows \ {row}) /\ Cardinality(rows \ {row}) = Cardinality(rows) - 1
    BY <2>1, FS_RemoveElement
  <2>3. Cardinality(rows') = Cardinality(rows) - 1 + 1
    BY <1>2, <1>6, <2>2, FS_AddElement
  <2> QED BY <2>1, <2>3
<1>8. held(table, row.who, of)' = {}
  BY <1>2, <1>4, <1>5 DEF held, Inv, OneRow
<1> QED BY <1>4, <1>7, <1>8

\* A deletion takes the rows of what is deleted, and of no other type or group.
LEMMA DeletesKeepOwner ==
    ASSUME Inv, NEW user \in users, NEW table \in Owned, NEW of \in Objects(table),
           \/ \E type \in product_types : delete_product_type(user, type)
           \/ \E product \in Objects("product_member") : delete_product(user, product)
           \/ \E group \in groups : DeleteGroup(user, group)
    PROVE  Keeps(table, of)
<1>0. table \in {"product_type_member", "group_member"} /\ table \in Memberships
  BY DEF Owned, Memberships
<1>1. of \in ProductTypes \cup Groups /\ of \notin Products
  BY <1>0, ObjectsOf, AuthorizationAssumption DEF Inv, RowsFit
<1> SUFFICES ASSUME of \in Objects(table)'
             PROVE  owners(table, of) \subseteq owners(table, of)'
  BY DEF Keeps
<1>2. \A r \in owners(table, of) : r \in rows /\ r.table = table /\ r.of = of /\ r.who \in Users
  BY <1>0, ObjectsOf DEF owners, Inv, RowsFit
<1>3. CASE \E type \in product_types : delete_product_type(user, type)
  <2>1. PICK type \in ProductTypes : delete_product_type(user, type)
    BY <1>3 DEF Inv, RowsFit
  <2>2. /\ product_types' = product_types \ {type} /\ groups' = groups
        /\ rows' = {r \in rows : r.of \notin {type} \cup {p \in Products : prod_type[p] = type}}
    BY <2>1 DEF delete_product_type
  <2>3. of /= type
    <3>1. type \notin groups
      BY <2>1, AuthorizationAssumption DEF Inv, RowsFit
    <3> QED BY <1>0, <2>2, <3>1 DEF Objects
  <2> QED BY <1>1, <1>2, <2>2, <2>3 DEF owners
<1>4. CASE \E product \in Objects("product_member") : delete_product(user, product)
  <2>1. PICK product \in Products : delete_product(user, product)
    BY <1>4, ObjectsOf
  <2> QED BY <1>1, <1>2, <2>1 DEF owners, delete_product
<1>5. CASE \E group \in groups : DeleteGroup(user, group)
  <2>1. PICK group \in Groups : DeleteGroup(user, group)
    BY <1>5 DEF Inv, RowsFit
  <2>2. /\ groups' = groups \ {group} /\ product_types' = product_types
        /\ rows' = {r \in rows : r.of /= group /\ r.who /= group}
    BY <2>1 DEF DeleteGroup
  <2>3. of /= group
    <3>1. group \notin product_types
      BY <2>1, AuthorizationAssumption DEF Inv, RowsFit
    <3> QED BY <1>0, <2>2, <3>1 DEF Objects
  <2>4. group \notin Users
    BY <2>1, AuthorizationAssumption
  <2> QED BY <1>2, <2>2, <2>3, <2>4 DEF owners
<1> QED BY <1>3, <1>4, <1>5

\* An owner's account, a PUT that moves his row and the DELETE of a group's row are the only
\* ways a product type or a group loses its last owner.
THEOREM OwnersStay == Spec => OwnerStays
<1>1. Inv /\ Typed /\ [Next]_vars =>
         [\A table \in Owned : \A of \in Objects(table) : Keeps(table, of)]_vars
  <2> SUFFICES ASSUME Inv, Typed, NEW user \in users,
                      \/ Row_Request(user) \/ Put_Request(user)
                      \/ Product_Request(user) \/ Move_Request(user) \/ Account_Request(user),
                      NEW table \in Owned, NEW of \in Objects(table)
               PROVE  Keeps(table, of)
    BY DEF Next
  <2>1. CASE Row_Request(user) \/ Put_Request(user)
    <3>1. CASE Creates(user)
      BY <3>1, KeepsMoreRows DEF Creates, create
    <3> QED BY <2>1, <3>1, RowRequests, RewritesKeepsOwner, RemovesKeepsOwner
  <2>2. CASE Product_Request(user) \/ Move_Request(user)
    <3>1. CASE \E type \in ProductTypes : add_product_type(user, type)
      BY <3>1, KeepsMoreRows DEF add_product_type
    <3>2. CASE \E product \in Products, type \in product_types :
                  new_product(user, product, type) \/ move(product, type)
      BY <3>2, KeepsMoreRows DEF new_product, move
    <3> QED
      BY <2>2, <3>1, <3>2, DeletesKeepOwner, ObjectsOf
      DEF Product_Request, Move_Request, edit_product, api_put_product
  <2>3. CASE Account_Request(user)
    <3>1. CASE \E group \in Groups, role \in Granted \cup {None} : AddGroup(user, group, role)
      BY <3>1, KeepsMoreRows DEF AddGroup
    <3>2. CASE \E other \in users : delete_user(user, other) \/ api_delete_user(user, other)
      BY <3>2 DEF delete_user, api_delete_user, perform_destroy, Keeps
    <3>3. CASE UNCHANGED rows
      BY <3>3, KeepsMoreRows
    <3> QED
      BY <2>3, <3>1, <3>2, <3>3, DeletesKeepOwner
      DEF Account_Request, EditGroup, edit_user, edit_permissions, add_user
  <2> QED BY <2>1, <2>2, <2>3
<1>2. [\A table \in Owned : \A of \in Objects(table) : Keeps(table, of)]_vars =>
         [\A table \in Owned : \A of \in Objects(table) :
            owners(table, of) /= {} /\ of \in Objects(table)' /\ owners(table, of)' = {} =>
             \/ users' /= users
             \/ Cardinality(rows') = Cardinality(rows)
                    /\ \A r \in owners(table, of) : held(table, r.who, of)' = {}
             \/ table = "group_member" /\ \E user \in users, r \in rows : api_delete(user, r)]_vars
  BY DEF Keeps
<1> QED BY <1>1, <1>2, FitInvariant, PTL DEF Spec, OwnerStays

-----------------------------------------------------------------------------
(* Members of groups. *)

\* Whether a user is a member is read from the rows of his groups.
LEMMA MembershipOf ==
    ASSUME Inv, NEW user, NEW g \in groups
    PROVE  g \in get_groups(user) <=>
              \E r \in rows : r.table = "group_member" /\ r.who = user /\ r.of = g
BY DEF get_groups, held, Inv, RowsFit

LEMMA MembershipAfter ==
    ASSUME Inv', NEW user, NEW g \in groups'
    PROVE  (g \in get_groups(user))' <=>
              \E r \in rows' : r.table = "group_member" /\ r.who = user /\ r.of = g
BY DEF get_groups, held, Inv, RowsFit

\* The members of a group are read from its rows.
Members(g) == {u \in users : \E r \in rows : r.table = "group_member" /\ r.who = u /\ r.of = g}

LEMMA MirroredIs ==
    ASSUME Inv
    PROVE  Mirrored <=> \A g \in groups : auth_users[g] = Members(g)
<1>1. \A g \in groups : {u \in users : g \in get_groups(u)} = Members(g)
  BY MembershipOf DEF Members
<1> QED BY <1>1 DEF Mirrored

LEMMA MirroredAfter ==
    ASSUME Inv'
    PROVE  Mirrored' <=> \A g \in groups' : auth_users'[g] = Members(g)'
<1>1. \A g \in groups' : {u \in users' : (g \in get_groups(u))'} = Members(g)'
  BY MembershipAfter DEF Members
<1> QED BY <1>1 DEF Mirrored

\* The auth_group follows the rows of the group in a request of rows other than a PUT.
LEMMA RowsKeepMirror ==
    ASSUME Inv, Inv', Typed, Mirrored, NEW user \in users,
           Creates(user) \/ Rewrites(user) \/ Removes(user)
    PROVE  Mirrored' \/ Put_Request(user)
<1> SUFFICES ASSUME ~Put_Request(user)
             PROVE  \A g \in groups' : auth_users'[g] = Members(g)'
  BY MirroredAfter
<1>0. /\ \A g \in groups : auth_users[g] = Members(g)
      /\ groups \subseteq Groups /\ auth_users \in [Groups -> SUBSET Users]
  BY MirroredIs DEF Inv, RowsFit, Typed
<1>1. CASE Creates(user)
  <2>1. PICK row \in Row : create(row) /\ row.who \in Subjects(row.table)
                              /\ row.of \in Objects(row.table)
    BY <1>1 DEF Creates
  <2>2. /\ groups' = groups /\ users' = users /\ rows' = rows \cup {row}
        /\ auth_users' = IF row.table = "group_member"
                         THEN [auth_users EXCEPT ![row.of] = @ \cup {row.who}] ELSE auth_users
    BY <2>1 DEF create
  <2>3. CASE row.table = "group_member"
    <3>1. row.who \in users /\ row.of \in groups
      BY <2>1, <2>3, ObjectsOf
    <3>2. \A g \in groups : Members(g)' = IF g = row.of THEN Members(g) \cup {row.who}
                                          ELSE Members(g)
      BY <2>2, <2>3, <3>1 DEF Members
    <3> QED BY <1>0, <2>2, <2>3, <3>1, <3>2
  <2>4. CASE row.table /= "group_member"
    <3>1. \A g \in groups : Members(g)' = Members(g)
      BY <2>2, <2>4 DEF Members
    <3> QED BY <1>0, <2>2, <2>4, <3>1
  <2> QED BY <2>3, <2>4
<1>2. CASE Rewrites(user)
  <2>1. PICK row \in rows, new \in Row :
          rewrite(row, new) /\ new.table = row.table /\ new.who = row.who /\ new.of = row.of
    BY <1>2 DEF Rewrites
  <2>2. \A g \in groups : Members(g)' = Members(g)
    BY <2>1 DEF Members, rewrite
  <2> QED BY <1>0, <2>1, <2>2 DEF rewrite
<1>3. CASE Removes(user)
  <2>1. PICK row \in rows : remove(row)
    BY <1>3 DEF Removes
  <2>2. /\ groups' = groups /\ users' = users /\ rows' = rows \ {row}
        /\ auth_users' = IF row.table = "group_member"
                         THEN [auth_users EXCEPT ![row.of] = @ \ {row.who}] ELSE auth_users
    BY <2>1 DEF remove
  <2>3. CASE row.table = "group_member"
    <3>1. row.of \in groups
      BY <2>3, ObjectsOf DEF Inv, RowsFit
    <3>2. \A g \in groups : Members(g)' = IF g = row.of THEN Members(g) \ {row.who}
                                          ELSE Members(g)
      BY <2>2, <2>3 DEF Members, Inv, OneRow
    <3> QED BY <1>0, <2>2, <2>3, <3>1, <3>2
  <2>4. CASE row.table /= "group_member"
    <3>1. \A g \in groups : Members(g)' = Members(g)
      BY <2>2, <2>4 DEF Members
    <3> QED BY <1>0, <2>2, <2>4, <3>1
  <2> QED BY <2>3, <2>4
<1> QED BY <1>1, <1>2, <1>3

\* No other request writes a row of a group that stays, except of who is deleted.
LEMMA ProductsKeepMirror ==
    ASSUME Inv, Inv', Mirrored, NEW user \in users, Product_Request(user) \/ Move_Request(user)
    PROVE  Mirrored'
<1>0. \A g \in groups : auth_users[g] = Members(g)
  BY MirroredIs
<1>1. groups' = groups /\ users' = users /\ auth_users' = auth_users
  BY DEF Product_Request, Move_Request, add_product_type, delete_product_type,
         new_product, delete_product, edit_product, api_put_product, move
<1>2. \A r : r.table = "group_member" /\ r.of \in groups => (r \in rows' <=> r \in rows)
  <2>0. groups \subseteq Groups /\ product_types \subseteq ProductTypes
          /\ Groups \cap (ProductTypes \cup Products) = {}
    BY AuthorizationAssumption DEF Inv, RowsFit
  <2>1. CASE \E type \in ProductTypes : add_product_type(user, type)
    BY <2>1 DEF add_product_type
  <2>2. CASE \E type \in product_types : delete_product_type(user, type)
    BY <2>0, <2>2 DEF delete_product_type
  <2>3. CASE \E product \in Objects("product_member") : delete_product(user, product)
    BY <2>0, <2>3, ObjectsOf DEF delete_product
  <2>4. CASE UNCHANGED rows
    BY <2>4
  <2> QED
    BY <2>1, <2>2, <2>3, <2>4
    DEF Product_Request, Move_Request, new_product, edit_product, api_put_product, move
<1>3. \A g \in groups : Members(g)' = Members(g)
  BY <1>1, <1>2 DEF Members
<1> QED BY <1>0, <1>1, <1>3, MirroredAfter

LEMMA AccountsKeepMirror ==
    ASSUME Inv, Inv', Typed, Mirrored, NEW user \in users, Account_Request(user)
    PROVE  Mirrored'
<1> SUFFICES \A g \in groups' : auth_users'[g] = Members(g)'
  BY MirroredAfter
<1>0. /\ \A g \in groups : auth_users[g] = Members(g)
      /\ groups \subseteq Groups /\ auth_users \in [Groups -> SUBSET Users]
      /\ users \subseteq Users /\ Users \cap Groups = {}
  BY MirroredIs, AuthorizationAssumption DEF Inv, RowsFit, Typed
<1>f. \A r \in rows : r.table = "group_member" => r.who \in users /\ r.of \in groups
  BY ObjectsOf DEF Inv, RowsFit
<1>1. CASE \E group \in Groups, role \in Granted \cup {None} : AddGroup(user, group, role)
  <2>1. PICK group \in Groups, role \in Granted \cup {None} : AddGroup(user, group, role)
    BY <1>1
  <2> DEFINE row == [table |-> "group_member", who |-> user, of |-> group, role |-> "Owner"]
  <2>2. /\ group \notin groups /\ groups' = groups \cup {group} /\ users' = users
        /\ rows' = rows \cup {row} /\ auth_users' = [auth_users EXCEPT ![group] = {user}]
    BY <2>1 DEF AddGroup
  <2>3. \A g \in groups : Members(g)' = Members(g)
    BY <2>2 DEF Members
  <2>4. Members(group)' = {user}
    <3>1. \A r \in rows' : r.table = "group_member" /\ r.of = group => r.who = user
      BY <1>f, <2>2
    <3>2. row \in rows' /\ row.table = "group_member" /\ row.who = user /\ row.of = group
      BY <2>2
    <3> QED BY <2>2, <3>1, <3>2 DEF Members
  <2> QED BY <1>0, <2>2, <2>3, <2>4
<1>2. CASE \E group \in groups : DeleteGroup(user, group)
  <2>1. PICK group \in groups : DeleteGroup(user, group)
    BY <1>2
  <2>2. /\ groups' = groups \ {group} /\ users' = users
        /\ rows' = {r \in rows : r.of /= group /\ r.who /= group}
        /\ auth_users' = [auth_users EXCEPT ![group] = {}]
    BY <2>1 DEF DeleteGroup
  <2>3. \A g \in groups \ {group} : Members(g)' = Members(g)
    BY <1>0, <1>f, <2>1, <2>2 DEF Members
  <2> QED BY <1>0, <2>2, <2>3
<1>3. CASE \E other \in users : delete_user(user, other) \/ api_delete_user(user, other)
  <2>1. PICK other \in users : delete_user(user, other) \/ api_delete_user(user, other)
    BY <1>3
  <2>2. /\ users' = users \ {other} /\ rows' = {r \in rows : r.who /= other} /\ groups' = groups
        /\ auth_users' = [g \in Groups |-> auth_users[g] \ {other}]
    BY <2>1 DEF delete_user, api_delete_user, perform_destroy
  <2>3. \A g \in groups : Members(g)' = Members(g) \ {other}
    BY <2>2 DEF Members
  <2> QED BY <1>0, <2>2, <2>3
<1>4. CASE \E other \in Users : add_user(user, other)
  <2>1. PICK other \in Users \ users : add_user(user, other)
    BY <1>4 DEF add_user
  <2>2. /\ users' = users \cup {other} /\ rows' = rows /\ groups' = groups
        /\ auth_users' = auth_users
    BY <2>1 DEF add_user
  <2>3. \A g \in groups : Members(g)' = Members(g)
    BY <1>f, <2>1, <2>2 DEF Members
  <2> QED BY <1>0, <2>2, <2>3
<1>5. CASE UNCHANGED <<users, groups, rows, auth_users>>
  BY <1>0, <1>5 DEF Members
<1> QED
  BY <1>1, <1>2, <1>3, <1>4, <1>5 DEF Account_Request, EditGroup, edit_user, edit_permissions

\* The users of each auth_group stay the members of its group, unless a PUT moves a row.
THEOREM MirrorIsKept == Spec => MirrorKept
<1>1. Inv /\ Inv' /\ Typed /\ [Next]_vars =>
         [Mirrored => Mirrored' \/ \E user \in users : Put_Request(user)]_vars
  <2> SUFFICES ASSUME Inv, Inv', Typed, Mirrored, NEW user \in users,
                      \/ Row_Request(user) \/ Put_Request(user)
                      \/ Product_Request(user) \/ Move_Request(user) \/ Account_Request(user)
               PROVE  Mirrored' \/ Put_Request(user)
    BY DEF Next
  <2> QED BY RowRequests, RowsKeepMirror, ProductsKeepMirror, AccountsKeepMirror
<1> QED BY <1>1, FitInvariant, PTL DEF Spec, MirrorKept

-----------------------------------------------------------------------------
(* What a manager can give. *)

\* Who may manage the rows of some table is a maintainer or an owner, and only an owner may
\* make owners.
LEMMA ManagersHaveRoles ==
    ASSUME NEW table \in Tables, NEW role \in Roles
    PROVE  /\ role_has_permission(role, adds[table]) \/ role_has_permission(role, edits[table])
                 => role \in {"Maintainer", "Owner"}
           /\ role_has_permission(role, adds_owner[table]) => role = "Owner"
           /\ "Product_Type_Add" \notin {adds[table], edits[table], adds_owner[table]}
<1>1. /\ adds[table] \notin ReaderPermissions \cup ImporterPermissions \cup WriterPermissions
      /\ adds[table] /= "Product_Type_Add"
  BY DEF Tables, Memberships, adds, ReaderPermissions, ImporterPermissions, WriterPermissions,
         SeenByAll
<1>2. /\ edits[table] \notin ReaderPermissions \cup ImporterPermissions \cup WriterPermissions
      /\ edits[table] /= "Product_Type_Add"
  BY <1>1 DEF Tables, Memberships, edits, ReaderPermissions, ImporterPermissions,
              WriterPermissions, SeenByAll
<1>3. /\ adds_owner[table] \notin ReaderPermissions \cup ImporterPermissions
                                    \cup WriterPermissions \cup MaintainerPermissions
      /\ adds_owner[table] /= "Product_Type_Add"
  BY DEF Tables, Memberships, adds_owner, ReaderPermissions, ImporterPermissions,
         WriterPermissions, MaintainerPermissions, SeenByAll
<1> QED
  BY <1>1, <1>2, <1>3 DEF role_has_permission, get_roles_with_permissions, Roles

\* A maintainer has what every role but an owner has, an owner has everything.
LEMMA RolesAreNested ==
    ASSUME NEW role \in Roles, NEW p, role_has_permission(role, p), None \notin Roles
    PROVE  /\ role_has_permission("Owner", p)
           /\ role /= "Owner" => role_has_permission("Maintainer", p)
<1>1. /\ ReaderPermissions \subseteq MaintainerPermissions
      /\ ImporterPermissions \subseteq MaintainerPermissions
      /\ WriterPermissions \subseteq MaintainerPermissions
      /\ MaintainerPermissions \subseteq OwnerPermissions
  BY DEF WriterPermissions, MaintainerPermissions, OwnerPermissions
<1> QED BY <1>1 DEF role_has_permission, get_roles_with_permissions, Roles

\* A permission that whoever may write a row needs, whichever role he then gives.
Gives(q, role) ==
    /\ q /= "Product_Type_Add"
    /\ \A r \in Roles : role_has_permission(r, q) =>
          \A p : role_has_permission(role, p) => role_has_permission(r, p)

LEMMA ManagersGive ==
    ASSUME NEW table \in Tables, NEW role \in Roles, None \notin Roles
    PROVE  /\ role /= "Owner" => Gives(adds[table], role) /\ Gives(edits[table], role)
           /\ Gives(adds_owner[table], role)
BY ManagersHaveRoles, RolesAreNested DEF Gives

\* The check, read from a set of rows.
HasRow(R, table, who, of, p) ==
    \E r \in R : r.table = table /\ r.who = who /\ r.of = of /\ role_has_permission(r.role, p)
InGroup(R, user, g) == \E r \in R : r.table = "group_member" /\ r.who = user /\ r.of = g
Globally(R, user, p) ==
    \/ user \in Superusers
    \/ role_has_global_permission(global_role[user], p)
    \/ \E g \in Groups : InGroup(R, user, g) /\ role_has_global_permission(global_role[g], p)
ByRows(R, user, p, memberTable, groupTable, of) ==
    \/ HasRow(R, memberTable, user, of, p)
    \/ \E g \in Groups : InGroup(R, user, g) /\ HasRow(R, groupTable, g, of, p)
OnType(R, user, of, p) ==
    Globally(R, user, p) \/ ByRows(R, user, p, "product_type_member", "product_type_group", of)
OnProduct(R, user, of, p) ==
    \/ OnType(R, user, prod_type[of], p)
    \/ ByRows(R, user, p, "product_member", "product_group", of)
OnGroup(R, user, of, p) == user \in Superusers \/ HasRow(R, "group_member", user, of, p)
Allows(R, user, of, p) ==
    \/ of \in product_types /\ OnType(R, user, of, p)
    \/ of \in Objects("product_member") /\ OnProduct(R, user, of, p)
    \/ of \in groups /\ OnGroup(R, user, of, p)

CheckIsRows ==
    \A user, of, p : p /= "Product_Type_Add" =>
        (user_has_permission(user, of, p) <=> Allows(rows, user, of, p))

LEMMA CheckReadsRows == Inv => CheckIsRows
<1> SUFFICES ASSUME Inv, NEW user, NEW of, NEW p, p /= "Product_Type_Add"
             PROVE  user_has_permission(user, of, p) <=> Allows(rows, user, of, p)
  BY DEF CheckIsRows
<1>1. \A table, who, o : role_has_permission(member(table, who, o), p)
                            <=> HasRow(rows, table, who, o, p)
  <2> SUFFICES ASSUME NEW table, NEW who, NEW o
               PROVE  role_has_permission(member(table, who, o), p)
                         <=> HasRow(rows, table, who, o, p)
    OBVIOUS
  <2>1. role_has_permission(member(table, who, o), p)
           <=> \E r \in held(table, who, o) : role_has_permission(r.role, p)
    BY LookupIsJoin, GroupRowsAreJoined
  <2> QED BY <2>1 DEF held, HasRow
<1>2. \A table, who, o : (\E r \in held(table, who, o) : role_has_permission(r.role, p))
                            <=> HasRow(rows, table, who, o, p)
  BY DEF held, HasRow
<1>3. \A g \in Groups : g \in get_groups(user) <=> InGroup(rows, user, g)
  BY DEF get_groups, held, InGroup
<1>4. get_groups(user) \subseteq Groups
  BY DEF get_groups
<1>5. user_has_global_permission(user, p) <=> Globally(rows, user, p)
  BY <1>3, <1>4 DEF user_has_global_permission, Globally
<1>6. \A mt, gt, o : by_role(user, p, mt, gt, o) <=> ByRows(rows, user, p, mt, gt, o)
  BY <1>1, <1>2, <1>3, <1>4 DEF by_role, ByRows
<1>7. \A o : user_has_permission_on_type(user, o, p) <=> OnType(rows, user, o, p)
  BY <1>5, <1>6 DEF user_has_permission_on_type, OnType
<1>8. \A o : user_has_permission_on_product(user, o, p) <=> OnProduct(rows, user, o, p)
  BY <1>5, <1>6, <1>7 DEF user_has_permission_on_product, OnProduct, OnType
<1>9. \A o : user_has_permission_on_group(user, o, p) <=> OnGroup(rows, user, o, p)
  BY <1>1 DEF user_has_permission_on_group, OnGroup
<1> QED BY <1>7, <1>8, <1>9 DEF user_has_permission, Allows

\* Who has the permission to write a row has all that the row's role has, there.
LEMMA GiverHas ==
    ASSUME Inv, Typed, NEW user \in users, NEW of, NEW q, NEW role, Gives(q, role),
           Allows(rows, user, of, q), NEW p, role_has_permission(role, p),
           p /= "Product_Type_Add"
    PROVE  Allows(rows, user, of, p)
<1>1. \A r \in Roles : role_has_permission(r, q) => role_has_permission(r, p)
  BY DEF Gives
<1>2. \A r \in rows : r.role \in Roles
  BY DEF Inv, RowsFit, Row
<1>3. \A table, who, o : HasRow(rows, table, who, o, q) => HasRow(rows, table, who, o, p)
  BY <1>1, <1>2 DEF HasRow
<1>4. \A h \in Holders : role_has_global_permission(global_role[h], q)
                            => role_has_global_permission(global_role[h], p)
  BY <1>1 DEF Typed, role_has_global_permission, role_has_permission, GlobalOnly, Gives
<1>5. user \in Holders /\ Groups \subseteq Holders
  BY DEF Holders, Inv, RowsFit
<1>6. Globally(rows, user, q) => Globally(rows, user, p)
  BY <1>4, <1>5 DEF Globally
<1>7. \A mt, gt, o : ByRows(rows, user, q, mt, gt, o) => ByRows(rows, user, p, mt, gt, o)
  BY <1>3 DEF ByRows
<1> QED BY <1>3, <1>6, <1>7 DEF Allows, OnType, OnProduct, OnGroup

\* A row brings nobody a permission that its writer lacks: what it adds comes from its role, or
\* from the group whose member it makes.
LEMMA NoGain ==
    ASSUME Inv, Typed, NEW user \in users \ Superusers, NEW new \in Row, NEW R,
           R \subseteq rows \cup {new},
           NEW q, Gives(q, new.role), Allows(rows, user, new.of, q),
           new.of \in Objects(new.table),
           NEW u, u \notin Superusers, NEW of, NEW p, p /= "Product_Type_Add",
           Allows(R, u, of, p), ~Allows(rows, u, of, p)
    PROVE  Allows(rows, user, of, p)
<1>0. /\ product_types \subseteq ProductTypes /\ groups \subseteq Groups
      /\ \A o \in Objects("product_member") : o \in Products /\ prod_type[o] \in product_types
      /\ \A t \in product_types : t \notin groups /\ t \notin Objects("product_member")
      /\ \A g \in groups : g \notin Objects("product_member")
  BY ObjectsOf, AuthorizationAssumption DEF Inv, RowsFit
<1>1. role_has_permission(new.role, p) => Allows(rows, user, new.of, p)
  BY GiverHas
<1>2. new.table = "group_member" => new.of \in groups /\ InGroup(rows, user, new.of)
  <2> SUFFICES ASSUME new.table = "group_member" PROVE new.of \in groups /\ InGroup(rows, user, new.of)
    OBVIOUS
  <2>1. new.of \in groups
    BY ObjectsOf
  <2>2. OnGroup(rows, user, new.of, q)
    BY <1>0, <2>1 DEF Allows
  <2> QED BY <2>1, <2>2 DEF OnGroup, HasRow, InGroup
<1>3. \A table, who, o : HasRow(R, table, who, o, p) =>
         \/ HasRow(rows, table, who, o, p)
         \/ new.table = table /\ new.of = o /\ role_has_permission(new.role, p)
  BY DEF HasRow
<1>4. \A g \in Groups : InGroup(R, u, g) => InGroup(rows, u, g) \/ InGroup(rows, user, g)
  BY <1>2 DEF InGroup
<1>5. Globally(R, u, p) => Globally(rows, u, p) \/ \A o : OnType(rows, user, o, p)
  BY <1>4 DEF Globally, OnType
<1>5a. Globally(rows, user, p) => \A o : OnType(rows, user, o, p)
  BY DEF OnType
<1>6. ASSUME NEW mt, NEW gt, NEW o, ByRows(R, u, p, mt, gt, o)
      PROVE  \/ ByRows(rows, u, p, mt, gt, o) \/ ByRows(rows, user, p, mt, gt, o)
             \/ new.of = o /\ new.table \in {mt, gt} /\ role_has_permission(new.role, p)
  BY <1>3, <1>4, <1>6 DEF ByRows
<1>7. ASSUME NEW t \in product_types, OnType(R, u, t, p)
      PROVE  OnType(rows, u, t, p) \/ OnType(rows, user, t, p)
  <2>1. new.of = t /\ role_has_permission(new.role, p) => OnType(rows, user, t, p)
    BY <1>0, <1>1 DEF Allows
  <2> QED BY <1>5, <1>6, <1>7, <2>1 DEF OnType
<1>8. CASE of \in product_types /\ OnType(R, u, of, p)
  BY <1>7, <1>8 DEF Allows
<1>9. CASE of \in Objects("product_member") /\ OnProduct(R, u, of, p)
  <2>1. prod_type[of] \in product_types
    BY <1>0, <1>9
  <2>2. CASE OnType(R, u, prod_type[of], p)
    BY <1>7, <1>9, <2>1, <2>2 DEF Allows, OnProduct
  <2>3. CASE ByRows(R, u, p, "product_member", "product_group", of)
    BY <1>1, <1>6, <1>9, <2>3 DEF Allows, OnProduct
  <2> QED BY <1>9, <2>2, <2>3 DEF OnProduct
<1>10. CASE of \in groups /\ OnGroup(R, u, of, p)
  BY <1>1, <1>3, <1>10 DEF Allows, OnGroup
<1> QED BY <1>8, <1>9, <1>10 DEF Allows

\* Every page and call that writes a row asks for a permission that covers the row's role.
LEMMA WritersAreGivers ==
    ASSUME Inv, NEW user \in users \ Superusers, NEW new \in Row,
           \/ Add_Request(user, new)
           \/ \E row \in rows : edit_member(user, row, new) \/ api_put(user, row, new)
    PROVE  \E q : Gives(q, new.role) /\ user_has_permission(user, new.of, q)
<1>1. new.table \in Tables /\ new.role \in Roles /\ None \notin Roles
  BY AuthorizationAssumption DEF Row
<1>2. may_make(user, new)
  BY DEF Add_Request, add_member, superuser_adds, api_post, edit_member, api_put
<1>3. \/ user_has_permission(user, new.of, adds[new.table])
      \/ user_has_permission(user, new.of, edits[new.table])
  BY DEF Add_Request, add_member, superuser_adds, api_post, edit_member, api_put
<1> QED BY <1>1, <1>2, <1>3, ManagersGive DEF may_make

\* Nobody gives, by a role or by a membership, what he does not have.
THEOREM NothingIsGiven == Spec => NoGift
<1> DEFINE Gained(user) ==
             \E of \in product_types \cup Objects("product_member") \cup groups :
                 \E p \in asked(of) \ {"Product_Type_Add"} :
                    /\ ~user_has_permission(user, of, p)
                    /\ \E u \in users \ Superusers :
                           ~user_has_permission(u, of, p) /\ user_has_permission(u, of, p)'
           Written(user, new) ==
             \/ Add_Request(user, new)
             \/ \E row \in rows : edit_member(user, row, new) \/ api_put(user, row, new)
<1>1. Inv' => CheckIsRows'
  BY CheckReadsRows, PTL
<1>2. ASSUME Inv, Inv', Typed, NEW new \in rows' \ rows, NEW user \in users \ Superusers,
             Gained(user), Written(user, new)
      PROVE  FALSE
  <2>1. PICK of, p, u : /\ p /= "Product_Type_Add" /\ u \notin Superusers
                        /\ ~user_has_permission(user, of, p) /\ ~user_has_permission(u, of, p)
                        /\ user_has_permission(u, of, p)'
    BY <1>2
  <2>2. new \in Row /\ new.of \in Objects(new.table)'
    BY <1>2 DEF Inv, RowsFit
  <2>3. /\ rows' \subseteq rows \cup {new}
        /\ UNCHANGED <<users, groups, product_types, prod_type, global_role>>
    BY <1>2 DEF Add_Request, add_member, superuser_adds, api_post, create,
                edit_member, api_put, rewrite
  <2>4. Objects(new.table) = Objects(new.table)'
    BY <2>3 DEF Objects
  <2>5. PICK q : Gives(q, new.role) /\ user_has_permission(user, new.of, q)
    BY <1>2, <2>2, WritersAreGivers
  <2>6. CheckIsRows /\ CheckIsRows'
    BY <1>1, <1>2, CheckReadsRows
  <2>7. /\ ~Allows(rows, user, of, p) /\ ~Allows(rows, u, of, p)
        /\ Allows(rows, user, new.of, q)
    BY <2>1, <2>5, <2>6 DEF CheckIsRows, Gives
  <2>8. Allows(rows', u, of, p)
    <3>1. Allows(rows, u, of, p)'
      BY <2>1, <2>6 DEF CheckIsRows
    <3> QED
      BY <2>3, <3>1 DEF Allows, OnType, OnProduct, OnGroup, ByRows, Globally, HasRow, InGroup,
                        Objects
  <2> QED BY <1>2, <2>1, <2>2, <2>3, <2>4, <2>5, <2>7, <2>8, NoGain
<1>3. Inv /\ Inv' /\ Typed => [\A new \in rows' \ rows, user \in users \ Superusers :
         Gained(user) => /\ ~Add_Request(user, new)
                         /\ \A row \in rows : ~edit_member(user, row, new)
                                                 /\ ~api_put(user, row, new)]_vars
  BY <1>2
<1> QED BY <1>3, FitInvariant, PTL DEF Spec, NoGift
=============================================================================
