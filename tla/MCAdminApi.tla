------------------------------ MODULE MCAdminApi ------------------------------
EXTENDS AdminApi, TLC

CONSTANTS r1, r2, r3

MCReq == {r1, r2, r3}
MCNamesFor == [setup |-> {"a", "b"}, login |-> {"a"}, create_node |-> {"a", "b"},
               update_node |-> {None, "b"}, enroll |-> {None, "b"}]

Tab(S) == [x \in S |-> None]
Empty == [users |-> Tab({}), grants |-> {}, nodes |-> Tab({}), certificates |-> Tab({}),
          routes |-> Tab({}), acl_rules |-> Tab({}), domains |-> Tab({}),
          credentials |-> Tab({}), audit |-> {}]

(* One administrator, one node with an unused bootstrap token, a route     *)
(* with a rule, and a domain with a certificate.                           *)
Seeded ==
    [Empty EXCEPT
        !.users = "u0" :> [name |-> "a"] @@ "u9" :> [name |-> "v"],
        !.grants = {<<"u0", "admin">>, <<"u9", "viewer">>},
        !.nodes = "n0" :> [name |-> "a", description |-> None, meta |-> None],
        !.credentials = "k0" :> NewCredential("n0", "bootstrap"),
        !.routes = "t0" :> [name |-> "t0", node |-> "n0"],
        !.acl_rules = "x0" :> [route |-> "t0"],
        !.certificates = "c0" :> [name |-> "c0"],
        !.domains = "d0" :> [name |-> "d0", route |-> "t0", cert |-> "c0"]]

(* A snapshot taken when the node had another name and a second node, with *)
(* a route of its own, existed; the same without secrets; a torn one.      *)
Full ==
    [nodes |-> "n0" :> [name |-> "b", description |-> None, meta |-> None]
            @@ "n1" :> [name |-> "b", description |-> None, meta |-> None],
     certificates |-> "c1" :> [name |-> "c1"],
     routes |-> "t1" :> [name |-> "t1", node |-> "n1"],
     acl_rules |-> "x1" :> [route |-> "t1"],
     domains |-> "d1" :> [name |-> "d1", route |-> "t1", cert |-> "c1"],
     credentials |-> "k1" :> NewCredential("n1", "token")]
Plain == [Full EXCEPT !.certificates = Tab({}), !.credentials = Tab({}),
                      !.domains = "d1" :> [name |-> "d1", route |-> "t1", cert |-> None]]
Torn == [Plain EXCEPT !.nodes = "n0" :> [name |-> "a", description |-> None, meta |-> None]]
MCSnapshotFiles == {Full, Plain, Torn}

Admin == "adm" :> [user |-> "u0", role |-> "admin", expires |-> 2]
Both == Admin @@ "view" :> [user |-> "u9", role |-> "viewer", expires |-> 2]

Mix(a, b, c) == (r1 :> a @@ r2 :> b @@ r3 :> c)
On(d, s, kinds) == {[kind |-> k, db |-> d, sessions |-> s] : k \in kinds}

(* Which three requests meet.  The order in which they come is free, so    *)
(* one arrangement of each choice is enough.                               *)
MCScenarios ==
    On(Empty, Tab({}), {Mix("setup", "setup", "login")})
    \cup On(Seeded, Admin,
        {Mix("login", "login", "login"), Mix("login", "refresh", "logout"),
         Mix("refresh", "logout", "me"), Mix("refresh", "refresh", "logout"),
         Mix("enroll", "enroll", "revoke_credential"), Mix("enroll", "delete_node", "create_credential"),
         Mix("create_node", "create_node", "update_node"), Mix("update_node", "update_node", "delete_node"),
         Mix("create_acl", "delete_acl", "create_acl"), Mix("create_acl", "delete_acl", "delete_route"),
         Mix("restore", "restore", "none"), Mix("restore", "create_node", "none"),
         Mix("import", "delete_route", "delete_node"), Mix("import", "create_acl", "none"),
         Mix("backup", "delete_node", "create_acl"), Mix("export", "enroll", "create_credential"),
         Mix("backup", "backup", "create_node")})
    \cup On(Seeded, Both,
        {Mix("create_node", "logout", "none"), Mix("create_node", "delete_node", "none"),
         Mix("backup", "delete_acl", "none")})
=============================================================================
