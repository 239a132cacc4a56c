----------------------------- MODULE SnapshotsApi -----------------------------
(***************************************************************************)
(* Backup, export, restore and import (snapshot.rs, api/admin.rs).  A      *)
(* snapshot is read table by table and written row by row, in neither case *)
(* in a transaction.                                                       *)
(***************************************************************************)
EXTENDS ApiRequests, Sequences

VARIABLES
    todo,   \* the rows <<table, id>> a restore has not come to
    cur     \* the row it has found missing and is about to insert

snapVars == <<todo, cur>>

Tables == {SnapshotTables[i] : i \in 1..Len(SnapshotTables)}
NoRows == [x \in {} |-> None]
EmptySnapshot == [t \in Tables |-> NoRows]

(* validate: every reference is to a row of the snapshot itself.           *)
Validate(s) ==
    /\ \A x \in DOMAIN s["routes"] : s["routes"][x].node \in DOMAIN s["nodes"]
    /\ \A x \in DOMAIN s["acl_rules"] : s["acl_rules"][x].route \in DOMAIN s["routes"] \cup {None}
    /\ \A x \in DOMAIN s["domains"] :
        /\ s["domains"][x].route \in DOMAIN s["routes"] \cup {None}
        /\ s["domains"][x].cert \in DOMAIN s["certificates"] \cup {None}
    /\ \A x \in DOMAIN s["credentials"] : s["credentials"][x].node \in DOMAIN s["nodes"]

Secrets == {"credentials", "certificates"}

-----------------------------------------------------------------------------
(* from_db: one SELECT per table, in the order of the source.              *)
SelectOrder == <<"nodes", "routes", "domains", "acl_rules", "credentials", "certificates">>

(* Mutant: backup leaves the secrets out as export does.                   *)
IncludeSecretsNever(r) == FALSE

IncludeSecrets(r) == kind[r] = "backup"

ReadSnapshot(r) ==
    /\ kind[r] \in {"backup", "export"}
    /\ \/ /\ pc[r] = "start"
          /\ read' = [read EXCEPT ![r] = EmptySnapshot]
          /\ Goto(r, SelectOrder[1])
       \/ \E i \in 1..Len(SelectOrder) :
          /\ pc[r] = SelectOrder[i]
          /\ read' = [read EXCEPT ![r][SelectOrder[i]] = db[SelectOrder[i]]]
          /\ IF i = Len(SelectOrder) \/ (~IncludeSecrets(r) /\ SelectOrder[i + 1] \in Secrets)
             THEN Reply(r, 200) ELSE Goto(r, SelectOrder[i + 1])
    /\ UNCHANGED <<db, snapVars, sessionVars, clock>>

-----------------------------------------------------------------------------
(* The next table with rows left, in the order that satisfies foreign keys.*)
FirstTable(rows) ==
    LET left == {i \in 1..Len(SnapshotTables) : \E x \in rows : x[1] = SnapshotTables[i]}
    IN SnapshotTables[CHOOSE i \in left : \A j \in left : i <= j]

RestoreStart(r) ==
    LET s == arg[r].id IN
    /\ pc[r] = "start"
    /\ IF kind[r] = "import" /\ \E t \in Secrets : DOMAIN s[t] # {}
       THEN Reply(r, 422) /\ UNCHANGED todo
       ELSE IF ~Validate(s)
       THEN Reply(r, 500) /\ UNCHANGED todo
       ELSE /\ todo' = [todo EXCEPT ![r] = UNION {{<<t, k>> : k \in DOMAIN s[t]} : t \in Tables}]
            /\ Goto(r, "exists")
    /\ UNCHANGED <<cur, db, read>>

(* id_exists: a row that is there is skipped; a preview only counts.       *)
RestoreExists(r) ==
    /\ pc[r] = "exists"
    /\ todo[r] # {}
    /\ \E x \in todo[r] :
        /\ x[1] = FirstTable(todo[r])
        /\ todo' = [todo EXCEPT ![r] = @ \ {x}]
        /\ IF x[2] \in DOMAIN db[x[1]] \/ ~arg[r].flag
           THEN Goto(r, "exists") /\ UNCHANGED cur
           ELSE Goto(r, "insert") /\ cur' = [cur EXCEPT ![r] = x]
    /\ UNCHANGED <<db, read>>

(* Mutant: INSERT OR IGNORE.                                               *)
RestoreInsertOrIgnore(r) ==
    LET t == cur[r][1]  k == cur[r][2]  row == arg[r].id[t][k] IN
    /\ pc[r] = "insert"
    /\ db' = IF CanInsert(db, t, k, row) THEN Insert(db, t, k, row) ELSE db
    /\ Goto(r, "exists")
    /\ UNCHANGED <<snapVars, read>>

(* The INSERT; a taken name or host name, or a row deleted meanwhile,      *)
(* ends the restore with the rows before it in place.                      *)
RestoreInsert(r) ==
    LET t == cur[r][1]  k == cur[r][2]  row == arg[r].id[t][k] IN
    /\ pc[r] = "insert"
    /\ IF CanInsert(db, t, k, row)
       THEN db' = Insert(db, t, k, row) /\ Goto(r, "exists")
       ELSE Reply(r, 500) /\ UNCHANGED db
    /\ UNCHANGED <<snapVars, read>>

(* restore and import: neither reloads the data plane or the ACL.          *)
Restore(r) ==
    /\ kind[r] \in {"restore", "import"}
    /\ \/ RestoreStart(r) \/ RestoreExists(r) \/ RestoreInsert(r)
       \/ /\ pc[r] = "exists"
          /\ todo[r] = {}
          /\ IF arg[r].flag THEN Goto(r, "audit") ELSE Reply(r, 200)
          /\ UNCHANGED <<snapVars, db, read>>
       \/ /\ pc[r] = "audit"
          /\ WriteAudit(r, kind[r])
          /\ Reply(r, 200)
          /\ UNCHANGED <<snapVars, read>>
    /\ UNCHANGED <<sessionVars, clock>>

SnapshotsInit ==
    /\ todo = [r \in Req |-> {}]
    /\ cur = [r \in Req |-> None]

SnapshotsStep(r) == ReadSnapshot(r) \/ Restore(r)
=============================================================================
