------------------------------- MODULE Schema -------------------------------
(***************************************************************************)
(* How a process finds and leaves its database: Store.migrate (internal/   *)
(* db), which runs at every start, and InitAdmin (internal/handler).       *)
(* migrate is a list of statements without a transaction; the errors of    *)
(* most of them are ignored, since ALTER TABLE fails whenever the column   *)
(* is there already.                                                       *)
(*                                                                         *)
(* Of a table the module has the names of its columns; "base" stands for   *)
(* the columns that were in the table from the beginning.                  *)
(***************************************************************************)
EXTENDS Naturals, Sequences

CONSTANTS
  Credentials,         \* a user name with a password
  None,                \* no row
  StatementsMayFail    \* may a statement fail for a reason of its own?

ASSUME SchemaAssumption ==
  /\ StatementsMayFail \in BOOLEAN
  /\ None \notin Credentials

VARIABLES
  columns,    \* columns[t]: the columns of table t, none if it does not exist
  unzoned,    \* the tables in which a time may lack its Z
  oldDefault, \* the tables whose DEFAULT for a time, which nothing alters, lacks it
  admin,      \* the row of admin_settings, or None
  step,       \* the number of the process's next step
  found,      \* history variable: event_logs existed when the process started
  clean       \* history variable: no statement of this process has failed

database == <<columns, unzoned, oldDefault, admin>>
vars == <<database, step, found, clean>>

Create(t, cols) == [do |-> "create", table |-> t, cols |-> cols]
Alter(t, col) == [do |-> "alter", table |-> t, cols |-> {col}]
Zone(t) == [do |-> "zone", table |-> t, cols |-> {}]

(* The statements of migrate. *)
Migration ==
  << Create("admin_settings", {"base", "bot_enabled"}),
     Create("monitored_groups", {"base"}),
     Alter("admin_settings", "bot_enabled"),
     Alter("admin_settings", "bot_token"),
     Alter("admin_settings", "ai_base_url"),
     Alter("admin_settings", "ai_api_key"),
     Alter("admin_settings", "ai_model"),
     Alter("monitored_groups", "title"),
     Alter("event_logs", "source"),
     Alter("event_logs", "tags"),
     Alter("admin_settings", "warn_in_group"),
     Alter("event_logs", "telegram_date"),
     Create("new_users", {"base"}),
     Create("verification_bots", {"base"}),
     Zone("monitored_groups"),
     Zone("new_users"),
     Zone("verification_bots"),
     Create("event_logs", {"base"}) >>

(* What the queries of db.go name. *)
Queried ==
  [admin_settings |-> {"base", "bot_enabled", "bot_token", "ai_base_url", "ai_api_key",
                       "ai_model", "warn_in_group"},
   monitored_groups |-> {"base", "title"},
   event_logs |-> {"base", "source", "tags", "telegram_date"},
   new_users |-> {"base"},
   verification_bots |-> {"base"}]

Tables == DOMAIN Queried
ZonedTables == {"monitored_groups", "new_users", "verification_bots"}

(* The steps of a process: the statements, InitAdmin, everything else. *)
Down == 0
InitAdminStep == Len(Migration) + 1
Running == Len(Migration) + 2

Exists(t) == columns[t] # {}

TypeOK ==
  /\ DOMAIN columns = Tables /\ \A t \in Tables : columns[t] \subseteq Queried[t]
  /\ oldDefault \subseteq ZonedTables /\ unzoned \subseteq oldDefault
  /\ \A t \in oldDefault : Exists(t)
  /\ admin \in Credentials \cup {None} /\ (admin # None => Exists("admin_settings"))
  /\ step \in Down..Running
  /\ found \in BOOLEAN /\ clean \in BOOLEAN
  /\ step >= InitAdminStep => \A t \in Tables : Exists(t)
  /\ step = Running => admin # None
-----------------------------------------------------------------------------
Fresh ==
  /\ columns = [t \in Tables |-> {}]
  /\ unzoned = {} /\ oldDefault = {}
  /\ admin = None

(* The statements with the columns that were added later, in their order *)
Alters == {i \in DOMAIN Migration : Migration[i].do = "alter"}

(***************************************************************************)
(* The database of an older version: it knew the columns up to statement k *)
(* and perhaps not yet the last tables, and a new table event_logs had     *)
(* none of those columns then either.                                      *)
(***************************************************************************)
Older(k, absent, bare) ==
  LET added(t) == UNION {Migration[i].cols : i \in {j \in Alters : j <= k /\ Migration[j].table = t}}
  IN
  /\ columns = [t \in Tables |->
       IF t \in absent THEN {}
       ELSE {"base"} \cup (IF t = "event_logs" /\ bare THEN {} ELSE added(t))]
  /\ oldDefault \in SUBSET {t \in ZonedTables : t \notin absent} /\ unzoned \in SUBSET oldDefault
  /\ admin \in Credentials \cup {None}

Init ==
  /\ \/ Fresh
     \/ \E k \in DOMAIN Migration, bare \in BOOLEAN,
           absent \in SUBSET {"new_users", "verification_bots", "event_logs"} : Older(k, absent, bare)
  /\ step = Down /\ found = FALSE /\ clean = TRUE

Start ==
  /\ step = Down
  /\ step' = 1
  /\ found' = Exists("event_logs") /\ clean' = TRUE
  /\ UNCHANGED database

Die ==
  /\ step # Down
  /\ step' = Down
  /\ UNCHANGED <<database, found, clean>>

(* CREATE TABLE IF NOT EXISTS *)
DoCreate(s) ==
  /\ s.do = "create"
  /\ columns' = IF Exists(s.table) THEN columns ELSE [columns EXCEPT ![s.table] = s.cols]
  /\ UNCHANGED unzoned

(* Mutated form: the table is made anew for the column. *)
DoAlterAnew(s) ==
  /\ s.do = "alter"
  /\ columns' = IF Exists(s.table) THEN [columns EXCEPT ![s.table] = {"base"} \cup s.cols] ELSE columns
  /\ UNCHANGED unzoned

(* ALTER TABLE ... ADD COLUMN, which does nothing when the table is missing. *)
DoAlter(s) ==
  /\ s.do = "alter"
  /\ columns' = IF Exists(s.table) THEN [columns EXCEPT ![s.table] = @ \cup s.cols] ELSE columns
  /\ UNCHANGED unzoned

(* UPDATE ... WHERE added_at NOT LIKE '%Z' *)
DoZone(s) ==
  /\ s.do = "zone"
  /\ unzoned' = unzoned \ {s.table}
  /\ UNCHANGED columns

Statement ==
  /\ step \in DOMAIN Migration
  /\ DoCreate(Migration[step]) \/ DoAlter(Migration[step]) \/ DoZone(Migration[step])
  /\ step' = step + 1
  /\ UNCHANGED <<oldDefault, admin, found, clean>>

(* Mutated form: no error matters. *)
FailIgnored ==
  /\ StatementsMayFail /\ step \in DOMAIN Migration
  /\ step' = step + 1
  /\ clean' = FALSE
  /\ UNCHANGED <<database, found>>

(* An error of CREATE ends the process, the others are ignored. *)
Fail ==
  /\ StatementsMayFail /\ step \in DOMAIN Migration
  /\ step' = IF Migration[step].do = "create" THEN Down ELSE step + 1
  /\ clean' = FALSE
  /\ UNCHANGED <<database, found>>

(* Mutated form: the row is replaced. *)
InitAdminAlways(env) ==
  /\ step = InitAdminStep
  /\ admin' = env
  /\ step' = Running
  /\ UNCHANGED <<columns, unzoned, oldDefault, found, clean>>

(* InitAdmin with the credentials of the environment, or "admin", "admin". *)
InitAdmin(env) ==
  /\ step = InitAdminStep
  /\ admin' = IF admin = None THEN env ELSE admin
  /\ step' = Running
  /\ UNCHANGED <<columns, unzoned, oldDefault, found, clean>>

(* The administrator changes his name or his password. *)
ChangeAdmin(new) ==
  /\ step = Running
  /\ admin' = new
  /\ UNCHANGED <<columns, unzoned, oldDefault, step, found, clean>>

(* AddGroup, AddVerificationBot: the time is the table's DEFAULT. *)
Insert(t) ==
  /\ step = Running /\ t \in {"monitored_groups", "verification_bots"}
  /\ unzoned' = unzoned \cup ({t} \cap oldDefault)
  /\ UNCHANGED <<columns, oldDefault, admin, step, found, clean>>

Next ==
  \/ Start \/ Die \/ Statement \/ Fail
  \/ \E c \in Credentials : InitAdmin(c) \/ ChangeAdmin(c)
  \/ \E t \in Tables : Insert(t)

Spec == Init /\ [][Next]_vars
-----------------------------------------------------------------------------
(***************************************************************************)
(* Whatever version left the database, and wherever earlier starts were    *)
(* cut short, a migration in which no statement failed leaves every table  *)
(* as the queries need it, event_logs from the second such start on, and   *)
(* every time with its Z.  The times do not stay so: a table of an older   *)
(* version keeps its DEFAULT, and a row inserted later lacks the Z until   *)
(* the next start.                                                         *)
(***************************************************************************)
MigratedInFull ==
  clean =>
    /\ step >= InitAdminStep =>
         \A t \in Tables : (t # "event_logs" \/ found) => Queried[t] \subseteq columns[t]
    /\ step = InitAdminStep => unzoned = {}

(***************************************************************************)
(* README.md:216, "Changing env vars after first run has no effect on the  *)
(* admin password": no start, complete or not, changes the credentials     *)
(* that an earlier one has written or the administrator has chosen.        *)
(***************************************************************************)
CredentialsKept ==
  [][(admin # None /\ step # Running) => admin' = admin]_vars

(***************************************************************************)
(* README.md:18, "events stored in SQLite": a process that runs can insert *)
(* the entries of its log, which names all columns of event_logs.          *)
(***************************************************************************)
EntriesStored == step = Running => Queried["event_logs"] \subseteq columns["event_logs"]
=============================================================================
