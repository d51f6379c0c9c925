---------------------------- MODULE SchemaProofs ----------------------------
(***************************************************************************)
(* Proofs about Schema: whatever an older version, a crash or a failed     *)
(* statement left behind, the next start that succeeds finishes the work.  *)
(***************************************************************************)
EXTENDS Schema, TLAPS

(* What statement s is for is in the database. *)
Done(s) ==
  /\ s.do = "alter" /\ (s.table # "event_logs" \/ found) => s.cols \subseteq columns[s.table]
  /\ s.do = "zone" /\ step # Running => s.table \notin unzoned

BaseInv == \A t \in Tables : Exists(t) => "base" \in columns[t]

(* An error of CREATE ends the process. *)
CreatedInv ==
  \A i \in DOMAIN Migration : i < step /\ Migration[i].do = "create" => Exists(Migration[i].table)

DoneInv == clean => \A i \in DOMAIN Migration : i < step => Done(Migration[i])

FoundInv == found => Exists("event_logs")

SchemaInv == TypeOK /\ BaseInv /\ CreatedInv /\ DoneInv /\ FoundInv
-----------------------------------------------------------------------------
(* The tables, and that there are 18 statements *)
LEMMA Constants ==
  /\ Tables = {"admin_settings", "monitored_groups", "event_logs", "new_users", "verification_bots"}
  /\ DOMAIN Migration = 1..18 /\ InitAdminStep = 19 /\ Running = 20 /\ Down = 0
BY DEF Tables, Queried, Migration, InitAdminStep, Running, Down

(* Each statement is one of the three kinds and names what the queries name. *)
LEMMA MigrationFacts ==
  ASSUME NEW i \in DOMAIN Migration
  PROVE  LET s == Migration[i] IN
         /\ s.do \in {"create", "alter", "zone"} /\ s.table \in Tables
         /\ s.cols \subseteq Queried[s.table]
         /\ s.do = "create" => "base" \in s.cols
         /\ s.do = "zone" => s.table \in ZonedTables
<1>1. i \in 1..18
  BY Constants
<1>2. i \in {1, 2, 13, 14, 18} \/ i \in 3..7 \/ i \in 8..12 \/ i \in 15..17
  BY <1>1
<1>3. CASE i \in {1, 2, 13, 14, 18}
  BY <1>3 DEF Migration, Create, Alter, Zone, Tables, Queried, ZonedTables
<1>4. CASE i \in 3..7
  <2>1. i \in {3, 4, 5, 6, 7}
    BY <1>4
  <2>. QED BY <2>1 DEF Migration, Create, Alter, Zone, Tables, Queried, ZonedTables
<1>5. CASE i \in 8..12
  <2>1. i \in {8, 9, 10, 11, 12}
    BY <1>5
  <2>. QED BY <2>1 DEF Migration, Create, Alter, Zone, Tables, Queried, ZonedTables
<1>6. CASE i \in 15..17
  <2>1. i \in {15, 16, 17}
    BY <1>6
  <2>. QED BY <2>1 DEF Migration, Create, Alter, Zone, Tables, Queried, ZonedTables
<1>. QED BY <1>2, <1>3, <1>4, <1>5, <1>6

(* Columns are added to a table an earlier statement has made, but for event_logs. *)
LEMMA MadeBefore ==
  ASSUME NEW i \in DOMAIN Migration, Migration[i].do = "alter", Migration[i].table # "event_logs"
  PROVE  \E j \in DOMAIN Migration :
           j < i /\ Migration[j].do = "create" /\ Migration[j].table = Migration[i].table
<1>1. i \in 1..18 /\ 1 \in DOMAIN Migration /\ 2 \in DOMAIN Migration
  BY Constants
<1>2. /\ Migration[1].do = "create" /\ Migration[1].table = "admin_settings"
      /\ Migration[2].do = "create" /\ Migration[2].table = "monitored_groups"
  BY DEF Migration, Create
<1>3. i \in {3, 4, 5, 6, 7, 8, 9, 10, 11, 12} \/ i \in {1, 2, 13, 14, 15, 16, 17, 18}
  BY <1>1
<1>4. CASE i \in {3, 4, 5, 6, 7, 8, 9, 10, 11, 12}
  <2>1. Migration[i].table \in {"admin_settings", "monitored_groups"}
    BY <1>4 DEF Migration, Alter
  <2>2. 1 < i /\ 2 < i
    BY <1>4
  <2>. QED BY <1>1, <1>2, <2>1, <2>2
<1>5. CASE i \in {1, 2, 13, 14, 15, 16, 17, 18}
  <2>1. Migration[i].do # "alter"
    BY <1>5 DEF Migration, Create, Zone
  <2>. QED BY <2>1
<1>. QED BY <1>3, <1>4, <1>5

(* Together the statements make every table, column and zone. *)
LEMMA Complete ==
  /\ \A t \in Tables :
       /\ \E i \in DOMAIN Migration : Migration[i].do = "create" /\ Migration[i].table = t
       /\ \A c \in Queried[t] : c # "base" =>
            \E i \in DOMAIN Migration : Migration[i].do = "alter" /\ Migration[i].table = t /\ c \in Migration[i].cols
  /\ \A t \in ZonedTables :
       \E i \in DOMAIN Migration : Migration[i].do = "zone" /\ Migration[i].table = t
<1> DEFINE Makes(i, t) == Migration[i].do = "create" /\ Migration[i].table = t
           Adds(i, t, c) == Migration[i].do = "alter" /\ Migration[i].table = t /\ c \in Migration[i].cols
           Zones(i, t) == Migration[i].do = "zone" /\ Migration[i].table = t
<1>1. \A i \in 1..18 : i \in DOMAIN Migration
  BY Constants
<1>2. /\ Makes(1, "admin_settings") /\ Makes(2, "monitored_groups") /\ Makes(13, "new_users")
      /\ Makes(14, "verification_bots") /\ Makes(18, "event_logs")
  BY DEF Migration, Create
<1>3. /\ Adds(3, "admin_settings", "bot_enabled") /\ Adds(4, "admin_settings", "bot_token")
      /\ Adds(5, "admin_settings", "ai_base_url") /\ Adds(6, "admin_settings", "ai_api_key")
      /\ Adds(7, "admin_settings", "ai_model") /\ Adds(11, "admin_settings", "warn_in_group")
  BY DEF Migration, Alter
<1>4. /\ Adds(8, "monitored_groups", "title")
      /\ Adds(9, "event_logs", "source") /\ Adds(10, "event_logs", "tags")
      /\ Adds(12, "event_logs", "telegram_date")
  BY DEF Migration, Alter
<1>5. Zones(15, "monitored_groups") /\ Zones(16, "new_users") /\ Zones(17, "verification_bots")
  BY DEF Migration, Zone
<1> HIDE DEF Makes, Adds, Zones
<1>6. \A t \in Tables : \E i \in DOMAIN Migration : Makes(i, t)
  BY <1>1, <1>2, Constants
<1>7. \A t \in ZonedTables : \E i \in DOMAIN Migration : Zones(i, t)
  BY <1>1, <1>5 DEF ZonedTables
<1>8. \A c \in Queried["admin_settings"] : c # "base" => \E i \in DOMAIN Migration : Adds(i, "admin_settings", c)
  BY <1>1, <1>3 DEF Queried
<1>9. \A c \in Queried["monitored_groups"] : c # "base" => \E i \in DOMAIN Migration : Adds(i, "monitored_groups", c)
  BY <1>1, <1>4 DEF Queried
<1>10. \A c \in Queried["event_logs"] : c # "base" => \E i \in DOMAIN Migration : Adds(i, "event_logs", c)
  BY <1>1, <1>4 DEF Queried
<1>11. \A t \in {"new_users", "verification_bots"} : \A c \in Queried[t] : c = "base"
  BY DEF Queried
<1>12. \A t \in Tables : \A c \in Queried[t] : c # "base" => \E i \in DOMAIN Migration : Adds(i, t, c)
  BY <1>8, <1>9, <1>10, <1>11, Constants
<1>. QED BY <1>6, <1>7, <1>12 DEF Makes, Adds, Zones
-----------------------------------------------------------------------------
(* A database that was left alone, or by an older version *)
LEMMA InitInv == Init => SchemaInv
<1> SUFFICES ASSUME Init PROVE SchemaInv
  OBVIOUS
<1>1. step = 0 /\ found = FALSE /\ clean = TRUE
  BY Constants DEF Init
<1>2. CreatedInv /\ DoneInv /\ FoundInv
  BY <1>1, Constants DEF CreatedInv, DoneInv, FoundInv
<1> DEFINE Found ==
             /\ columns = [t \in Tables |-> columns[t]]
             /\ \A t \in Tables : columns[t] \subseteq Queried[t] /\ (Exists(t) => "base" \in columns[t])
             /\ oldDefault \subseteq ZonedTables /\ unzoned \subseteq oldDefault
             /\ \A t \in oldDefault : Exists(t)
             /\ admin \in Credentials \cup {None} /\ (admin # None => Exists("admin_settings"))
<1>3. Found
  <2>1. CASE Fresh
    BY <2>1 DEF Fresh, Exists
  <2>2. ASSUME NEW k \in DOMAIN Migration, NEW bare \in BOOLEAN,
               NEW absent \in SUBSET {"new_users", "verification_bots", "event_logs"},
               Older(k, absent, bare)
        PROVE  Found
    <3> DEFINE added(t) == UNION {Migration[i].cols : i \in {j \in Alters : j <= k /\ Migration[j].table = t}}
               cols(t) == IF t = "event_logs" /\ bare THEN {} ELSE added(t)
    <3>1. /\ columns = [t \in Tables |-> IF t \in absent THEN {} ELSE {"base"} \cup cols(t)]
          /\ oldDefault \in SUBSET {t \in ZonedTables : t \notin absent} /\ unzoned \in SUBSET oldDefault
          /\ admin \in Credentials \cup {None}
      BY <2>2 DEF Older
    <3>2. \A t \in Tables : added(t) \subseteq Queried[t]
      BY MigrationFacts DEF Alters
    <3>3. \A t \in Tables : "base" \in Queried[t]
      BY Constants DEF Queried
    <3>4. \A t \in Tables : cols(t) \subseteq Queried[t]
      BY <3>2
    <3> HIDE DEF added, cols
    <3>5. \A t \in Tables : columns[t] = IF t \in absent THEN {} ELSE {"base"} \cup cols(t)
      BY <3>1
    <3>6. \A t \in Tables : columns[t] \subseteq Queried[t] /\ (Exists(t) => "base" \in columns[t])
      BY <3>3, <3>4, <3>5 DEF Exists
    <3>7. \A t \in Tables : t \notin absent => Exists(t)
      BY <3>5 DEF Exists
    <3>8. ZonedTables \subseteq Tables /\ "admin_settings" \in Tables \ absent
      BY Constants DEF ZonedTables
    <3>. QED BY <3>1, <3>6, <3>7, <3>8
  <2>. QED BY <2>1, <2>2 DEF Init
<1>4. TypeOK
  <2>1. DOMAIN columns = Tables /\ found \in BOOLEAN /\ clean \in BOOLEAN
    BY <1>1, <1>3
  <2>. QED BY <1>1, <1>3, <2>1, Constants DEF TypeOK
<1>. QED BY <1>2, <1>3, <1>4 DEF SchemaInv, BaseInv

(* A statement: what was done stays done, and it does what it is for. *)
LEMMA StatementInv ==
  ASSUME SchemaInv, Statement
  PROVE  SchemaInv'
<1>. PICK s : s = Migration[step]
  OBVIOUS
<1>1. /\ step \in 1..18 /\ step \in DOMAIN Migration /\ step' = step + 1
      /\ UNCHANGED <<oldDefault, admin, found, clean>>
  BY Constants DEF Statement
<1>2. /\ s.do \in {"create", "alter", "zone"} /\ s.table \in Tables /\ s.cols \subseteq Queried[s.table]
      /\ s.do = "create" => "base" \in s.cols
      /\ s.do = "zone" => s.table \in ZonedTables
  BY <1>1, MigrationFacts
<1>3. DoCreate(s) \/ DoAlter(s) \/ DoZone(s)
  BY DEF Statement
<1>4. DOMAIN columns = Tables /\ \A t \in Tables : columns[t] \subseteq Queried[t]
  BY DEF SchemaInv, TypeOK
<1>5. /\ DOMAIN columns' = Tables
      /\ \A t \in Tables : columns[t] \subseteq columns'[t] /\ columns'[t] \subseteq Queried[t]
      /\ \A t \in Tables : columns'[t] # {} => "base" \in columns'[t]
      /\ unzoned' \subseteq unzoned
  <2>1. \A t \in Tables : columns[t] # {} => "base" \in columns[t]
    BY DEF SchemaInv, BaseInv, Exists
  <2>2. CASE DoCreate(s)
    BY <1>2, <1>4, <2>1, <2>2 DEF DoCreate, Exists
  <2>3. CASE DoAlter(s)
    BY <1>2, <1>4, <2>1, <2>3 DEF DoAlter, Exists
  <2>4. CASE DoZone(s)
    BY <1>4, <2>1, <2>4 DEF DoZone
  <2>. QED BY <1>3, <2>2, <2>3, <2>4
<1>6. \A t \in Tables : Exists(t) => Exists(t)'
  BY <1>5 DEF Exists
<1>7. \A i \in DOMAIN Migration : i < step' => i < step \/ i = step
  BY <1>1, Constants
<1>8. BaseInv' /\ FoundInv'
  BY <1>1, <1>5, <1>6, Constants DEF SchemaInv, BaseInv, FoundInv, Exists
<1>9. CreatedInv'
  <2>1. s.do = "create" => Exists(s.table)'
    BY <1>2, <1>3, <1>4 DEF DoCreate, DoAlter, DoZone, Exists
  <2>2. ASSUME NEW i \in DOMAIN Migration, i < step, Migration[i].do = "create"
        PROVE  Exists(Migration[i].table)'
    BY <1>6, <2>2, MigrationFacts DEF SchemaInv, CreatedInv
  <2>. QED BY <1>7, <2>1, <2>2 DEF CreatedInv
<1>10. DoneInv'
  <2>1. ASSUME clean, NEW i \in DOMAIN Migration, i < step
        PROVE  Done(Migration[i])'
    <3>1. Done(Migration[i])
      BY <2>1 DEF SchemaInv, DoneInv
    <3>2. Migration[i].table \in Tables
      BY MigrationFacts
    <3>3. step # Running
      BY <1>1, Constants
    <3>. QED BY <1>1, <1>5, <3>1, <3>2, <3>3 DEF Done
  <2>2. s.do = "alter" /\ (s.table # "event_logs" \/ found) => Exists(s.table)
    <3>1. s.do = "alter" /\ s.table # "event_logs" => Exists(s.table)
      BY <1>1, MadeBefore DEF SchemaInv, CreatedInv
    <3>. QED BY <3>1 DEF SchemaInv, FoundInv
  <2>3. Done(s)'
    <3>1. CASE DoCreate(s)
      BY <3>1 DEF DoCreate, Done
    <3>2. CASE DoAlter(s)
      BY <1>1, <1>2, <1>4, <2>2, <3>2 DEF DoAlter, Done
    <3>3. CASE DoZone(s)
      BY <3>3 DEF DoZone, Done
    <3>. QED BY <1>3, <3>1, <3>2, <3>3
  <2>. QED BY <1>1, <1>7, <2>1, <2>3 DEF DoneInv
<1>11. \A t \in Tables : step' >= InitAdminStep => Exists(t)'
  <2>1. \A i \in DOMAIN Migration : step' >= InitAdminStep => i < step'
    BY <1>1, Constants
  <2>. QED BY <1>9, <2>1, Complete DEF CreatedInv
<1>12. TypeOK'
  <2>1. ZonedTables \subseteq Tables /\ "admin_settings" \in Tables
    BY Constants DEF ZonedTables
  <2>2. step' \in Down..Running /\ step' # Running
    BY <1>1, Constants
  <2>3. /\ oldDefault' \subseteq ZonedTables /\ unzoned' \subseteq oldDefault'
        /\ \A t \in oldDefault' : Exists(t)'
    BY <1>1, <1>5, <1>6, <2>1 DEF SchemaInv, TypeOK
  <2>4. admin' \in Credentials \cup {None} /\ (admin' # None => Exists("admin_settings")')
    BY <1>1, <1>6, <2>1 DEF SchemaInv, TypeOK
  <2>. QED BY <1>1, <1>5, <1>11, <2>2, <2>3, <2>4 DEF SchemaInv, TypeOK
<1>. QED BY <1>8, <1>9, <1>10, <1>12 DEF SchemaInv

(* The other steps leave the tables as they are, and the times until the *)
(* process runs.                                                         *)
LEMMA OtherInv ==
  ASSUME SchemaInv, Start \/ Die \/ Fail \/ \E c \in Credentials : InitAdmin(c) \/ ChangeAdmin(c)
  PROVE  SchemaInv'
<1>1. UNCHANGED <<columns, unzoned, oldDefault>> /\ \A t : Exists(t)' <=> Exists(t)
  BY DEF Start, Die, Fail, InitAdmin, ChangeAdmin, database, Exists
<1>2. BaseInv'
  BY <1>1 DEF SchemaInv, BaseInv
<1>3. /\ DOMAIN columns = Tables /\ \A t \in Tables : columns[t] \subseteq Queried[t]
      /\ oldDefault \subseteq ZonedTables /\ unzoned \subseteq oldDefault
      /\ \A t \in oldDefault : Exists(t)
      /\ admin \in Credentials \cup {None} /\ (admin # None => Exists("admin_settings"))
      /\ step \in 0..20 /\ found \in BOOLEAN /\ clean \in BOOLEAN
      /\ step >= 19 => \A t \in Tables : Exists(t)
      /\ step = 20 => admin # None
  BY Constants DEF SchemaInv, TypeOK
<1>4. CASE Start
  <2>1. step' = 1 /\ (found' => Exists("event_logs")) /\ found' \in BOOLEAN /\ clean' = TRUE /\ admin' = admin
    BY <1>4 DEF Start, database, Exists
  <2>2. CreatedInv' /\ DoneInv' /\ FoundInv'
    BY <1>1, <2>1, Constants DEF CreatedInv, DoneInv, FoundInv
  <2>3. TypeOK'
    BY <1>1, <1>3, <2>1, Constants DEF TypeOK
  <2>. QED BY <1>2, <2>2, <2>3 DEF SchemaInv
<1>5. CASE Die
  <2>1. step' = 0 /\ UNCHANGED <<found, clean, admin>>
    BY <1>5, Constants DEF Die, database
  <2>2. CreatedInv' /\ DoneInv' /\ FoundInv'
    BY <1>1, <2>1, Constants DEF SchemaInv, CreatedInv, DoneInv, FoundInv
  <2>3. TypeOK'
    BY <1>1, <1>3, <2>1, Constants DEF TypeOK
  <2>. QED BY <1>2, <2>2, <2>3 DEF SchemaInv
<1>6. CASE Fail
  <2>1. /\ step \in 1..18 /\ step \in DOMAIN Migration /\ clean' = FALSE /\ UNCHANGED <<found, admin>>
        /\ step' = IF Migration[step].do = "create" THEN 0 ELSE step + 1
    BY <1>6, Constants DEF Fail, database
  <2>2. CreatedInv'
    <3>1. \A i \in DOMAIN Migration : i < step' /\ Migration[i].do = "create" => i < step
      BY <2>1, Constants
    <3>. QED BY <1>1, <3>1 DEF SchemaInv, CreatedInv
  <2>3. DoneInv' /\ FoundInv'
    BY <1>1, <2>1 DEF SchemaInv, DoneInv, FoundInv
  <2>4. step' = 19 => \A t \in Tables : Exists(t)
    <3>1. step' = 19 => \A i \in DOMAIN Migration : Migration[i].do = "create" => i < step
      BY <2>1, Constants
    <3>. QED BY <3>1, Complete DEF SchemaInv, CreatedInv
  <2>5. step' \in 0..19 /\ found' \in BOOLEAN /\ clean' \in BOOLEAN
    <3>1. step' = 0 \/ step' = step + 1
      BY <2>1
    <3>2. step' \in 0..19
      BY <2>1, <3>1
    <3>3. clean' \in BOOLEAN
      BY <2>1
    <3>4. found' \in BOOLEAN
      BY <1>3, <2>1
    <3>. QED BY <3>2, <3>3, <3>4
  <2>6. TypeOK'
    BY <1>1, <1>3, <2>1, <2>4, <2>5, Constants DEF TypeOK
  <2>. QED BY <1>2, <2>2, <2>3, <2>6 DEF SchemaInv
<1>7. ASSUME NEW c \in Credentials, InitAdmin(c) \/ ChangeAdmin(c)
      PROVE  SchemaInv'
  <2>1. /\ step \in {19, 20} /\ step' = 20 /\ UNCHANGED <<found, clean>>
        /\ admin' \in Credentials
    BY <1>3, <1>7, Constants DEF InitAdmin, ChangeAdmin
  <2>2. admin' # None
    BY <2>1, SchemaAssumption
  <2>3. \A i \in DOMAIN Migration : i < step
    BY <2>1, Constants
  <2>4. CreatedInv' /\ DoneInv' /\ FoundInv'
    BY <1>1, <2>1, <2>3, Constants DEF SchemaInv, CreatedInv, DoneInv, FoundInv, Done
  <2>5. \A t \in Tables : Exists(t)
    BY <1>3, <2>1
  <2>6. TypeOK'
    BY <1>1, <1>3, <2>1, <2>2, <2>5, Constants DEF TypeOK
  <2>. QED BY <1>2, <2>4, <2>6 DEF SchemaInv
<1>. QED BY <1>4, <1>5, <1>6, <1>7

(* A row of an older table: the columns stay. *)
LEMMA InsertInv ==
  ASSUME SchemaInv, NEW t \in Tables, Insert(t)
  PROVE  SchemaInv'
<1>1. /\ step = Running /\ UNCHANGED <<columns, oldDefault, admin, step, found, clean>>
      /\ unzoned' \subseteq oldDefault
  BY DEF Insert, SchemaInv, TypeOK
<1>2. TypeOK'
  BY <1>1 DEF SchemaInv, TypeOK, Exists
<1>3. BaseInv' /\ CreatedInv' /\ DoneInv' /\ FoundInv'
  BY <1>1 DEF SchemaInv, BaseInv, CreatedInv, DoneInv, FoundInv, Done, Exists
<1>. QED BY <1>2, <1>3 DEF SchemaInv

(* The invariant holds in every behaviour. *)
LEMMA SpecInv == Spec => []SchemaInv
<1>1. SchemaInv /\ [Next]_vars => SchemaInv'
  <2> SUFFICES ASSUME SchemaInv, [Next]_vars PROVE SchemaInv'
    OBVIOUS
  <2>1. CASE UNCHANGED vars
    <3>1. UNCHANGED <<columns, unzoned, oldDefault, admin, step, found, clean>>
      BY <2>1 DEF vars, database
    <3>. QED BY <3>1 DEF SchemaInv, TypeOK, BaseInv, CreatedInv, DoneInv, FoundInv, Done, Exists
  <2>. QED BY <2>1, StatementInv, OtherInv, InsertInv DEF Next
<1>. QED BY InitInv, <1>1, PTL DEF Spec

(* Types, and that a process which has come to InitAdmin has every table. *)
THEOREM TypeCorrect == Spec => []TypeOK
<1>1. SchemaInv => TypeOK
  BY DEF SchemaInv
<1>. QED BY <1>1, SpecInv, PTL

(* db.go:73-151: wherever earlier starts were cut short, one in which no *)
(* statement failed completes the schema and the times.                  *)
THEOREM MigrationCompletes == Spec => []MigratedInFull
<1>1. SchemaInv => MigratedInFull
  <2> SUFFICES ASSUME SchemaInv, clean, step >= InitAdminStep
               PROVE  /\ \A t \in Tables : (t # "event_logs" \/ found) => Queried[t] \subseteq columns[t]
                      /\ step = InitAdminStep => unzoned = {}
    BY Constants DEF MigratedInFull, SchemaInv, TypeOK
  <2>1. \A i \in DOMAIN Migration : Done(Migration[i])
    BY Constants DEF SchemaInv, TypeOK, DoneInv
  <2>2. \A t \in Tables : "base" \in columns[t]
    BY Constants DEF SchemaInv, TypeOK, BaseInv
  <2>3. ASSUME NEW t \in Tables, t # "event_logs" \/ found, NEW c \in Queried[t]
        PROVE  c \in columns[t]
    BY <2>1, <2>2, <2>3, Complete DEF Done
  <2>4. step = InitAdminStep => unzoned = {}
    <3>1. unzoned \subseteq ZonedTables /\ InitAdminStep # Running
      BY Constants DEF SchemaInv, TypeOK
    <3>. QED BY <2>1, <3>1, Complete DEF Done
  <2>. QED BY <2>3, <2>4
<1>. QED BY <1>1, SpecInv, PTL

(* README.md:216: no start changes credentials that are there. *)
THEOREM CredentialsStay == Spec => CredentialsKept
<1>1. [Next]_vars => [(admin # None /\ step # Running) => admin' = admin]_vars
  BY DEF Next, Start, Die, Statement, Fail, InitAdmin, ChangeAdmin, Insert, database, vars
<1>. QED BY <1>1, PTL DEF Spec, CredentialsKept
=============================================================================
