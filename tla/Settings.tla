------------------------------ MODULE Settings ------------------------------
(***************************************************************************)
(* The requests that change settings (internal/handler) in the row of      *)
(* admin_settings (internal/db) and in the memory main gave the handlers.  *)
(* Each statement of the store is atomic, for the store has a mutex and    *)
(* the database one connection; a request is several of them, and nothing  *)
(* keeps requests apart.                                                   *)
(*                                                                         *)
(* Of the AI configuration the key is kept, which the page sends blank to  *)
(* leave it as it is; URL and model are stored with it as they come.  How  *)
(* startBot replaces a bot is in Lifecycle, who may send requests is in    *)
(* Sessions.                                                               *)
(***************************************************************************)
EXTENDS Naturals

CONSTANTS
  Requests,    \* as many as there are at once
  Tokens,
  BadTokens,   \* the tokens telego.NewBot refuses
  EnvToken,    \* the token in the environment, or Blank
  Keys,
  Blank        \* the empty string

Switches == {"enabled", "warn"}     \* botEnabled and warnInGroup
Parts == Switches \cup {"token"}    \* what has a copy in memory
Columns == Parts \cup {"key"}

(* What a request may bring for a column, and what the column may hold *)
Settable(col) ==
  IF col \in Switches THEN {"on", "off"} ELSE IF col = "token" THEN Tokens ELSE Keys \cup {Blank}

Value == {"on", "off"} \cup Tokens \cup Keys \cup {Blank}

Stored(col) == IF col = "token" THEN Tokens \cup {Blank} ELSE Settable(col)

ASSUME SettingsAssumption ==
  BadTokens \subseteq Tokens /\ EnvToken \in Tokens \cup {Blank} /\ Blank \notin {"on", "off"} \cup Tokens \cup Keys

VARIABLES
  row,     \* bot_enabled, warn_in_group, bot_token and ai_api_key
  mem,     \* the two atomics and the token of the bot that works, or Blank
  up,      \* is the process there?
  req,     \* req[r]: the request in slot r, as far as it is
  loose    \* history variable: the parts whose copy may differ from the row

vars == <<row, mem, up, req, loose>>

(* given: did it bring its value; clean: has it read that value, and has *)
(* nobody stored another since (history)?                                *)
Idle == [pc |-> "idle", col |-> "key", value |-> Blank, given |-> FALSE, clean |-> FALSE]

TypeOK ==
  /\ row \in [Columns -> Value] /\ \A col \in Columns : row[col] \in Stored(col)
  /\ mem \in [Parts -> Value] /\ \A p \in Parts : mem[p] \in Stored(p)
  /\ req \in [Requests -> [pc : {"idle", "read", "store", "apply"}, col : Columns, value : Value,
                           given : BOOLEAN, clean : BOOLEAN]]
  /\ up \in BOOLEAN /\ loose \subseteq Parts
  /\ \A r \in Requests :
       /\ req[r].pc # "idle" => req[r].value \in Settable(req[r].col)
       /\ req[r].pc = "apply" => req[r].col \in Parts

Works(token) == IF token \in BadTokens THEN Blank ELSE token

(* main: what it can read of the row, the defaults for the rest; a failed *)
(* read of the token counts like an empty one.                            *)
Loaded(readable) ==
  [p \in Parts |->
     IF p = "token" THEN Works(IF p \in readable /\ row[p] # Blank THEN row[p] ELSE EnvToken)
     ELSE IF p \in readable THEN row[p] ELSE IF p = "enabled" THEN "on" ELSE "off"]

Start(readable) ==
  /\ mem' = Loaded(readable)
  /\ loose' = {p \in Parts : p \notin readable \/ (p = "token" /\ row[p] \in BadTokens \cup {Blank})}

Init ==
  /\ \E on \in [Switches -> {"on", "off"}] :
       row = [col \in Columns |-> IF col \in Switches THEN on[col] ELSE Blank]
  /\ mem = Loaded(Parts) /\ loose = {"token"}
  /\ up = TRUE
  /\ req = [r \in Requests |-> Idle]
-----------------------------------------------------------------------------
(* Mutated form: a blank token is not refused. *)
BeginBlank(r) ==
  /\ up /\ req[r].pc = "idle"
  /\ \E col \in Columns : \E v \in Settable(col) \cup (IF col = "token" THEN {Blank} ELSE {}) :
       req' = [req EXCEPT ![r] =
         [pc |-> IF v = Blank /\ col = "key" THEN "read" ELSE "store", col |-> col, value |-> v,
          given |-> v # Blank, clean |-> FALSE]]
  /\ UNCHANGED <<row, mem, up, loose>>

(* Any of the requests, with any value; a blank token is refused. *)
Begin(r) ==
  /\ up /\ req[r].pc = "idle"
  /\ \E col \in Columns : \E v \in Settable(col) :
       req' = [req EXCEPT ![r] =
         [pc |-> IF v = Blank THEN "read" ELSE "store", col |-> col, value |-> v,
          given |-> v # Blank, clean |-> FALSE]]
  /\ UNCHANGED <<row, mem, up, loose>>

(* Mutated form: a read that fails, or one of the masked key. *)
ReadNothing(r) ==
  /\ req[r].pc = "read"
  /\ req' = [req EXCEPT ![r].pc = "store", ![r].clean = TRUE]
  /\ UNCHANGED <<row, mem, up, loose>>

(* handleSetAIConfig: a blank key stands for the one that is stored... *)
ReadKey(r) ==
  /\ req[r].pc = "read"
  /\ req' = [req EXCEPT ![r].pc = "store", ![r].value = row["key"], ![r].clean = TRUE]
  /\ UNCHANGED <<row, mem, up, loose>>

(* ...and for none when that cannot be read. *)
ReadKeyFails(r) ==
  /\ req[r].pc = "read"
  /\ req' = [req EXCEPT ![r].pc = "store"]
  /\ UNCHANGED <<row, mem, up, loose>>

Pending(r, p) == req[r].pc = "apply" /\ req[r].col = p

(* SetBotEnabled, SetWarnInGroup, SetBotToken or SetAIConfig *)
Store(r) ==
  LET col == req[r].col IN
  /\ req[r].pc = "store"
  /\ row' = [row EXCEPT ![col] = req[r].value]
  /\ req' = [q \in Requests |->
       IF q = r THEN IF col = "key" THEN Idle ELSE [req[r] EXCEPT !.pc = "apply"]
       ELSE IF col = "key" THEN [req[q] EXCEPT !.clean = FALSE] ELSE req[q]]
  /\ loose' = IF col = "key" THEN loose
              ELSE IF \E q \in Requests : Pending(q, col) THEN loose \cup {col}
              ELSE loose \ {col}
  /\ UNCHANGED <<mem, up>>

(* Mutated form: the atomic is set before the row. *)
StoreFailsLate(r) ==
  /\ req[r].pc = "store"
  /\ req' = [req EXCEPT ![r] = Idle]
  /\ mem' = IF req[r].col \in Switches THEN [mem EXCEPT ![req[r].col] = req[r].value] ELSE mem
  /\ UNCHANGED <<row, up, loose>>

StoreFails(r) ==
  /\ req[r].pc = "store"
  /\ req' = [req EXCEPT ![r] = Idle]
  /\ UNCHANGED <<row, mem, up, loose>>

(* botEnabled.Store, warnInGroup.Store or restartBot, which stops the old *)
(* bot before it knows whether the new token is good.                     *)
Apply(r) ==
  LET p == req[r].col
      v == req[r].value
  IN
  /\ req[r].pc = "apply"
  /\ req' = [req EXCEPT ![r] = Idle]
  /\ mem' = [mem EXCEPT ![p] = IF p = "token" THEN Works(v) ELSE v]
  /\ loose' = IF p = "token" /\ v \in BadTokens THEN loose \cup {p} ELSE loose
  /\ UNCHANGED <<row, up>>

(* The process dies between any two steps, *)
Die ==
  /\ up /\ up' = FALSE
  /\ req' = [r \in Requests |-> Idle]
  /\ UNCHANGED <<row, mem, loose>>

(* and main starts it again. *)
Restart ==
  /\ ~up /\ up' = TRUE
  /\ \E readable \in SUBSET Parts : Start(readable)
  /\ UNCHANGED <<row, req>>
-----------------------------------------------------------------------------
Handles(r) ==
  Begin(r) \/ ReadKey(r) \/ ReadKeyFails(r) \/ Store(r) \/ StoreFails(r) \/ Apply(r)

Next == Die \/ Restart \/ \E r \in Requests : Handles(r)

Spec == Init /\ [][Next]_vars
-----------------------------------------------------------------------------
(***************************************************************************)
(* A setting is written to the row and then to the memory of the process   *)
(* (handler.go:266-269, 292-295, 363-370): what the process works with is  *)
(* what the row says, whatever statements failed and whenever it was       *)
(* restarted.  Only while a request is between the two they may differ,    *)
(* and after two requests that overlapped, a token that was refused or a   *)
(* start that could not read the row, until the next request for this part *)
(* is done.                                                                *)
(***************************************************************************)
CopiesAgree ==
  up => \A p \in Parts : (p \notin loose /\ \A r \in Requests : ~Pending(r, p)) => mem[p] = row[p]

(***************************************************************************)
(* A request with a blank key leaves the key as it is, however the store   *)
(* fails or the process is restarted.  It undoes the change of another     *)
(* that came between its two statements, and it erases the key if its read *)
(* failed.                                                                 *)
(***************************************************************************)
KeyKept ==
  [][row'["key"] # row["key"] =>
       \E r \in Requests :
         /\ req[r].pc = "store" /\ req[r].col = "key" /\ req'[r] = Idle
         /\ row'["key"] = req[r].value /\ (req[r].given \/ ~req[r].clean)]_vars
=============================================================================
