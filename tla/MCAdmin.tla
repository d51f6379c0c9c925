------------------------------ MODULE MCAdmin ------------------------------
(***************************************************************************)
(* Settings and Sessions in one run.  They share nothing but the right to  *)
(* send requests, which Settings takes for granted; to keep their states   *)
(* apart a behaviour of the run has the requests of one of them only.      *)
(***************************************************************************)
EXTENDS Settings, Integers

CONSTANTS Tabs, Names, BarNames, Passwords, TokenExpiry, NoCookie

ASSUME AdminAssumption ==
  /\ TokenExpiry \in Nat
  /\ NoCookie \notin [user : Names, left : -1..TokenExpiry, signed : BOOLEAN]

VARIABLES account, cookie, tab, promised, area

accounts == <<account, cookie, tab, promised>>

Admin == INSTANCE Sessions

AdminInit == area \in {"settings", "sessions"} /\ Init /\ Admin!Init

AdminNext ==
  /\ UNCHANGED area
  /\ \/ area = "settings" /\ Next /\ UNCHANGED accounts
     \/ area = "sessions" /\ Admin!Next /\ UNCHANGED vars

AdminSpec == AdminInit /\ [][AdminNext]_<<vars, accounts, area>>

(* Types and ranges of both; no request stores a token without characters. *)
AdminTypeOK == TypeOK /\ Admin!TypeOK

(* A login holds for its 24 hours (auth.go:20); see Sessions. *)
SessionLasts == Admin!SessionLasts

(* Nobody logs in or changes the password but with the account's own. *)
CredentialsProved == Admin!CredentialsProved
=============================================================================
