------------------------------ MODULE MCServices ------------------------------
(* The services that share no state with each other, for TLC: in each      *)
(* behaviour one of them, part, works and the others stay as they begin.   *)
EXTENDS Transfers, Credentials, Catalog, Reminders, Reports, TLC

VARIABLE part  \* the service that works

Parts == {"transfers", "credentials", "catalog", "reminders", "reports"}

ServicesInit ==
  /\ part \in Parts
  /\ Init /\ CredentialsInit /\ CatalogInit /\ RemindersInit /\ ReportsInit
  /\ part = "reports" \/ Listed("all") = {}

ServicesNext ==
  /\ UNCHANGED part
  /\ \/ part = "transfers" /\ Next
        /\ UNCHANGED <<credentialVars, catalogVars, reminderVars, reportVars>>
     \/ part = "credentials" /\ CredentialsNext
        /\ UNCHANGED <<vars, catalogVars, reminderVars, reportVars>>
     \/ part = "catalog" /\ CatalogNext
        /\ UNCHANGED <<vars, credentialVars, reminderVars, reportVars>>
     \/ part = "reminders" /\ RemindersNext
        /\ UNCHANGED <<vars, credentialVars, catalogVars, reportVars>>
     \/ part = "reports" /\ ReportsNext
        /\ UNCHANGED <<vars, credentialVars, catalogVars, reminderVars>>

ServicesVars == <<part, vars, credentialVars, catalogVars, reminderVars, reportVars>>
ServicesSpec == ServicesInit /\ [][ServicesNext]_ServicesVars

(* The requests of every service have the same names, so have templates and *)
(* wallets: fewer permutations to compare.                                 *)
Symmetry == UNION {Permutations(S) : S \in {Requests, Accounts, Stencils}}

(* The edits of a template that are tried: each gives one field, its name, *)
(* its kind or its category.                                               *)
MCTried ==
  {p \in Patches : /\ p.account = Same
                   /\ Cardinality({k \in {"name", "kind", "category"} : p[k] # Same}) = 1}

(* The edits of a transfer that are tried: of its accounts, or of its      *)
(* detail, of which there is one.                                          *)
MCAmended == {p \in Dtos : DOMAIN p \in (SUBSET {"from", "to"} \ {{}}) \cup {{"detail"}}}

(* What is recorded and asked for lies around the turn of a year.          *)
MCDays == {DayNumber(2023, 12, 31), DayNumber(2024, 1, 1)}

(* The inductive invariants of the five.                                   *)
ServicesInv ==
  TransfersInv /\ CredentialsInv /\ CatalogInv /\ RemindersInv /\ ReportsInv
=============================================================================
