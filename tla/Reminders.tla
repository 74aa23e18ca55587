------------------------------- MODULE Reminders -------------------------------
(***************************************************************************)
(* The reminders of one member.  Every query filters by owner and family,  *)
(* so members share nothing.  A request arrives with its first database    *)
(* call and every later one is a step; a request refused before it writes  *)
(* changes nothing and is left out.                                        *)
(***************************************************************************)
EXTENDS Naturals, FiniteSets

CONSTANTS
  Bells,         \* ids of the reminders
  NoBell,        \* no reminder yet
  Removed,       \* a reminder deleted
  MaxReminders,  \* MAX_REMINDERS_PER_MEMBER
  Phones,        \* requests in flight at once
  MaxOrders      \* bound on the requests accepted

(* What matters of a reminder's configuration: time of day and enabled     *)
(* constrain nothing else.                                                 *)
Cadences == {"daily", "weekly", "monthly"}
Selectors == {"null", "day"}
Configs == [cadence : Cadences, dayOfWeek : Selectors, dayOfMonth : Selectors,
            purpose : {"capture", "custom"}, label : {"null", "text"}]

(* A dto: "absent" is a field not given.  An edit gives the schedule, the  *)
(* purpose (the two are validated apart), or of these nothing: an edit of  *)
(* the time or of enabled alone still writes all of them back.             *)
Given(values) == values \cup {"absent"}
Giving(cadence, day, purpose, label) ==
  [cadence : cadence, dayOfWeek : day, dayOfMonth : day, purpose : purpose, label : label]
Updates ==
  Giving(Given(Cadences), Given(Selectors), {"absent"}, {"absent"})
    \cup Giving({"absent"}, {"absent"}, Given({"capture", "custom"}), Given({"null", "text"}))

ASSUME RemindersAssumption ==
  /\ MaxReminders \in Nat \ {0} /\ MaxOrders \in Nat
  /\ IsFiniteSet(Bells) /\ IsFiniteSet(Phones)

VARIABLES
  reminder,   \* reminder[b]: the stored configuration of b
  phone,      \* phone[p]: the request p: next call, target, what it will write
  orders      \* number of requests accepted, for MaxOrders

reminderVars == <<reminder, phone, orders>>

Plain == [cadence |-> "daily", dayOfWeek |-> "null", dayOfMonth |-> "null",
          purpose |-> "capture", label |-> "null"]
Quiet == [at |-> "idle", target |-> NoBell, config |-> Plain]

RemindersTypeOK ==
  /\ reminder \in [Bells -> Configs \cup {NoBell, Removed}]
  /\ phone \in [Phones -> [at : {"idle", "insert", "update"}, target : Bells \cup {NoBell},
                           config : Configs]]
  /\ orders \in Nat

RemindersInit ==
  /\ reminder = [b \in Bells |-> NoBell]
  /\ phone = [p \in Phones |-> Quiet]
  /\ orders = 0

-----------------------------------------------------------------------------
Existing == {b \in Bells : reminder[b] \notin {NoBell, Removed}}

(* normalizeSelectors and assertLabel accept c: each cadence requires its  *)
(* selector and takes no other, and a custom reminder requires a label.    *)
Coherent(c) ==
  /\ c.dayOfWeek = "day" <=> c.cadence = "weekly"
  /\ c.dayOfMonth = "day" <=> c.cadence = "monthly"
  /\ c.purpose = "custom" => c.label = "text"

(* The effective configuration of an update: a selector falls back to the  *)
(* stored one only while its cadence stays.                                *)
Effective(dto, old) ==
  LET or(f) == IF dto[f] = "absent" THEN old[f] ELSE dto[f]
      selector(f, cadence) ==
        IF dto[f] # "absent" THEN dto[f]
        ELSE IF or("cadence") = cadence /\ old.cadence = cadence THEN old[f]
        ELSE "null"
  IN [cadence |-> or("cadence"), dayOfWeek |-> selector("dayOfWeek", "weekly"),
      dayOfMonth |-> selector("dayOfMonth", "monthly"), purpose |-> or("purpose"),
      label |-> or("label")]

Order(p, stage, b, config) ==
  /\ phone[p].at = "idle"
  /\ orders < MaxOrders
  /\ orders' = orders + 1
  /\ phone' = [phone EXCEPT ![p] = [at |-> stage, target |-> b, config |-> config]]
  /\ UNCHANGED reminder

Finish(p) ==
  /\ phone' = [phone EXCEPT ![p] = Quiet]
  /\ UNCHANGED orders

(* Mutant of BeginReminder: the cap is passed by one.                      *)
BeginReminderPast(p, config) ==
  /\ Coherent(config)
  /\ Cardinality(Existing) <= MaxReminders
  /\ Order(p, "insert", NoBell, config)

(* create validates its configuration, then counts. *)
BeginReminder(p, config) ==
  /\ Coherent(config)
  /\ Cardinality(Existing) < MaxReminders
  /\ Order(p, "insert", NoBell, config)

InsertReminder(p) ==
  /\ phone[p].at = "insert"
  /\ \E b \in Bells :
       /\ reminder[b] = NoBell
       /\ reminder' = [reminder EXCEPT ![b] = phone[p].config]
  /\ Finish(p)

(* requireForOwner, and the validation of the configuration that results.  *)
BeginUpdateReminder(p, b, dto) ==
  /\ b \in Existing
  /\ Coherent(Effective(dto, reminder[b]))
  /\ Order(p, "update", b, Effective(dto, reminder[b]))

(* Mutant of UpdateReminder: the write leaves out the selectors that the   *)
(* new cadence does not use.                                               *)
UpdateUsedFields(p) ==
  /\ phone[p].at = "update"
  /\ LET b == phone[p].target
         c == phone[p].config
         used(f) == IF c[f] = "null" THEN reminder[b][f] ELSE c[f]
     IN reminder' =
          IF b \in Existing
            THEN [reminder EXCEPT ![b] = [c EXCEPT !.dayOfWeek = used("dayOfWeek"),
                                                   !.dayOfMonth = used("dayOfMonth")]]
            ELSE reminder
  /\ Finish(p)

(* findOneAndUpdate with the whole configuration; of a reminder deleted    *)
(* meanwhile nothing is written.                                           *)
UpdateReminder(p) ==
  /\ phone[p].at = "update"
  /\ LET b == phone[p].target IN
       reminder' = IF b \in Existing THEN [reminder EXCEPT ![b] = phone[p].config]
                                     ELSE reminder
  /\ Finish(p)

DeleteReminder(b) ==
  /\ b \in Existing
  /\ reminder' = [reminder EXCEPT ![b] = Removed]
  /\ UNCHANGED <<phone, orders>>

(* A call rejects, or the server dies. *)
PhoneFails(p) ==
  /\ phone[p].at # "idle"
  /\ Finish(p)
  /\ UNCHANGED reminder

RemindersNext ==
  \/ \E p \in Phones :
       \/ \E c \in Configs : BeginReminder(p, c)
       \/ \E b \in Bells, dto \in Updates : BeginUpdateReminder(p, b, dto)
       \/ InsertReminder(p) \/ UpdateReminder(p) \/ PhoneFails(p)
  \/ \E b \in Bells : DeleteReminder(b)

RemindersSpec == RemindersInit /\ [][RemindersNext]_reminderVars

-----------------------------------------------------------------------------
(* Properties *)

(* The cap on a member's reminders (FR-009) is counted before the insert:  *)
(* it can be passed, but only by the requests in flight besides one.       *)
RemindersCapped == Cardinality(Existing) <= MaxReminders + Cardinality(Phones) - 1

(* A stored reminder has exactly the selector of its cadence, and a custom *)
(* one its label (FR-004), also after edits that raced, each validated     *)
(* against what the other replaces.                                        *)
RemindersCoherent == \A b \in Existing : Coherent(reminder[b])

(* What makes them inductive: what a request is about to write is coherent *)
(* too, because it writes back all of the configuration it validated; and  *)
(* the cap counts the inserts to come.                                     *)
PendingCoherent == \A p \in Phones : phone[p].at # "idle" => Coherent(phone[p].config)
Inserting == {p \in Phones : phone[p].at = "insert"}
CapWithInserts ==
  Cardinality(Existing) + Cardinality(Inserting) <= MaxReminders + Cardinality(Phones) - 1
RemindersInv ==
  RemindersTypeOK /\ PendingCoherent /\ RemindersCoherent /\ CapWithInserts
=============================================================================
