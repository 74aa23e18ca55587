-------------------------------- MODULE Catalog --------------------------------
(***************************************************************************)
(* The documents of a family that money is recorded against: financial     *)
(* accounts and categories, edited until they are archived, the default    *)
(* categories every start of the server seeds, and the capture templates   *)
(* that refer to both.  A request is a process that arrives with its first *)
(* database call, and every later call that matters here is a step; one    *)
(* refused at the first changes nothing and is left out.  The balance that *)
(* the answers about an account also carry is in Reports.                  *)
(***************************************************************************)
EXTENDS Naturals

CONSTANTS
  Pots,        \* ids of the family's financial accounts
  Customs,     \* ids of its custom categories
  Defaults,    \* the system categories
  Words,       \* names of templates, up to case
  Stencils,    \* ids of the capture templates
  NoStencil,   \* no template yet
  Erased,      \* a template deleted
  Same,        \* a field an edit does not give
  Tried,       \* the edits of a template that are tried
  Editors,     \* requests in flight at once
  MaxEdits     \* bound on the requests accepted

Records == Pots \cup Customs \cup Defaults
Kinds == {"income", "expense"}

(* Two spellings of a word differ in case. *)
Names == [word : Words, caps : BOOLEAN]

(* What a template stores, but for amount, note, family and author. *)
Forms == [name : Names, kind : Kinds, account : Pots, category : Customs \cup Defaults]
Patches == [name : Names \cup {Same}, kind : Kinds \cup {Same}, account : Pots \cup {Same},
            category : Customs \cup Defaults \cup {Same}]
NoPatch == [name |-> Same, kind |-> Same, account |-> Same, category |-> Same]

(* Of an account or category: its name and the rest of its fields as one   *)
(* text.  An account has no kind: it always has the same one here.         *)
Texts == {"first", "other"}
Documents == [there : BOOLEAN, kind : Kinds, text : Texts, archived : BOOLEAN]

ASSUME CatalogAssumption ==
  /\ MaxEdits \in Nat
  /\ NoStencil # Erased
  /\ {NoStencil, Erased} \cap (Records \cup Stencils \cup Forms) = {}
  /\ Tried \subseteq Patches
  /\ Same \notin Names \cup Kinds \cup Pots \cup Customs \cup Defaults

VARIABLES
  record,      \* record[x]: the account or category x
  template,    \* template[t]: the capture template t, if there is one
  editor,      \* editor[e]: the request e: next call, operation, target, values
  edits,       \* number of requests accepted, for MaxEdits
  \* history
  contested,   \* accounts and categories two requests worked on at once
  muddled,     \* templates two edits worked on at once
  rushed       \* two requests that give a template its name overlapped

catalogVars == <<record, template, editor, edits, contested, muddled, rushed>>

Free == [at |-> "idle", op |-> "none", target |-> NoStencil, given |-> NoPatch,
         form |-> NoPatch, text |-> "first"]

CatalogTypeOK ==
  /\ record \in [Records -> Documents]
  /\ template \in [Stencils -> Forms \cup {NoStencil, Erased}]
  /\ editor \in [Editors -> [at : {"idle", "change", "name", "account", "category", "write"},
                             op : {"none", "update", "archive", "unarchive", "create", "edit"},
                             target : Records \cup Stencils \cup {NoStencil},
                             given : Patches, form : Patches, text : Texts]]
  /\ edits \in Nat
  /\ contested \subseteq Records
  /\ muddled \subseteq Stencils
  /\ rushed \in BOOLEAN

CatalogInit ==
  /\ record = [x \in Records |->
                 [there |-> FALSE, kind |-> "expense", text |-> "first", archived |-> FALSE]]
  /\ template = [t \in Stencils |-> NoStencil]
  /\ editor = [e \in Editors |-> Free]
  /\ edits = 0
  /\ contested = {} /\ muddled = {} /\ rushed = FALSE

-----------------------------------------------------------------------------
Stored == {t \in Stencils : template[t] \notin {NoStencil, Erased}}

Proceed(e, stage) ==
  /\ editor' = [editor EXCEPT ![e].at = stage]
  /\ UNCHANGED <<edits, contested, muddled, rushed>>

(* The request is answered, with whatever status. *)
Done(e) ==
  /\ editor' = [editor EXCEPT ![e] = Free]
  /\ UNCHANGED <<edits, contested, muddled, rushed>>

Others(e, x) == {d \in Editors \ {e} : editor[d].target = x}
Naming(d) == editor[d].op \in {"create", "edit"} /\ editor[d].given.name # Same

Enter(e, what) ==
  /\ editor[e].at = "idle"
  /\ edits < MaxEdits
  /\ edits' = edits + 1
  /\ editor' = [editor EXCEPT ![e] = what]
  /\ contested' = IF what.target \in Records /\ Others(e, what.target) # {}
                    THEN contested \cup {what.target} ELSE contested
  /\ muddled' = IF what.target \in Stencils /\ Others(e, what.target) # {}
                  THEN muddled \cup {what.target} ELSE muddled
  /\ rushed' = (rushed \/ (what.given.name # Same /\ \E d \in Editors : Naming(d)))
  /\ UNCHANGED <<record, template>>

-----------------------------------------------------------------------------
(* Accounts and categories *)

(* createAccount, createCategory: one insert. *)
CreateRecord(x, kind) ==
  /\ x \notin Defaults
  /\ x \in Pots => kind = "expense"
  /\ ~record[x].there
  /\ record' = [record EXCEPT ![x].there = TRUE, ![x].kind = kind]
  /\ UNCHANGED <<template, editor, edits, contested, muddled, rushed>>

(* upsertSystem, of a start of any server: it inserts what is not there.   *)
SeedDefault(x, kind) ==
  /\ x \in Defaults
  /\ record' = IF record[x].there THEN record
                                  ELSE [record EXCEPT ![x].there = TRUE, ![x].kind = kind]
  /\ UNCHANGED <<template, editor, edits, contested, muddled, rushed>>

(* Mutant of FindRecord: it only looks at archivedAt.                      *)
FindAnyRecord(e, x, what, text) ==
  /\ record[x].there
  /\ record[x].archived = (what = "unarchive")
  /\ Enter(e, [at |-> "change", op |-> what, target |-> x,
               given |-> NoPatch, form |-> NoPatch, text |-> text])

(* updateAccount, renameCategory, archive and unarchive of both begin with *)
(* requireInFamily or requireOwnCustom: a system category is answered 403; *)
(* an edit of an archived document 409; archiving or unarchiving one that  *)
(* is so already is a no-op.                                               *)
FindRecord(e, x, what, text) ==
  /\ x \notin Defaults
  /\ record[x].there
  /\ record[x].archived = (what = "unarchive")
  /\ Enter(e, [at |-> "change", op |-> what, target |-> x,
               given |-> NoPatch, form |-> NoPatch, text |-> text])

(* updateInFamily, renameCustom and setArchived filter by id, not by       *)
(* archivedAt.                                                             *)
ChangeRecord(e) ==
  /\ editor[e].at = "change"
  /\ LET x == editor[e].target IN
       record' = IF editor[e].op = "update"
                   THEN [record EXCEPT ![x].text = editor[e].text]
                   ELSE [record EXCEPT ![x].archived = (editor[e].op = "archive")]
  /\ Done(e)
  /\ UNCHANGED template

-----------------------------------------------------------------------------
(* Capture templates *)

(* The fields the patch p gives, over the form old. *)
Patched(p, old) ==
  LET value(f) == IF p[f] = Same THEN old[f] ELSE p[f]
  IN [name |-> value("name"), kind |-> value("kind"),
      account |-> value("account"), category |-> value("category")]

(* Templates other than t whose name agrees with n. *)
Namesakes(t, n, agree(_, _)) == {u \in Stored \ {t} : agree(template[u].name, n)}

(* The unique index compares names as they are spelled, the expression of   *)
(* existsByName ignores case (and its mutant does not).                     *)
Exactly(m, n) == m = n

UpToCase(m, n) == m.word = n.word

(* create begins with assertNameFree. *)
BeginTemplate(e, form) ==
  /\ Namesakes(NoStencil, form.name, UpToCase) = {}
  /\ Enter(e, [at |-> "account", op |-> "create", target |-> NoStencil,
               given |-> form, form |-> form, text |-> "first"])

(* update begins with requireInFamily; an edit without a field is refused  *)
(* (400); what is validated is the patch over the document read.           *)
LookTemplate(e, t, patch) ==
  /\ t \in Stored
  /\ patch # NoPatch
  /\ Enter(e, [at |-> IF patch.name = Same THEN "account" ELSE "name", op |-> "edit",
               target |-> t, given |-> patch, form |-> Patched(patch, template[t]),
               text |-> "first"])

(* assertNameFree of an edit, which leaves the template itself out.        *)
NameFree(e) ==
  /\ editor[e].at = "name"
  /\ IF Namesakes(editor[e].target, editor[e].form.name, UpToCase) # {}
       THEN Done(e) ELSE Proceed(e, "account")
  /\ UNCHANGED <<record, template>>

(* The references as withAvailability resolves them, of a template's form. *)
AccountAvailable(form) == record[form.account].there /\ ~record[form.account].archived
CategoryActive(form) == record[form.category].there /\ ~record[form.category].archived
CategoryAvailable(form) == CategoryActive(form) /\ record[form.category].kind = form.kind

ValidateAccount(e) ==
  /\ editor[e].at = "account"
  /\ IF AccountAvailable(editor[e].form) THEN Proceed(e, "category") ELSE Done(e)
  /\ UNCHANGED <<record, template>>

(* Mutant of ValidateCategory: the kind is compared with the given type.   *)
ValidateCategoryGiven(e) ==
  /\ editor[e].at = "category"
  /\ IF CategoryActive(editor[e].form)
          /\ editor[e].given.kind \in {Same, record[editor[e].form.category].kind}
       THEN Proceed(e, "write") ELSE Done(e)
  /\ UNCHANGED <<record, template>>

ValidateCategory(e) ==
  /\ editor[e].at = "category"
  /\ IF CategoryAvailable(editor[e].form) THEN Proceed(e, "write") ELSE Done(e)
  /\ UNCHANGED <<record, template>>

(* templates.create: the unique index refuses a name spelled the same.     *)
InsertTemplate(e) ==
  /\ editor[e].at = "write" /\ editor[e].op = "create"
  /\ IF Namesakes(NoStencil, editor[e].form.name, Exactly) # {}
       THEN UNCHANGED template
       ELSE \E t \in Stencils :
              template[t] = NoStencil /\ template' = [template EXCEPT ![t] = editor[e].form]
  /\ Done(e)
  /\ UNCHANGED record

(* findOneAndUpdate with the fields given, unless the template is gone by  *)
(* then: the request is answered with what it had read.                    *)
WriteTemplate(e) ==
  /\ editor[e].at = "write" /\ editor[e].op = "edit"
  /\ LET t == editor[e].target
         new == Patched(editor[e].given, template[t])
     IN template' = IF t \notin Stored \/ Namesakes(t, new.name, Exactly) # {}
                      THEN template ELSE [template EXCEPT ![t] = new]
  /\ Done(e)
  /\ UNCHANGED record

DeleteTemplate(t) ==
  /\ t \in Stored
  /\ template' = [template EXCEPT ![t] = Erased]
  /\ UNCHANGED <<record, editor, edits, contested, muddled, rushed>>

-----------------------------------------------------------------------------
(* A call rejects, or the server dies: nothing of the request runs any more. *)
EditorFails(e) ==
  /\ editor[e].at # "idle"
  /\ Done(e)
  /\ UNCHANGED <<record, template>>

Edits(e) ==
  \/ \E x \in Records, what \in {"archive", "unarchive"} : FindRecord(e, x, what, "first")
  \/ \E x \in Records, text \in Texts : FindRecord(e, x, "update", text)
  \/ \E form \in Forms : BeginTemplate(e, form)
  \/ \E t \in Stencils, patch \in Tried : LookTemplate(e, t, patch)
  \/ ChangeRecord(e)
  \/ NameFree(e) \/ ValidateAccount(e) \/ ValidateCategory(e)
  \/ InsertTemplate(e) \/ WriteTemplate(e)
  \/ EditorFails(e)

CatalogNext ==
  \/ \E e \in Editors : Edits(e)
  \/ \E x \in Records, kind \in Kinds : CreateRecord(x, kind) \/ SeedDefault(x, kind)
  \/ \E t \in Stencils : DeleteTemplate(t)

CatalogSpec == CatalogInit /\ [][CatalogNext]_catalogVars

-----------------------------------------------------------------------------
(* Properties *)

(* A system category never changes once seeded, however often servers      *)
(* start, and an archived account or custom category is read-only (FR-009a) *)
(* until it is unarchived, unless an edit of it overlapped the archiving.  *)
ReadOnlyStays ==
  [][\A x \in Records :
       record[x].there
         /\ (x \in Defaults
               \/ (record[x].archived /\ record'[x].archived /\ x \notin contested'))
       => record'[x] = record[x]]_catalogVars

(* No two templates have one name; nor one name up to case, which the      *)
(* index behind the service's check does not see, unless two requests that *)
(* name a template overlapped.                                             *)
TemplateNamesApart ==
  \A t, u \in Stored :
    t # u => /\ template[t].name # template[u].name
             /\ ~rushed => template[t].name.word # template[u].name.word

(* The category of a template is out of use only because it was archived:  *)
(* its kind is the template's after any sequence of partial edits, unless  *)
(* two of them overlapped.                                                 *)
TemplateKindsMatch ==
  \A t \in Stored \ muddled : CategoryAvailable(template[t]) <=> CategoryActive(template[t])

Matched(form) == record[form.category].there /\ record[form.category].kind = form.kind

(* What a request has read or checked is still so when it writes, unless   *)
(* another one has worked on the same document meanwhile.                  *)
EditorOK(e) ==
  LET q == editor[e]
  IN /\ q.at = "idle" => q.op = "none" /\ q.target = NoStencil
     /\ q.at = "change" =>
          /\ q.op \in {"update", "archive", "unarchive"}
          /\ q.target \in Records \ Defaults
          /\ q.target \notin contested => record[q.target].archived = (q.op = "unarchive")
     /\ q.at \in {"name", "account", "category", "write"} =>
          q.op \in {"create", "edit"} /\ q.form \in Forms
     /\ q.op = "create" => q.at # "name" /\ q.target = NoStencil /\ q.given = q.form
     /\ q.op = "edit" =>
          /\ q.target \in Stencils /\ template[q.target] # NoStencil
          /\ q.given.name # Same => q.form.name = q.given.name
          /\ q.at = "name" => q.given.name # Same
          /\ q.target \in Stored \ muddled => q.form = Patched(q.given, template[q.target])
     /\ Naming(e) /\ q.at \in {"account", "category", "write"} /\ ~rushed =>
          Namesakes(q.target, q.form.name, UpToCase) = {}
     /\ q.at = "write" => Matched(q.form)

EditorsApart ==
  \A d, e \in Editors : d # e =>
    /\ editor[d].target = editor[e].target =>
         /\ editor[e].target \in Records => editor[e].target \in contested
         /\ editor[e].target \in Stencils => editor[e].target \in muddled
    /\ Naming(d) /\ Naming(e) => rushed

(* Why the three hold: it is inductive. *)
CatalogInv ==
  /\ CatalogTypeOK
  /\ \A e \in Editors : EditorOK(e)
  /\ EditorsApart
  /\ TemplateNamesApart
  /\ \A t \in Stored \ muddled : Matched(template[t])
=============================================================================
