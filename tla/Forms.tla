-------------------------------- MODULE Forms --------------------------------
(***************************************************************************)
(* Dynamic forms, their versions and submissions: api/forms.py and         *)
(* services/form_submission.py.                                            *)
(*                                                                         *)
(* An edit loads the form with its fields, changes rows, and writes a      *)
(* version from the collection that it has loaded: rows that it has added  *)
(* by their foreign key, or deleted, do not show in that collection.       *)
(***************************************************************************)
EXTENDS Integers, FiniteSets, SequencesExt

CONSTANTS
    Keys,           \* the keys a field may have
    Targets,        \* the service targets that are tried
    FormRequests,   \* requests in flight
    MaxFieldId,     \* bound: ids of form_fields
    MaxVersions,    \* bound: rows of form_versions
    MaxSubmissions  \* bound: rows of form_submissions

\* A handler of these targets commits the session itself; the others leave it to the end of
\* the request.  For "custom" no handler is registered, "none" routes nowhere.
Committing == {"sales", "orders", "inventory"}
ASSUME FormsAssumption ==
    /\ Targets \subseteq Committing \cup {"raw_materials", "custom", "none"}
    /\ IsFiniteSet(Keys) /\ MaxFieldId \in Nat /\ MaxVersions \in Nat

VARIABLES
    form,       \* the row of forms: its version and where it goes to ("inactive": nowhere)
    fields,     \* the rows of form_fields
    nextField,  \* the next id of form_fields
    versions,   \* the rows of form_versions
    subs,       \* the rows of form_submissions, with what their handler has done
    work,       \* work[r]: the request in flight
    overlapped, \* history: an edit was committed on fields or a version it had not read
    cut         \* history: submissions left without the answer that their handler's commit deserves

formVars == <<form, fields, nextField, versions, subs, work, overlapped, cut>>

NoForm == [version |-> 0]
NoWork == [pc |-> "idle"]
Field  == [id : 1..MaxFieldId, key : Keys]

FormsTypeOK ==
    /\ form = NoForm \/ form \in [version : 1..MaxVersions + 1, target : Targets \cup {"inactive"}]
    /\ fields \subseteq Field /\ nextField \in 1..MaxFieldId + 1
    /\ \A f, g \in fields : f.id = g.id => f = g
    /\ \A i \in DOMAIN versions : versions[i].n >= 1 /\ versions[i].of \subseteq Field
    /\ \A s \in DOMAIN subs : subs[s].status \in {"pending", "processed", "failed"}
    /\ (form = NoForm) => fields = {} /\ subs = <<>>
    /\ overlapped \in BOOLEAN /\ cut \subseteq DOMAIN subs

FormsInit ==
    /\ form = NoForm /\ fields = {} /\ nextField = 1
    /\ versions = <<>> /\ subs = <<>>
    /\ work = [r \in FormRequests |-> NoWork]
    /\ overlapped = FALSE /\ cut = {}

KeysOf(F)  == {f.key : f \in F}
\* New rows with these keys.
Fresh(K)   == {[id |-> nextField + i - 1, key |-> K[i]] : i \in 1..Len(K)}
FormIdle(r) == work' = [work EXCEPT ![r] = NoWork]

-----------------------------------------------------------------------------
(* Creating and deleting a form.                                            *)

\* create_form and seed_forms: the slug is unique; version 1 shows the form as created.
CreateForm(t, K) ==
    /\ form = NoForm /\ versions = <<>>
    /\ nextField + Cardinality(K) <= MaxFieldId + 1
    /\ fields' = Fresh(SetToSeq(K))
    /\ versions' = <<[n |-> 1, of |-> fields']>>
    /\ form' = [version |-> 1, target |-> t]
    /\ nextField' = nextField + Cardinality(K)
    /\ UNCHANGED <<subs, work, overlapped, cut>>

\* delete_form cascades to fields and versions.  A submission, even one that is not
\* committed yet, refers to the form and cannot be left without it; an edit that is on its
\* way will find no row to update.
DeleteForm ==
    /\ form # NoForm /\ subs = <<>>
    /\ \A r \in FormRequests : work[r].pc # "handle"
    /\ form' = NoForm /\ fields' = {} /\ versions' = <<>>
    /\ work' = [r \in FormRequests |-> NoWork]
    /\ overlapped' = FALSE
    /\ UNCHANGED <<nextField, subs, cut>>

-----------------------------------------------------------------------------
(* Edits.                                                                   *)

Edits(r, change) ==
    /\ work[r] = NoWork /\ form # NoForm
    /\ Len(versions) < MaxVersions
    /\ work' = [work EXCEPT ![r] = [pc |-> "edit", was |-> fields, version |-> form.version, by |-> change]]
    /\ UNCHANGED <<form, fields, nextField, versions, subs, overlapped, cut>>

\* Mutant: the key of another field is not looked for.
NewKeyLoose(k, F) == k \in Keys
\* add_field and update_field: the key is new in the form as it was loaded.
NewKey(k, F) == k \notin KeysOf(F)

AddField(r, k)       == NewKey(k, fields) /\ Edits(r, [op |-> "add", key |-> k])
UpdateField(r, f, k) == /\ f \in fields /\ (k # f.key => NewKey(k, fields \ {f}))
                        /\ Edits(r, [op |-> "set", field |-> f, key |-> k])
DeleteField(r, f)    == f \in fields /\ Edits(r, [op |-> "drop", field |-> f])
\* update_form and reorder_fields: no field comes or goes.
UpdateForm(r, t)     == Edits(r, [op |-> "meta", target |-> t])
RestoreVersion(r, i) == i \in DOMAIN versions /\ Edits(r, [op |-> "restore", of |-> versions[i].of])

\* The rows after the edit q.
Renamed(F, f, k) == {IF g.id = f.id THEN [g EXCEPT !.key = k] ELSE g : g \in F}
\* A restored version replaces the fields that were loaded.
Restored(F, was, new) == (F \ was) \cup new

Edited(q, new) ==
    CASE q.by.op = "add"     -> fields \cup new
      [] q.by.op = "set"     -> Renamed(fields, q.by.field, q.by.key)
      [] q.by.op = "drop"    -> {g \in fields : g.id # q.by.field.id}
      [] q.by.op = "meta"    -> fields
      [] q.by.op = "restore" -> Restored(fields, {g \in fields : \E f \in q.was : f.id = g.id}, new)

\* _create_version_snapshot walks form.fields, the loaded collection.
Snapshot(q) == IF q.by.op = "set" THEN Renamed(q.was, q.by.field, q.by.key) ELSE q.was

\* The keys that it inserts.
Inserted(q) == CASE q.by.op = "add"     -> <<q.by.key>>
                 [] q.by.op = "restore" -> [i \in 1..Cardinality(q.by.of) |-> SetToSeq(q.by.of)[i].key]
                 [] OTHER               -> <<>>

\* An UPDATE of a row that is gone fails the request; the DELETE of one does not.
EditCommit(r) ==
    LET q == work[r]
        gone == q.by.op = "set" /\ ~\E g \in fields : g.id = q.by.field.id
    IN  /\ q.pc = "edit"
        /\ FormIdle(r)
        /\ IF gone THEN UNCHANGED <<form, fields, nextField, versions, overlapped>>
           ELSE /\ nextField + Len(Inserted(q)) <= MaxFieldId + 1
                /\ fields' = Edited(q, Fresh(Inserted(q)))
                /\ nextField' = nextField + Len(Inserted(q))
                /\ versions' = Append(versions, [n |-> q.version + 1, of |-> Snapshot(q)])
                /\ form' = [version |-> q.version + 1,
                            target |-> IF q.by.op = "meta" THEN q.by.target ELSE form.target]
                /\ overlapped' = (overlapped \/ fields # q.was \/ form.version # q.version)
        /\ UNCHANGED <<subs, cut>>

-----------------------------------------------------------------------------
(* Submissions.                                                             *)

\* submit_form: the form is active and the required fields (all, here) are filled in; the
\* row is flushed, not committed.
SubmitBegin(r) ==
    /\ work[r] = NoWork /\ form # NoForm /\ form.target # "inactive"
    /\ Len(subs) + Cardinality({q \in FormRequests : work[q].pc = "handle"}) < MaxSubmissions
    /\ work' = [work EXCEPT ![r] = [pc |-> "handle", target |-> form.target, version |-> form.version]]
    /\ UNCHANGED <<form, fields, nextField, versions, subs, overlapped, cut>>

\* The handler commits what it has done, and the pending row with it.
HandlerCommits(r) ==
    /\ work[r].pc = "handle" /\ work[r].target \in Committing
    /\ subs' = Append(subs, [status |-> "pending", done |-> TRUE, target |-> work[r].target,
                            version |-> work[r].version])
    /\ work' = [work EXCEPT ![r] = [pc |-> "answer", sub |-> Len(subs) + 1]]
    /\ UNCHANGED <<form, fields, nextField, versions, overlapped, cut>>

\* FormSubmissionService.submit: an exception of the handler is the failure of the row, even one
\* that comes after the handler's commit.
Outcome(ok) == IF ok THEN "processed" ELSE "failed"

\* The handler raises, is missing, has nothing to do, or leaves the commit to the request.
SubmitAtOnce(r, ok) ==
    /\ work[r].pc = "handle"
    /\ ok => work[r].target \notin Committing \cup {"custom"}
    /\ ~ok => work[r].target # "none"
    /\ subs' = Append(subs, [status |-> Outcome(ok), done |-> ok, target |-> work[r].target,
                            version |-> work[r].version])
    /\ FormIdle(r)
    /\ UNCHANGED <<form, fields, nextField, versions, overlapped, cut>>

\* After its commit the handler goes on: it reads again what it has written, create_order
\* recomputes the order.  It returns, or one of these steps raises.
SubmitAnswer(r, ok) ==
    /\ work[r].pc = "answer"
    /\ subs' = [subs EXCEPT ![work[r].sub].status = Outcome(ok)]
    /\ cut' = IF ok THEN cut ELSE cut \cup {work[r].sub}
    /\ FormIdle(r)
    /\ UNCHANGED <<form, fields, nextField, versions, overlapped>>

\* The submissions, of the requests R, that their handlers have committed.
Sent(R) == {work[r].sub : r \in {q \in R : work[q].pc = "answer"}}

\* A statement fails, and the session with it (an error that the automation swallows, too): the
\* commit at the end of the request raises as well, and the row stays as the handler left it.
SubmitFails(r) ==
    /\ work[r].pc \in {"handle", "answer"}
    /\ cut' = cut \cup Sent({r})
    /\ FormIdle(r)
    /\ UNCHANGED <<form, fields, nextField, versions, subs, overlapped>>

\* The server stops; what is not committed is rolled back.
FormsCrash ==
    /\ \E r \in FormRequests : work[r] # NoWork
    /\ cut' = cut \cup Sent(FormRequests)
    /\ work' = [r \in FormRequests |-> NoWork]
    /\ UNCHANGED <<form, fields, nextField, versions, subs, overlapped>>

FormsNext ==
    \/ \E t \in Targets, K \in SUBSET Keys : CreateForm(t, K)
    \/ DeleteForm
    \/ \E r \in FormRequests :
          \/ EditCommit(r) \/ SubmitBegin(r) \/ HandlerCommits(r) \/ SubmitFails(r)
          \/ \E k \in Keys : AddField(r, k) \/ \E f \in fields : UpdateField(r, f, k)
          \/ \E f \in fields : DeleteField(r, f)
          \/ \E t \in Targets \cup {"inactive"} : UpdateForm(r, t)
          \/ \E i \in 1..MaxVersions : RestoreVersion(r, i)
          \/ \E ok \in BOOLEAN : SubmitAtOnce(r, ok) \/ SubmitAnswer(r, ok)
    \/ FormsCrash

FormsSpec == FormsInit /\ [][FormsNext]_formVars

-----------------------------------------------------------------------------
(* Properties.                                                              *)

\* While edits do not overlap, a form's keys are unique, its versions are numbered one by
\* one, and so are its fields and versions in step with current_version.
EditsInStep ==
    form # NoForm /\ ~overlapped =>
        /\ Cardinality(KeysOf(fields)) = Cardinality(fields)
        /\ form.version = Len(versions)
        /\ \A i \in DOMAIN versions : versions[i].n = i

\* The work of a submission that is not reported as failed is done.  One that is done without
\* being reported as processed is of a target whose handler commits, and it is still on its way,
\* or the server, the session or the handler has failed after that commit.
SubmissionTells ==
    \A s \in DOMAIN subs :
        /\ subs[s].done \/ subs[s].status = "failed"
        /\ subs[s].done /\ subs[s].status # "processed" =>
              subs[s].target \in Committing /\ (s \in cut \/ s \in Sent(FormRequests))

\* Fields, versions and submissions fit together.
FormsKept == EditsInStep /\ SubmissionTells

-----------------------------------------------------------------------------
(* What a comment of the code says, and the code does not do.               *)

\* forms.py:276 "Create a version snapshot of the current form state.": while edits do not
\* overlap, the last version shows the fields that the form has.  The fields that an edit
\* has added, deleted or restored are not in the collection it walks.
LastVersionIsForm ==
    form # NoForm /\ ~overlapped => KeysOf(versions[Len(versions)].of) = KeysOf(fields)
=============================================================================
