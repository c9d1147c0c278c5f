------------------------------ MODULE OperatorLog ------------------------------
(***************************************************************************)
(* The contact log of the client across a switch of operator.  Every frame *)
(* of the UI takes a snapshot, drains WSJT-X contacts and the replies of   *)
(* the export worker, draws, handles a click, and last opens the log of    *)
(* the operator it saw in the snapshot (sync_log_state).  The worker reads *)
(* the database its job names; what it found is applied to the one open.   *)
(***************************************************************************)
EXTENDS Integers, Sequences, FiniteSets, FiniteSetsExt

CONSTANTS Operators, Keys,  \* contacts as call, band and mode tell them apart
          FileKeys,         \* the contacts in the ADIF file to import
          MaxRows,          \* bound on the row ids of a log
          MaxClicks,        \* bound on the operator's clicks
          None

VARIABLES op,        \* UiState.operator_id
          phase,     \* of the frame: "start", "drain", "click" or "end"
          snap,      \* operator_id in the frame's snapshot
          openFor,   \* log_open_for: whose log is open
          logs,      \* the databases: sets of rows
          uploaded,  \* row ids marked uploaded, of each log
          confirmed, \* row ids confirmed by a service, of each log
          worked,    \* worked_before: the index of what the open log has
          jobs,      \* to the export worker, in order
          events,    \* from it, in order
          querySeq,  \* contacts_query_seq
          cache,     \* contacts_cache: rows listed
          dirty,     \* contacts_cache_dirty
          view,      \* show_contact_view
          selection, \* selected_contacts, with the log each was selected in
          dialogs,   \* edit_contact and delete_contact, with the log each was opened in
          plan,      \* import_plan, with the log it was made for
          busy,      \* sync_busy
          misplaced, \* what was applied to another log than it came from
          clicks

marks == <<uploaded, confirmed>>
log == <<logs, marks, worked>>
picked == <<selection, dialogs>>
ui == <<querySeq, cache, dirty, view, picked, plan, busy>>
frame == <<op, phase, snap, openFor>>
vars == <<frame, log, jobs, events, ui, misplaced, clicks>>

Ids == 1..MaxRows
Rows == [id : Ids, key : Keys]
Replies == {"uploaded", "downloaded"}
Jobs == [kind : {"query"}, log : Operators, seq : Nat]
        \cup [kind : {"plan", "upload", "download"}, log : Operators]
Events == [kind : {"contacts"}, seq : Nat, rows : SUBSET Rows]
          \cup [kind : {"planned"}, log : Operators, keys : SUBSET FileKeys]
          \cup [kind : Replies, log : Operators, ids : SUBSET Ids]

\* Every variable has its type.
TypeOK == /\ {op, snap, openFor} \subseteq Operators
          /\ phase \in {"start", "drain", "click", "end"}
          /\ logs \in [Operators -> SUBSET Rows]
          /\ {uploaded, confirmed} \subseteq [Operators -> SUBSET Ids]
          /\ worked \subseteq Keys
          /\ jobs \in Seq(Jobs) /\ events \in Seq(Events)
          /\ querySeq \in Nat /\ cache \subseteq Rows
          /\ {dirty, view, busy} \subseteq BOOLEAN
          /\ selection \subseteq [id : Ids, log : Operators]
          /\ dialogs \subseteq [kind : {"edit", "delete"}, id : Ids, log : Operators]
          /\ plan \in [log : Operators, keys : SUBSET FileKeys] \cup {None}
          /\ misplaced \subseteq {"delete", "edit", "import", "upload", "download"}
          /\ clicks \in 0..MaxClicks

Init == /\ op \in Operators /\ snap = op /\ openFor = op /\ phase = "start"
        /\ logs \in [Operators -> {{}, {[id |-> 1, key |-> CHOOSE k \in Keys : TRUE]}}]
        /\ uploaded = [o \in Operators |-> {}] /\ confirmed = uploaded
        /\ worked = {r.key : r \in logs[op]}
        /\ jobs = <<>> /\ events = <<>> /\ querySeq = 0 /\ cache = {}
        /\ dirty = TRUE /\ view \in BOOLEAN /\ selection = {} /\ dialogs = {}
        /\ plan = None /\ busy = FALSE /\ misplaced = {} /\ clicks = 0

NextId(table) == Max({r.id : r \in table} \cup {0}) + 1
KeysOf(table) == {r.key : r \in table}

\* The table with a row for each key, under new ids.
Inserted(table, keys) ==
  CHOOSE t \in SUBSET Rows :
    /\ table \subseteq t /\ Cardinality(t) = Cardinality(table) + Cardinality(keys)
    /\ {r.key : r \in t \ table} = keys
    /\ {r.id : r \in t \ table} = NextId(table)..(NextId(table) + Cardinality(keys) - 1)

Fits(table, keys) == NextId(table) + Cardinality(keys) - 1 <= MaxRows

Note(what, of) == misplaced' = IF of = openFor THEN misplaced ELSE misplaced \cup {what}

\* Slip: the index keeps what it has.
WorkedOnly(table) == worked \cup KeysOf(table)

\* load_worked_before, after each change that is more than one contact.
WorkedIn(table) == KeysOf(table)

\* The open log becomes `table`; the list is read again.
Change(table) == /\ logs' = [logs EXCEPT ![openFor] = table]
                 /\ worked' = WorkedIn(table)
                 /\ dirty' = TRUE

-----------------------------------------------------------------------------
(* The frame.                                                                *)

BeginFrame == /\ phase = "start"
              /\ phase' = "drain" /\ snap' = op
              /\ UNCHANGED <<op, openFor, log, jobs, events, ui, misplaced, clicks>>

\* log_contact: the row is stored first, then noted in the index.
LogContact(k) == /\ Fits(logs[openFor], {k})
                 /\ logs' = [logs EXCEPT ![openFor] = Inserted(@, {k})]
                 /\ worked' = worked \cup {k}
                 /\ dirty' = TRUE

\* drain_wsjtx_events: a contact the log already has is skipped.
WsjtxContact == /\ phase = "drain"
                /\ \E k \in Keys \ KeysOf(logs[openFor]) : LogContact(k)
                /\ UNCHANGED <<frame, marks, jobs, events, querySeq, cache, view, picked,
                               plan, busy, misplaced, clicks>>

\* Replies for a filter or a log that was left are dropped by their number.
ListContacts(e) == /\ e.kind = "contacts"
                   /\ cache' = IF e.seq = querySeq THEN e.rows ELSE cache
                   /\ UNCHANGED <<marks, worked, dirty, plan, busy, misplaced>>

KeepPlan(e) == /\ e.kind = "planned"
               /\ plan' = [log |-> e.log, keys |-> e.keys]
               /\ UNCHANGED <<marks, worked, cache, dirty, busy, misplaced>>

\* apply_upload, apply_download: all rows are marked, or none when one is gone.
Applies(e) == e.ids \subseteq {r.id : r \in logs[openFor]}

ApplyUpload(e) == /\ e.kind = "uploaded" /\ Applies(e)
                  /\ uploaded' = [uploaded EXCEPT ![openFor] = @ \cup e.ids]
                  /\ UNCHANGED <<confirmed, worked>>

ApplyDownload(e) == /\ e.kind = "downloaded" /\ Applies(e)
                    /\ confirmed' = [confirmed EXCEPT ![openFor] = @ \cup e.ids]
                    /\ worked' = WorkedIn(logs[openFor])
                    /\ UNCHANGED uploaded

\* apply_service_sync.
ApplySync(e) == /\ e.kind \in Replies
                /\ busy' = FALSE
                /\ \/ /\ ApplyUpload(e) \/ ApplyDownload(e)
                      /\ dirty' = TRUE
                      /\ IF e.ids = {} THEN UNCHANGED misplaced
                         ELSE Note(IF e.kind = "uploaded" THEN "upload" ELSE "download", e.log)
                   \/ ~Applies(e) /\ UNCHANGED <<marks, worked, dirty, misplaced>>
                /\ UNCHANGED <<cache, plan>>

DrainEvent == /\ phase = "drain" /\ events # <<>>
              /\ LET e == Head(events) IN ListContacts(e) \/ KeepPlan(e) \/ ApplySync(e)
              /\ events' = Tail(events)
              /\ UNCHANGED <<frame, logs, jobs, querySeq, view, picked, clicks>>

\* maybe_requery_contacts, when the contact view is drawn; its path comes from
\* the snapshot.
Draw == /\ phase = "drain" /\ events = <<>>
        /\ phase' = "click"
        /\ IF view /\ dirty
           THEN /\ dirty' = FALSE /\ querySeq' = querySeq + 1
                /\ jobs' = Append(jobs, [kind |-> "query", log |-> snap, seq |-> querySeq'])
           ELSE UNCHANGED <<dirty, querySeq, jobs>>
        /\ UNCHANGED <<op, snap, openFor, log, events, cache, view, picked,
                       plan, busy, misplaced, clicks>>

\* Slip: the list is kept as it is.
TearDownQuietly(table) == cache' = {} /\ worked' = WorkedIn(table) /\ UNCHANGED dirty

TearDown(table) == cache' = {} /\ worked' = WorkedIn(table) /\ dirty' = TRUE

\* sync_log_state, with the operator of the snapshot.
SyncLog == /\ phase = "end"
           /\ phase' = "start" /\ openFor' = snap
           /\ IF snap = openFor THEN UNCHANGED <<cache, dirty, worked>> ELSE TearDown(logs[snap])
           /\ UNCHANGED <<op, snap, logs, marks, jobs, events, querySeq, view,
                          picked, plan, busy, misplaced, clicks>>

-----------------------------------------------------------------------------
(* Clicks, at most one a frame.                                              *)

Click == /\ phase = "click" /\ clicks < MaxClicks
         /\ phase' = "end" /\ clicks' = clicks + 1
         /\ UNCHANGED <<snap, openFor, events, querySeq, cache>>

SwitchOperator == /\ Click
                  /\ op' \in Operators \ {op}
                  /\ UNCHANGED <<log, jobs, dirty, view, picked, plan, busy, misplaced>>

ToggleView == /\ Click
              /\ view' = ~view
              /\ UNCHANGED <<op, log, jobs, dirty, picked, plan, busy, misplaced>>

\* commit_log_entry: the entry window warns of a contact already logged, and logs it.
EnterContact == /\ Click
                /\ \E k \in Keys : LogContact(k)
                /\ UNCHANGED <<op, marks, jobs, view, picked, plan, busy, misplaced>>

\* The rows shown are those of the open log, but for a late reply.
Select == /\ Click /\ view
          /\ \E r \in cache : selection' = selection \cup {[id |-> r.id, log |-> openFor]}
          /\ UNCHANGED <<op, log, jobs, dirty, view, dialogs, plan, busy, misplaced>>

\* The rows a delete leaves of the open log.
Without(ids) ==
    /\ Change({r \in logs[openFor] : r.id \notin ids})
    /\ uploaded' = [uploaded EXCEPT ![openFor] = @ \ ids]
    /\ confirmed' = [confirmed EXCEPT ![openFor] = @ \ ids]

Has(id) == \E r \in logs[openFor] : r.id = id

\* "Delete selected" and its confirmation.
DeleteSelected == /\ Click /\ selection # {}
                  /\ LET own == {s.id : s \in {s \in selection : s.log = openFor}}
                         ids == {s.id : s \in selection}
                     IN /\ Without(ids)
                        /\ misplaced' = IF \E id \in ids \ own : Has(id)
                                        THEN misplaced \cup {"delete"} ELSE misplaced
                  /\ selection' = {}
                  /\ UNCHANGED <<op, jobs, view, dialogs, plan, busy>>

\* "Edit" and "Delete" of a row; the windows stay when the operator goes elsewhere.
OpenDialog == /\ Click /\ view
              /\ \E r \in cache, kind \in {"edit", "delete"} :
                   dialogs' = {d \in dialogs : d.kind # kind}
                                \cup {[kind |-> kind, id |-> r.id, log |-> openFor]}
              /\ UNCHANGED <<op, log, jobs, dirty, view, selection, plan, busy, misplaced>>

\* update_qso, delete_qso: a row that is gone is passed over.
CloseDialog(d) == /\ Click /\ d \in dialogs
                  /\ dialogs' = dialogs \ {d}
                  /\ IF Has(d.id) THEN Note(d.kind, d.log) ELSE UNCHANGED misplaced
                  /\ UNCHANGED <<op, jobs, view, selection, plan, busy>>

SaveEdit == \E d \in dialogs, k \in Keys :
              /\ d.kind = "edit" /\ CloseDialog(d)
              /\ Change({IF r.id = d.id THEN [r EXCEPT !.key = k] ELSE r : r \in logs[openFor]})
              /\ UNCHANGED marks

ConfirmDelete == \E d \in dialogs :
                   d.kind = "delete" /\ CloseDialog(d) /\ Without({d.id})

ChooseFile == /\ Click
              /\ plan' = None
              /\ jobs' = Append(jobs, [kind |-> "plan", log |-> snap])
              /\ UNCHANGED <<op, log, dirty, view, picked, busy, misplaced>>

\* LogStore::commit_import: one transaction.
Imported(keys) == Fits(logs[openFor], keys) /\ Change(Inserted(logs[openFor], keys))

CommitImport == /\ Click /\ plan # None /\ plan.keys # {}
                /\ Imported(plan.keys)
                /\ plan' = None
                /\ Note("import", plan.log)
                /\ UNCHANGED <<op, marks, jobs, view, picked, busy>>

Sync == /\ Click /\ ~busy
        /\ busy' = TRUE
        /\ \E kind \in {"upload", "download"} :
             jobs' = Append(jobs, [kind |-> kind, log |-> snap])
        /\ UNCHANGED <<op, log, dirty, view, picked, plan, misplaced>>

NoClick == /\ phase = "click" /\ phase' = "end"
           /\ UNCHANGED <<op, snap, openFor, log, jobs, events, ui, misplaced, clicks>>

-----------------------------------------------------------------------------
(* The worker.  Of queries queued together only the last is run.             *)

Superseded(i) == jobs[i].kind = "query" /\ \E j \in (i + 1)..Len(jobs) : jobs[j].kind = "query"

\* plan_inner: what the log has is a duplicate.
Planned(table) == FileKeys \ KeysOf(table)

\* run_upload, run_download: all rows not yet uploaded, or those the service confirms.
Answer(j) ==
  LET ids == {r.id : r \in logs[j.log]} IN
  CASE j.kind = "query" -> {[kind |-> "contacts", seq |-> j.seq, rows |-> logs[j.log]]}
    [] j.kind = "plan" -> {[kind |-> "planned", log |-> j.log, keys |-> Planned(logs[j.log])]}
    [] j.kind = "upload" ->
         {[kind |-> "uploaded", log |-> j.log, ids |-> ids \ uploaded[j.log]]}
    [] j.kind = "download" ->
         {[kind |-> "downloaded", log |-> j.log, ids |-> c \ confirmed[j.log]] : c \in SUBSET ids}

Work == /\ jobs # <<>>
        /\ IF Superseded(1) THEN UNCHANGED events
           ELSE \E e \in Answer(Head(jobs)) : events' = Append(events, e)
        /\ jobs' = Tail(jobs)
        /\ UNCHANGED <<frame, log, ui, misplaced, clicks>>

Next == \/ BeginFrame \/ WsjtxContact \/ DrainEvent \/ Draw \/ SyncLog \/ NoClick
        \/ SwitchOperator \/ ToggleView \/ EnterContact \/ Select \/ DeleteSelected
        \/ OpenDialog \/ SaveEdit \/ ConfirmDelete \/ ChooseFile \/ CommitImport
        \/ Sync \/ Work

Spec == Init /\ [][Next]_vars

-----------------------------------------------------------------------------
ListSettled == /\ view /\ ~dirty /\ op = openFor
               /\ \A i \in 1..Len(jobs) : jobs[i].kind # "query"
               /\ \A i \in 1..Len(events) : events[i].kind # "contacts"

\* Once its query was answered, the contact view lists the log that is open and
\* all of it: no change of the log and no switch of operator is missed.
ViewIsLog == ListSettled => cache = logs[openFor]

\* What the operator is told of a call ("NEW CALL", "Worked 3x") is read from the
\* index: after every change, and every switch, it is that of the open log.
WorkedIsLog == worked = KeysOf(logs[openFor])

\* "all belonged to the previous operator's log - none of it survives the switch"
\* (logging/lifecycle.rs:22): nothing selected, opened, planned or sent from one
\* log changes another.
NoneSurvivesSwitch == misplaced = {}

\* "Duplicates are skipped ... makes import idempotent" (import.rs:15): what is
\* imported was not in the log.
ImportsOnce == [][CommitImport => plan.keys \cap KeysOf(logs[openFor]) = {}]_vars

=============================================================================
