------------------------------- MODULE LogExport -------------------------------
(***************************************************************************)
(* Incremental ADIF export: the UI thread logs, edits and deletes contacts *)
(* of the operator whose log is open, the export worker writes the file    *)
(* from a read-only connection of its own, and the UI thread then moves    *)
(* the bookmark of a stream, the highest row id written.  Row ids are      *)
(* SQLite's: one more than the highest in the table, so that of a deleted  *)
(* last row is given again.                                                *)
(***************************************************************************)
EXTENDS Integers, FiniteSets, FiniteSetsExt

CONSTANTS Operators,   \* each with a log and an export_state of its own
          Bands,       \* what a filter tells contacts apart by
          MaxContacts, \* bound on the contacts logged
          None

Contacts == 1..MaxContacts

VARIABLES operator,  \* whose log is open, None when none is
          rows,      \* the qso tables: row id, contact, band
          logged,    \* contacts logged so far
          topId,     \* highest row id given so far in each log
          reissued,  \* history: contacts logged under a row id given before
          bookmark,  \* export_state.last_qso_id of each log, 0 when there is none
          exported,  \* history: contacts some incremental run wrote
          narrowed,  \* history: contacts a bookmark passed as the filter left them out
          misfiled,  \* history: how far a run over another log moved each bookmark
          job,       \* ExportJob::Write, while export_busy
          summary    \* ExportEvent::Done

histories == <<reissued, exported, narrowed, misfiled>>
vars == <<operator, rows, logged, topId, bookmark, histories, job, summary>>

Rows == [id : Contacts, contact : Contacts, band : Bands]
Jobs == [of : Operators, incremental : BOOLEAN, bands : SUBSET Bands]
Summaries == [of : Operators, incremental : BOOLEAN, max : 0..MaxContacts,
              left : SUBSET Contacts]

\* Every variable has its type.
TypeOK == /\ operator \in Operators \cup {None}
          /\ rows \in [Operators -> SUBSET Rows] /\ logged \in 0..MaxContacts
          /\ topId \in [Operators -> 0..MaxContacts]
          /\ bookmark \in [Operators -> 0..MaxContacts]
          /\ misfiled \in [Operators -> 0..MaxContacts]
          /\ reissued \subseteq Contacts /\ exported \subseteq Contacts
          /\ narrowed \subseteq Contacts
          /\ job \in Jobs \cup {None} /\ summary \in Summaries \cup {None}

Init == /\ operator = None
        /\ rows = [o \in Operators |-> {}] /\ logged = 0
        /\ topId = [o \in Operators |-> 0] /\ bookmark = [o \in Operators |-> 0]
        /\ reissued = {} /\ exported = {} /\ narrowed = {}
        /\ misfiled = [o \in Operators |-> 0]
        /\ job = None /\ summary = None

HighestId(table) == Max({r.id : r \in table} \cup {0})

-----------------------------------------------------------------------------
(* The UI thread.                                                            *)

\* ensure_log: the log of the operator chosen is opened, or none is; what the worker
\* is asked for goes on.
SwitchOperator == /\ operator' \in Operators \cup {None}
                  /\ UNCHANGED <<rows, logged, topId, bookmark, histories, job, summary>>

LogContact == /\ operator # None /\ logged < MaxContacts
              /\ logged' = logged + 1
              /\ LET id == HighestId(rows[operator]) + 1 IN
                   /\ \E b \in Bands :
                        rows' = [rows EXCEPT ![operator] =
                                   @ \cup {[id |-> id, contact |-> logged', band |-> b]}]
                   /\ topId' = [topId EXCEPT ![operator] = Max({@, id})]
                   /\ reissued' = IF id <= topId[operator] THEN reissued \cup {logged'}
                                  ELSE reissued
              /\ UNCHANGED <<operator, bookmark, exported, narrowed, misfiled, job, summary>>

\* An edit keeps the row id.
EditContact == /\ operator # None
               /\ \E r \in rows[operator], b \in Bands :
                    rows' = [rows EXCEPT ![operator] = (@ \ {r}) \cup {[r EXCEPT !.band = b]}]
               /\ UNCHANGED <<operator, logged, topId, bookmark, histories, job, summary>>

DeleteContact == /\ operator # None
                 /\ \E r \in rows[operator] :
                      rows' = [rows EXCEPT ![operator] = @ \ {r}]
                 /\ UNCHANGED <<operator, logged, topId, bookmark, histories, job, summary>>

\* The button is disabled while export_busy.  Whether incremental or not, the run has
\* the filter the contact view has at the moment.
StartExport == /\ operator # None /\ job = None /\ summary = None
               /\ job' \in [of : {operator}, incremental : BOOLEAN, bands : SUBSET Bands]
               /\ UNCHANGED <<operator, rows, logged, topId, bookmark, histories, summary>>

\* Slip: every export moves the bookmark.
AdvancedByAny(done, mark) == Max({mark, done.max})

\* Only an incremental export moves it, and never backwards.
Advanced(done, mark) == IF done.incremental THEN Max({mark, done.max}) ELSE mark

\* The bookmark that moves is that of the log open by now, if one is.  The move may
\* fail; the next run then writes the same contacts again.
ExportDone ==
  /\ summary # None
  /\ summary' = None
  /\ \/ /\ operator # None
        /\ bookmark' = [bookmark EXCEPT ![operator] = Advanced(summary, @)]
        /\ narrowed' = IF operator = summary.of /\ summary.incremental
                       THEN narrowed \cup summary.left ELSE narrowed
        /\ misfiled' = IF operator # summary.of /\ summary.incremental
                       THEN [misfiled EXCEPT ![operator] = Max({@, summary.max})]
                       ELSE misfiled
     \/ UNCHANGED <<bookmark, narrowed, misfiled>>
  /\ UNCHANGED <<operator, rows, logged, topId, reissued, exported, job>>

-----------------------------------------------------------------------------
(* The export worker.                                                        *)

New(j) == {r \in rows[j.of] : j.incremental => r.id > bookmark[j.of]}

Matching(j) == {r \in New(j) : r.band \in j.bands}

\* left is what the properties remember of the rows the run passed over.
Write == /\ job # None
         /\ LET max == HighestId(Matching(job)) IN
              summary' = [of |-> job.of, incremental |-> job.incremental, max |-> max,
                          left |-> {r.contact : r \in {n \in New(job) \ Matching(job) :
                                                         n.id <= max}}]
         /\ exported' = IF job.incremental
                        THEN exported \cup {r.contact : r \in Matching(job)}
                        ELSE exported
         /\ job' = None
         /\ UNCHANGED <<operator, rows, logged, topId, bookmark, reissued, narrowed, misfiled>>

WriteFails == /\ job # None
              /\ job' = None
              /\ UNCHANGED <<operator, rows, logged, topId, bookmark, histories, summary>>

\* The client ends, by a crash or not: only the databases are left.
Restart == /\ job' = None /\ summary' = None
           /\ UNCHANGED <<operator, rows, logged, topId, bookmark, histories>>

Next == \/ SwitchOperator \/ LogContact \/ EditContact \/ DeleteContact
        \/ StartExport \/ ExportDone \/ Write \/ WriteFails \/ Restart

Spec == Init /\ [][Next]_vars

-----------------------------------------------------------------------------
ToCome(o, r) == r.id > bookmark[o] \/ r.contact \in exported

Fresh(r) == r.contact \notin reissued

Unfiltered(r) == r.contact \notin narrowed

OwnMark(o, r) == r.id > misfiled[o]

\* No contact falls behind the bookmark of its log before a run has written it,
\* whatever is logged, edited, deleted, filtered or exported besides and whoever
\* operates, in any of these ways but three: its row id was given before, the filter
\* of an incremental run left it out, or a run over another log moved the bookmark.
NothingSkipped ==
    \A o \in Operators : \A r \in rows[o] :
        Fresh(r) /\ Unfiltered(r) /\ OwnMark(o, r) => ToCome(o, r)

\* "filters on insertion order": a contact logged later is still to come, whatever
\* was deleted before.
InsertionOrder ==
    \A o \in Operators : \A r \in rows[o] : Unfiltered(r) /\ OwnMark(o, r) => ToCome(o, r)

\* The bookmark is "an operator's incremental position": no other operator's run moves it.
OwnPosition ==
    \A o \in Operators : \A r \in rows[o] : Fresh(r) /\ Unfiltered(r) => ToCome(o, r)

\* What an incremental run left out for its filter comes with a later one.
FilteredLater ==
    \A o \in Operators : \A r \in rows[o] : Fresh(r) /\ OwnMark(o, r) => ToCome(o, r)

=============================================================================
