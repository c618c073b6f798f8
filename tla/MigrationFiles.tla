--------------------------- MODULE MigrationFiles ---------------------------
(***************************************************************************)
(* The ten files of migrations/, in filename order, as what each one does  *)
(* to the schema: the tables it locks, in the order of its statements, and *)
(* the objects it adds and drops.  Columns that one file adds to one table *)
(* go by one name.                                                         *)
(***************************************************************************)
EXTENDS Naturals, Sequences

\* The three unique indexes post_log has had: one terminal row, first only
\* SUCCESS, per application; then one per application and action.
SuccessIndex == "ux_benivo_post_success_application"
ApplicationIndex == "ux_benivo_post_terminal_application"
ActionIndex == "ux_benivo_post_terminal_application_action"

\* What of this was there before the first file.
Before == {SuccessIndex}

Script ==
  << [locks |-> <<"candidates", "post_log">>,                       \* 0001
      adds |-> {"candidates.benivo_assignment_id", "post_log.benivo_assignment_id"},
      drops |-> {}],
     [locks |-> <<"post_log">>,                                     \* 0002
      adds |-> {ApplicationIndex}, drops |-> {SuccessIndex}],
     [locks |-> <<"candidates", "post_log">>,                       \* 0003
      adds |-> {"candidates.is_vip", "post_log.policy_name"}, drops |-> {}],
     [locks |-> <<"post_log">>,                                     \* 0004
      adds |-> {"post_log.policy_api_value"}, drops |-> {}],
     [locks |-> <<"post_log">>,                                     \* 0005
      adds |-> {"post_log.effective_start_date"}, drops |-> {}],
     [locks |-> <<"post_log">>,                                     \* 0006
      adds |-> {ActionIndex}, drops |-> {ApplicationIndex}],
     [locks |-> <<"candidates">>,                                   \* 0007
      adds |-> {"candidates.current_country"}, drops |-> {}],
     [locks |-> <<"scope_history">>,                                \* 0008
      adds |-> {"scope_history"}, drops |-> {}],
     [locks |-> <<"post_log">>,                                     \* 0009
      adds |-> {"post_log.http_status_code"}, drops |-> {}],
     [locks |-> <<"candidates">>,                                   \* 0010
      adds |-> {"candidates.agency_name"}, drops |-> {}] >>

Last == 10

Files == 1..Last

Adds(f) == IF f = 0 THEN Before ELSE Script[f].adds
Drops(f) == IF f = 0 THEN {} ELSE Script[f].drops

Objects == UNION {Adds(f) : f \in 0..Last}

\* The schema after the first n files: whatever one of them added and none
\* of the later ones dropped.
SchemaAt(n) ==
  {o \in Objects :
     \E f \in 0..n : o \in Adds(f) /\ \A g \in (f + 1)..n : o \notin Drops(g)}

=============================================================================
