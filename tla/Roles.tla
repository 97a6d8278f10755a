--------------------------------- MODULE Roles ---------------------------------
(***************************************************************************)
(* Under which role anything is done for whom: request_auth.py and what     *)
(* uses it.  A request has the role it asked for or less, for as long as it *)
(* is served; a job runs later, in a thread of its own that begins as       *)
(* admin, for the role its request or its schedule had.  Meanwhile          *)
(* operators edit the accounts, and restart the server with other settings. *)
(***************************************************************************)
EXTENDS Integers, FiniteSetsExt, SequencesExt

CONSTANTS User,        \* names of users
          Thread,      \* threads of the Workbench that serve requests
          Steps,       \* how many steps the job has
          MaxChanges,  \* bound: edits of the accounts, and restarts
          None

VARIABLES mode,        \* shared or local authentication
          account,     \* the authentication file
          ceiling,     \* SHIROKUMA_DEFAULT_ROLE, for local mode
          thread,      \* the request that each thread serves
          schedule,    \* the schedule of the job
          run,         \* the active run, the role its thread has set, and, as history, what
                       \* its user held when that was last looked up
          changes      \* edits and restarts so far

vars == <<mode, account, ceiling, thread, schedule, run, changes>>

\* ROLES: bi_viewer, data_engineer and admin.
Role   == 0..2
Admin  == 2
Editor == 1

Idle  == [serves |-> FALSE, user |-> None, role |-> Admin]
NoRun == [pc |-> "none", set |-> Admin, user |-> None, role |-> Admin, held |-> Admin, saved |-> None, left |-> 0]

TypeOK ==
  /\ mode \in {"local", "shared"} /\ account \in [User -> Role \cup {None}] /\ ceiling \in Role
  /\ thread \in [Thread -> [serves : BOOLEAN, user : User \cup {None}, role : Role]]
  /\ schedule \in [owner : User, role : Role, mode : {"local", "shared"}, enabled : BOOLEAN] \cup {None}
  /\ run \in [pc : {"none", "start", "check", "step"}, set : Role, user : User \cup {None}, role : Role,
              held : Role, saved : {"local", "shared", None}, left : 0..Steps]
  /\ changes \in 0..MaxChanges

Init ==
  /\ mode \in {"local", "shared"} /\ account \in [User -> Role \cup {None}] /\ ceiling \in Role
  /\ thread = [t \in Thread |-> Idle] /\ schedule = None /\ run = NoRun /\ changes = 0

-----------------------------------------------------------------------------
(* Requests *)

\* What a user may be at most now: None is nobody.
Maximum(u) == IF mode = "shared" THEN account[u] ELSE ceiling

\* The headers and parameters that ask for a role.
Selectors == UNION { [1..n -> Role] : n \in 0..2 }

\* select_role takes the least, resolve_role the first; neither goes above the maximum.
Selected(u, selectors) ==
  IF mode = "shared" THEN Min(ToSet(selectors) \cup {Maximum(u)})
  ELSE IF selectors = <<>> THEN Maximum(u) ELSE selectors[1]

\* request_role and authorize: the thread's role is set for as long as it serves.
Serve(t, u, selectors) ==
  /\ ~thread[t].serves /\ Maximum(u) # None
  /\ \A i \in DOMAIN selectors : selectors[i] <= Maximum(u)
  /\ thread' = [thread EXCEPT ![t] = [serves |-> TRUE, user |-> u, role |-> Selected(u, selectors)]]
  /\ UNCHANGED <<mode, account, ceiling, schedule, run, changes>>

\* The request ends: role_scope gives the thread back what it had.
Ends(t) ==
  /\ thread[t].serves
  /\ thread' = [thread EXCEPT ![t] = Idle]
  /\ UNCHANGED <<mode, account, ceiling, schedule, run, changes>>

\* _identity and _check_account.
Holds(u, role) == role >= Editor /\ (mode = "shared" => account[u] # None /\ account[u] >= role)
Edits(t) == thread[t].serves /\ Holds(thread[t].user, thread[t].role)

NewRun(u, role, saved) ==
  run' = [pc |-> "start", set |-> Admin, user |-> u, role |-> role, held |-> Maximum(u), saved |-> saved, left |-> Steps]

SubmitRun(t) ==
  /\ Edits(t) /\ run.pc = "none"
  /\ NewRun(thread[t].user, thread[t].role, None)
  /\ UNCHANGED <<mode, account, ceiling, thread, schedule, changes>>

SaveSchedule(t) ==
  /\ Edits(t)
  /\ schedule # None => schedule.owner = thread[t].user
  /\ mode = "local" => thread[t].role <= ceiling
  /\ schedule' = [owner |-> thread[t].user, role |-> thread[t].role, mode |-> mode, enabled |-> TRUE]
  /\ UNCHANGED <<mode, account, ceiling, thread, run, changes>>

PauseSchedule(t) ==
  /\ Edits(t) /\ schedule # None
  /\ schedule.owner = thread[t].user
  /\ schedule' = [schedule EXCEPT !.enabled = FALSE]
  /\ UNCHANGED <<mode, account, ceiling, thread, run, changes>>

-----------------------------------------------------------------------------
(* The scheduler and the worker *)

\* Mutant: the mode a schedule was saved under does not matter.
AuthorizedInAnyMode ==
  /\ Holds(schedule.owner, schedule.role)
  /\ mode = "local" => schedule.role <= ceiling

\* _authorize.
Authorized ==
  /\ schedule.mode = mode
  /\ Holds(schedule.owner, schedule.role)
  /\ mode = "local" => schedule.role <= ceiling

\* A slot is due: the run starts with the role of the schedule, or the schedule is paused.
Tick ==
  /\ schedule # None /\ schedule.enabled
  /\ run.pc = "none"
  /\ IF Authorized THEN NewRun(schedule.owner, schedule.role, schedule.mode) /\ UNCHANGED schedule
                   ELSE schedule' = [schedule EXCEPT !.enabled = FALSE] /\ UNCHANGED run
  /\ UNCHANGED <<mode, account, ceiling, thread, changes>>

\* _worker sets its thread's role first.
Start ==
  /\ run.pc = "start"
  /\ run' = [run EXCEPT !.pc = "check", !.set = run.role]
  /\ UNCHANGED <<mode, account, ceiling, thread, schedule, changes>>

\* Before each step: the mode is the schedule's, and the account still has the role.
Check ==
  /\ run.pc = "check"
  /\ run' = IF (run.saved # None => run.saved = mode) /\ Holds(run.user, run.role) /\ run.left > 0
              THEN [run EXCEPT !.pc = "step", !.held = Maximum(run.user)] ELSE NoRun
  /\ UNCHANGED <<mode, account, ceiling, thread, schedule, changes>>

Step ==
  /\ run.pc = "step"
  /\ run' = [run EXCEPT !.pc = "check", !.left = @ - 1] \/ run' = NoRun
  /\ UNCHANGED <<mode, account, ceiling, thread, schedule, changes>>

-----------------------------------------------------------------------------
(* Operators *)

Account(u, role) ==
  /\ changes < MaxChanges /\ changes' = changes + 1
  /\ account' = [account EXCEPT ![u] = role]
  /\ UNCHANGED <<mode, ceiling, thread, schedule, run>>

\* A restart reads the environment again; the threads and the run are gone.
Restart ==
  /\ changes < MaxChanges /\ changes' = changes + 1
  /\ mode' \in {"local", "shared"} /\ ceiling' \in Role
  /\ thread' = [t \in Thread |-> Idle] /\ run' = NoRun
  /\ UNCHANGED <<account, schedule>>

Next ==
  \/ \E t \in Thread :
       \/ \E u \in User, selectors \in Selectors : Serve(t, u, selectors)
       \/ Ends(t) \/ SubmitRun(t) \/ SaveSchedule(t) \/ PauseSchedule(t)
  \/ Tick \/ Start \/ Check \/ Step
  \/ (\E u \in User, role \in Role \cup {None} : Account(u, role)) \/ Restart

Spec == Init /\ [][Next]_vars

-----------------------------------------------------------------------------
(* Properties *)

\* A run is admitted, and each of its steps is done, under the role it was submitted or
\* scheduled with and never above what its user then held: not as the admin a fresh thread
\* is, and not with what the account held when the request came or the schedule was saved
\* (_check_account, effective_role).
UnderItsRole ==
  /\ run.pc # "none" => run.role <= run.held
  /\ run.pc = "step" => run.set = run.role

\* A run of a schedule runs in the mode the schedule was saved in: a name of local mode,
\* which anyone may use, is not taken for the account of that name (_authorize).
InItsMode == run.pc # "none" /\ run.saved # None => run.saved = mode

\* Types; nothing is done above the role, or in another mode than the one, it was asked
\* for in (request_auth.py, _worker and _tick).
RolesInv == TypeOK /\ UnderItsRole /\ InItsMode
=============================================================================
