--------------------------- MODULE ServerPartsProofs ---------------------------
(***************************************************************************)
(* Theorems about the parts of the server that share no state, under the    *)
(* specification TLC checks.                                                *)
(***************************************************************************)
EXTENDS MCServerParts, FiniteSetTheorems, SequenceTheorems, WellFoundedInduction, TLAPS

(***************************************************************************)
(* Alerts.                                                                  *)
(***************************************************************************)

\* What the run evaluates are alert steps of its own definition.
RunFits ==
  run # None =>
    /\ \A p \in run.todo : run.rules[p] \in Rule
    /\ run.met # "unknown" => run.rules[run.at] \in Rule

\* The inductive invariant.
AlertsIInv == AlertsInv /\ RunFits

\* What a step may do to an alert that it does not open: nothing, acknowledge it, or
\* resolve it.  Each action is shown to be of this kind.
Kept(i) ==
  \/ alerts'[i] = alerts[i]
  \/ /\ alerts[i] # None /\ alerts'[i] # None /\ alerts'[i] \in Alert
     /\ alerts'[i].position = alerts[i].position
     /\ alerts'[i].rule = alerts[i].rule /\ alerts'[i].arguments = alerts[i].arguments
     /\ alerts[i].acknowledged => alerts'[i].acknowledged
     /\ alerts'[i].state = alerts[i].state \/ (alerts[i].state = "open" /\ alerts'[i].state # "open")

\* Opening, when nothing is open for the same rule and arguments.
Opens ==
  \E i \in Id, p \in Position, r \in Rule, a \in Arguments :
    /\ alerts[i] = None /\ rules[p] = r /\ Existing(p, r, a) = {}
    /\ alerts' = [alerts EXCEPT ![i] =
         [position |-> p, rule |-> r, arguments |-> a, state |-> "open", acknowledged |-> FALSE]]

\* An alert is no None.
LEMMA AlertIsSome == None \notin Alert
  BY AlertsAssumption DEF Alert

\* Resolving one alert.
LEMMA ClearKeeps ==
  ASSUME TypeOK, NEW p \in Position, NEW r, NEW a, Clear(p, r, a)
  PROVE  alerts' \in [Id -> Alert \cup {None}] /\ \A i \in Id : Kept(i)
<1>1. PICK j \in Existing(p, r, a) : alerts' = [alerts EXCEPT ![j].state = "cleared"]
  BY DEF Clear
<1>2. j \in Id /\ alerts[j] # None /\ alerts[j].state = "open"
  BY <1>1 DEF Existing, Unsolved, Opened
<1>3. alerts[j] \in Alert
  BY <1>2 DEF TypeOK
<1>4. alerts'[j] = [alerts[j] EXCEPT !.state = "cleared"]
  BY <1>1, <1>2 DEF TypeOK
<1>5. alerts'[j] \in Alert /\ alerts'[j].state = "cleared"
  BY <1>3, <1>4 DEF Alert
<1>6. /\ alerts'[j].position = alerts[j].position
      /\ alerts'[j].rule = alerts[j].rule
      /\ alerts'[j].arguments = alerts[j].arguments
      /\ alerts'[j].acknowledged = alerts[j].acknowledged
  BY <1>3, <1>4 DEF Alert
<1>7. alerts'[j] # None
  BY <1>5, AlertIsSome
<1>8. Kept(j)
  BY <1>2, <1>5, <1>6, <1>7 DEF Kept
<1>9. ASSUME NEW i \in Id, i # j PROVE alerts'[i] = alerts[i]
  BY <1>1, <1>9 DEF TypeOK
<1>10. alerts' \in [Id -> Alert \cup {None}]
  BY <1>1, <1>2, <1>5, <1>9 DEF TypeOK
<1> QED
  BY <1>8, <1>9, <1>10 DEF Kept

\* Acknowledging one alert.
LEMMA AcknowledgeKeeps ==
  ASSUME TypeOK, Acknowledge
  PROVE  alerts' \in [Id -> Alert \cup {None}] /\ \A i \in Id : Kept(i)
<1>1. PICK j \in Opened : alerts' = [alerts EXCEPT ![j].acknowledged = TRUE]
  BY DEF Acknowledge
<1>2. j \in Id /\ alerts[j] # None /\ alerts[j] \in Alert
  BY <1>1 DEF Opened, TypeOK
<1>3. alerts'[j] = [alerts[j] EXCEPT !.acknowledged = TRUE]
  BY <1>1, <1>2 DEF TypeOK
<1>4. alerts'[j] \in Alert /\ alerts'[j].acknowledged
  BY <1>2, <1>3 DEF Alert
<1>5. /\ alerts'[j].position = alerts[j].position
      /\ alerts'[j].rule = alerts[j].rule
      /\ alerts'[j].arguments = alerts[j].arguments
      /\ alerts'[j].state = alerts[j].state
  BY <1>2, <1>3 DEF Alert
<1>6. alerts'[j] # None
  BY <1>4, AlertIsSome
<1>7. Kept(j)
  BY <1>2, <1>4, <1>5, <1>6 DEF Kept
<1>8. ASSUME NEW i \in Id, i # j PROVE alerts'[i] = alerts[i]
  BY <1>1, <1>8 DEF TypeOK
<1>9. alerts' \in [Id -> Alert \cup {None}]
  BY <1>1, <1>2, <1>4, <1>8 DEF TypeOK
<1> QED
  BY <1>7, <1>8, <1>9 DEF Kept

\* Saving: every alert is kept, and those whose rule has gone are resolved.
LEMMA SaveKeeps ==
  ASSUME TypeOK, Save
  PROVE  /\ rules' \in Rules /\ alerts' \in [Id -> Alert \cup {None}]
         /\ \A i \in Id : Kept(i)
         /\ \A i \in Unsolved' : rules'[alerts'[i].position] = alerts'[i].rule
<1>1. PICK new \in Rules :
        /\ rules' = new
        /\ alerts' = [i \in Id |->
             IF i \in Unsolved /\ new[alerts[i].position] # alerts[i].rule
               THEN [alerts[i] EXCEPT !.state = "retired"] ELSE alerts[i]]
  BY DEF Save
<1>2. ASSUME NEW i \in Id, i \in Unsolved, new[alerts[i].position] # alerts[i].rule
      PROVE  Kept(i) /\ alerts'[i] \in Alert /\ alerts'[i].state = "retired"
  <2>1. alerts[i] \in Alert /\ alerts[i] # None /\ alerts[i].state = "open"
    BY <1>2 DEF Unsolved, Opened, TypeOK
  <2>2. alerts'[i] = [alerts[i] EXCEPT !.state = "retired"]
    BY <1>1, <1>2
  <2>3. alerts'[i] \in Alert /\ alerts'[i].state = "retired"
    BY <2>1, <2>2 DEF Alert
  <2>4. /\ alerts'[i].position = alerts[i].position
        /\ alerts'[i].rule = alerts[i].rule
        /\ alerts'[i].arguments = alerts[i].arguments
        /\ alerts'[i].acknowledged = alerts[i].acknowledged
    BY <2>1, <2>2 DEF Alert
  <2> QED
    BY <2>1, <2>3, <2>4, AlertIsSome DEF Kept
<1>3. ASSUME NEW i \in Id, ~(i \in Unsolved /\ new[alerts[i].position] # alerts[i].rule)
      PROVE  alerts'[i] = alerts[i]
  BY <1>1, <1>3
<1>4. \A i \in Id : Kept(i) /\ alerts'[i] \in Alert \cup {None}
  <2> TAKE i \in Id
  <2>1. CASE i \in Unsolved /\ new[alerts[i].position] # alerts[i].rule
    BY <1>2, <2>1
  <2>2. CASE ~(i \in Unsolved /\ new[alerts[i].position] # alerts[i].rule)
    BY <1>3, <2>2 DEF Kept, TypeOK
  <2> QED
    BY <2>1, <2>2
<1>5. alerts' \in [Id -> Alert \cup {None}]
  BY <1>1, <1>4
<1>6. ASSUME NEW i \in Unsolved' PROVE rules'[alerts'[i].position] = alerts'[i].rule
  <2>1. i \in Id /\ alerts'[i] # None /\ alerts'[i].state = "open"
    BY DEF Unsolved, Opened
  <2>2. ~(i \in Unsolved /\ new[alerts[i].position] # alerts[i].rule)
    BY <1>2, <2>1
  <2>3. alerts'[i] = alerts[i]
    BY <1>3, <2>1, <2>2
  <2>4. i \in Unsolved
    BY <2>1, <2>3 DEF Unsolved, Opened
  <2> QED
    BY <1>1, <2>2, <2>3, <2>4
<1> QED
  BY <1>1, <1>4, <1>5, <1>6

\* Recording does nothing, resolves an alert, or opens one for a rule of the saved
\* definition that has none open.
LEMMA RecordDoes ==
  ASSUME TypeOK, RunFits, Record
  PROVE  \/ alerts' = alerts
         \/ alerts' \in [Id -> Alert \cup {None}] /\ \A i \in Id : Kept(i)
         \/ Opens
<1> DEFINE p == run.at
           r == run.rules[p]
           a == run.arguments
<1>1. run \in Run
  BY DEF Record, TypeOK
<1>2. p \in Position /\ a \in Arguments /\ r \in Rule
  BY <1>1, AlertsAssumption DEF Run, RunFits, Record
<1>3. CASE rules[p] = r /\ run.met = "yes" /\ Existing(p, r, a) = {} /\ Open(p, r, a)
  <2>1. PICK i \in Id \ Opened : alerts' = [alerts EXCEPT ![i] =
          [position |-> p, rule |-> r, arguments |-> a, state |-> "open", acknowledged |-> FALSE]]
    BY <1>3 DEF Open
  <2>2. alerts[i] = None
    BY <2>1 DEF Opened
  <2> QED
    BY <1>2, <1>3, <2>1, <2>2 DEF Opens
<1>4. CASE run.met = "no" /\ Clear(p, r, a)
  BY <1>2, <1>4, ClearKeeps
<1>5. CASE alerts' = alerts
  BY <1>5
<1> QED
  BY <1>3, <1>4, <1>5 DEF Record

\* Keeping every alert keeps what is said of the open ones.
LEMMA KeptKeeps ==
  ASSUME AlertsInv, alerts' \in [Id -> Alert \cup {None}], \A i \in Id : Kept(i)
  PROVE  /\ OpenOnce'
         /\ rules' = rules => CurrentRules'
<1>1. ASSUME NEW i \in Unsolved'
      PROVE  /\ i \in Unsolved /\ alerts'[i].position = alerts[i].position
             /\ alerts'[i].rule = alerts[i].rule /\ alerts'[i].arguments = alerts[i].arguments
  <2>1. i \in Id /\ alerts'[i] # None /\ alerts'[i].state = "open"
    BY DEF Unsolved, Opened
  <2>2. Kept(i)
    BY <2>1
  <2> QED
    BY <2>1, <2>2 DEF Kept, Unsolved, Opened
<1>2. OpenOnce'
  BY <1>1 DEF AlertsInv, OpenOnce, Same
<1>3. ASSUME rules' = rules PROVE CurrentRules'
  BY <1>1, <1>3 DEF AlertsInv, CurrentRules
<1> QED
  BY <1>2, <1>3

\* Opening keeps it too: the new alert is of the saved definition and the only one.
LEMMA OpensKeeps ==
  ASSUME AlertsInv, Opens, rules' = rules
  PROVE  alerts' \in [Id -> Alert \cup {None}] /\ OpenOnce' /\ CurrentRules'
<1>1. PICK i \in Id, p \in Position, r \in Rule, a \in Arguments :
        /\ alerts[i] = None /\ rules[p] = r /\ Existing(p, r, a) = {}
        /\ alerts' = [alerts EXCEPT ![i] =
             [position |-> p, rule |-> r, arguments |-> a, state |-> "open", acknowledged |-> FALSE]]
  BY DEF Opens
<1>2. alerts' \in [Id -> Alert \cup {None}]
  BY <1>1 DEF AlertsInv, TypeOK, Alert
<1>3. alerts'[i].position = p /\ alerts'[i].rule = r /\ alerts'[i].arguments = a
  BY <1>1 DEF AlertsInv, TypeOK
<1>4. ASSUME NEW j \in Unsolved', j # i PROVE j \in Unsolved /\ alerts'[j] = alerts[j]
  BY <1>1, <1>4 DEF AlertsInv, TypeOK, Unsolved, Opened
<1>5. \A j \in Unsolved : ~Same(j, p, r, a)
  BY <1>1 DEF Existing
<1>6. ASSUME NEW j \in Unsolved', NEW k \in Unsolved',
             Same(j, alerts[k].position, alerts[k].rule, alerts[k].arguments)'
      PROVE  j = k
  <2>1. CASE j # i /\ k # i
    BY <1>4, <1>6, <2>1 DEF AlertsInv, OpenOnce, Same
  <2>2. CASE j = i /\ k # i
    BY <1>3, <1>4, <1>5, <1>6, <2>2 DEF Same
  <2>3. CASE j # i /\ k = i
    BY <1>3, <1>4, <1>5, <1>6, <2>3 DEF Same
  <2> QED
    BY <2>1, <2>2, <2>3
<1>7. OpenOnce'
  BY <1>6 DEF OpenOnce
<1>8. CurrentRules'
  BY <1>1, <1>3, <1>4 DEF AlertsInv, CurrentRules
<1> QED
  BY <1>2, <1>7, <1>8

\* Every step keeps every alert, or opens one that was not there.
LEMMA StepDoes ==
  ASSUME AlertsInv, RunFits, [Next]_vars
  PROVE  \/ alerts' \in [Id -> Alert \cup {None}] /\ \A i \in Id : Kept(i)
         \/ Opens
<1> USE DEF AlertsInv
<1>1. CASE alerts' = alerts
  BY <1>1 DEF Kept, TypeOK
<1>2. CASE Save
  BY <1>2, SaveKeeps
<1>3. CASE Record
  BY <1>1, <1>3, RecordDoes
<1>4. CASE Acknowledge
  BY <1>4, AcknowledgeKeeps
<1> QED
  BY <1>1, <1>2, <1>3, <1>4 DEF Next, vars, Submit, Evaluate, End

\* The run stays a run and evaluates alert steps.
LEMMA RunStays ==
  ASSUME TypeOK, RunFits, [Next]_vars
  PROVE  run' \in Run \cup {None} /\ RunFits'
<1>1. CASE Submit
  BY <1>1, AlertsAssumption DEF Submit, TypeOK, Run, Rules, RunFits
<1>2. CASE Evaluate
  <2>1. PICK p \in run.todo, m \in {"yes", "no"} :
          run' = [run EXCEPT !.at = p, !.met = m, !.todo = @ \ {p}]
    BY <1>2 DEF Evaluate
  <2>2. run \in Run /\ run # None
    BY <1>2 DEF Evaluate, TypeOK
  <2>3. /\ run'.rules = run.rules /\ run'.at = p /\ run'.todo = run.todo \ {p}
        /\ run' \in Run
    BY <2>1, <2>2 DEF Run
  <2> QED
    BY <2>1, <2>2, <2>3 DEF RunFits
<1>3. CASE Record
  <2>1. run \in Run /\ run # None /\ run' = [run EXCEPT !.met = "unknown"]
    BY <1>3 DEF Record, Recorded, TypeOK
  <2>2. run' \in Run /\ run'.rules = run.rules /\ run'.todo = run.todo /\ run'.met = "unknown"
    BY <2>1 DEF Run
  <2> QED
    BY <2>1, <2>2 DEF RunFits
<1>4. CASE run' = run \/ run' = None
  BY <1>4 DEF TypeOK, RunFits
<1> QED
  BY <1>1, <1>2, <1>3, <1>4 DEF Next, vars, Save, End, Acknowledge

\* Each step keeps the inductive invariant.
LEMMA AlertsInitially ==
  ASSUME Init
  PROVE  AlertsIInv
BY DEF Init, AlertsIInv, AlertsInv, TypeOK, CurrentRules, OpenOnce, Unsolved, Opened, RunFits

LEMMA AlertsNext ==
  ASSUME AlertsIInv, [Next]_vars
  PROVE  AlertsIInv'
<1>1. run' \in Run \cup {None} /\ RunFits'
  BY RunStays DEF AlertsIInv, AlertsInv
<1>2. CASE Opens /\ rules' = rules
  <2>1. alerts' \in [Id -> Alert \cup {None}] /\ OpenOnce' /\ CurrentRules'
    BY <1>2, OpensKeeps DEF AlertsIInv
  <2> QED
    BY <1>1, <1>2, <2>1 DEF AlertsIInv, AlertsInv, TypeOK
<1>3. CASE rules' = rules /\ alerts' \in [Id -> Alert \cup {None}] /\ \A i \in Id : Kept(i)
  <2>1. OpenOnce' /\ CurrentRules'
    BY <1>3, KeptKeeps DEF AlertsIInv
  <2> QED
    BY <1>1, <1>3, <2>1 DEF AlertsIInv, AlertsInv, TypeOK
<1>4. CASE Save
  <2>1. /\ rules' \in Rules /\ alerts' \in [Id -> Alert \cup {None}]
        /\ \A i \in Id : Kept(i)
        /\ \A i \in Unsolved' : rules'[alerts'[i].position] = alerts'[i].rule
    BY <1>4, SaveKeeps DEF AlertsIInv, AlertsInv
  <2>2. OpenOnce'
    BY <2>1, KeptKeeps DEF AlertsIInv
  <2> QED
    BY <1>1, <2>1, <2>2 DEF AlertsIInv, AlertsInv, TypeOK, CurrentRules
<1> QED
  BY <1>2, <1>3, <1>4, StepDoes DEF AlertsIInv, Next, vars, Submit, Evaluate, End, Record, Acknowledge

LEMMA AlertsKept ==
  ASSUME AlertsIInv, [Next]_vars
  PROVE  [KeepsResolved]_vars
<1>1. CASE \A i \in Id : Kept(i)
  BY <1>1 DEF Kept, Opened, KeepsResolved
<1>2. CASE Opens
  BY <1>2 DEF Opens, Opened, AlertsIInv, AlertsInv, TypeOK, KeepsResolved
<1> QED
  BY <1>1, <1>2, StepDoes DEF AlertsIInv

(***************************************************************************)
(* Roles.  What a thread serves, and the run that there is, began under the *)
(* settings of this start of the server: a restart takes both away.         *)
(***************************************************************************)

\* In local mode everybody is below the ceiling; a run keeps the role it has set.
RolesIInv ==
  /\ Roles!RolesInv
  /\ mode = "local" => /\ \A t \in Thread : thread[t].serves => thread[t].role <= ceiling
                       /\ job.pc # "none" => job.role <= ceiling
  /\ job.pc \in {"check", "step"} => job.set = job.role
  /\ job.pc # "none" => job.user \in User
  /\ job.pc = "step" => job.left > 0
  /\ \A t \in Thread : thread[t].serves => thread[t].user \in User

Threads == [Thread -> [serves : BOOLEAN, user : User \cup {None}, role : Roles!Role]]
Jobs    == [pc : {"none", "start", "check", "step"}, set : Roles!Role, user : User \cup {None}, role : Roles!Role,
            held : Roles!Role, saved : {"local", "shared", None}, left : 0..Steps]
Slots   == [owner : User, role : Roles!Role, mode : {"local", "shared"}, enabled : BOOLEAN]

LEMMA RolesTypes ==
  ASSUME RolesIInv
  PROVE  /\ mode \in {"local", "shared"} /\ account \in [User -> Roles!Role \cup {None}] /\ ceiling \in Roles!Role
         /\ thread \in Threads /\ saved \in Slots \cup {None} /\ job \in Jobs /\ changes \in 0..MaxChanges
         /\ Roles!Role = 0..2 /\ None \notin User \cup Nat \cup {"local", "shared"}
         /\ Steps \in Nat /\ MaxChanges \in Nat
BY PartsAssumption DEF RolesIInv, Roles!RolesInv, Roles!TypeOK, Threads, Jobs, Slots, Roles!Role

\* The least of some roles is one of them.
LEMMA LeastRole ==
  ASSUME NEW roles \in SUBSET (0..2), roles # {}
  PROVE  Roles!Min(roles) \in roles /\ \A r \in roles : Roles!Min(roles) <= r
<1>1. \E x \in roles : \A y \in roles : x =< y
  <2>1. CASE 0 \in roles
    BY <2>1
  <2>2. CASE 0 \notin roles /\ 1 \in roles
    BY <2>2
  <2>3. CASE 0 \notin roles /\ 1 \notin roles
    <3>1. \A y \in roles : y = 2
      BY <2>3
    <3>2. PICK x \in roles : TRUE
      OBVIOUS
    <3>3. x = 2 /\ \A y \in roles : x =< y
      BY <3>1, <3>2
    <3> QED
      BY <3>3
  <2> QED
    BY <2>1, <2>2, <2>3
<1> QED
  BY <1>1 DEF Roles!Min

\* What is asked for and not above the maximum gives a role that is not either.
LEMMA SelectedBelow ==
  ASSUME RolesIInv, NEW u \in User, NEW selectors \in Roles!Selectors, Roles!Maximum(u) # None,
         \A i \in DOMAIN selectors : selectors[i] <= Roles!Maximum(u)
  PROVE  Roles!Selected(u, selectors) \in Roles!Role /\ Roles!Selected(u, selectors) <= Roles!Maximum(u)
<1>1. Roles!Maximum(u) \in 0..2 /\ mode \in {"local", "shared"}
  BY RolesTypes DEF Roles!Maximum
<1>2. PICK n \in 0..2 : selectors \in [1..n -> 0..2]
  BY RolesTypes DEF Roles!Selectors
<1>3. CASE mode = "shared"
  <2> DEFINE roles == Roles!ToSet(selectors) \cup {Roles!Maximum(u)}
  <2>1. roles \in SUBSET (0..2) /\ Roles!Maximum(u) \in roles
    BY <1>1, <1>2 DEF Roles!ToSet
  <2> HIDE DEF roles
  <2>2. Roles!Min(roles) \in 0..2 /\ Roles!Min(roles) <= Roles!Maximum(u)
    BY <2>1, LeastRole
  <2> QED
    BY <1>3, <2>2, RolesTypes DEF Roles!Selected, roles
<1>4. CASE mode # "shared" /\ selectors = <<>>
  BY <1>1, <1>4, RolesTypes DEF Roles!Selected
<1>5. CASE mode # "shared" /\ selectors # <<>>
  <2>1. n # 0
    BY <1>2, <1>5
  <2>2. 1 \in DOMAIN selectors /\ selectors[1] \in 0..2
    BY <1>2, <2>1
  <2> QED
    BY <1>5, <2>2, RolesTypes DEF Roles!Selected
<1> QED
  BY <1>3, <1>4, <1>5

LEMMA RolesInitially ==
  ASSUME Roles!Init
  PROVE  RolesIInv
<1>1. thread = [t \in Thread |-> Roles!Idle] /\ Roles!Idle \in [serves : BOOLEAN, user : User \cup {None}, role : Roles!Role]
      /\ ~Roles!Idle.serves
  BY DEF Roles!Init, Roles!Idle, Roles!Role, Roles!Admin
<1>2. job \in Jobs /\ job.pc = "none"
  BY PartsAssumption DEF Roles!Init, Roles!NoRun, Jobs, Roles!Role, Roles!Admin
<1>3. Roles!TypeOK
  BY <1>1, <1>2, PartsAssumption DEF Roles!Init, Roles!TypeOK, Jobs
<1> QED
  BY <1>1, <1>2, <1>3 DEF RolesIInv, Roles!RolesInv, Roles!UnderItsRole, Roles!InItsMode

\* A run that begins does so with a role its user holds.
LEMMA RunBegins ==
  ASSUME RolesIInv, NEW u \in User, NEW role \in Roles!Role, NEW saved0 \in {"local", "shared", None},
         Roles!NewRun(u, role, saved0), Roles!Holds(u, role), mode = "local" => role <= ceiling,
         saved0 # None => saved0 = mode
  PROVE  /\ job' \in Jobs /\ job'.pc = "start" /\ job'.user = u /\ job'.role = role /\ job'.saved = saved0
         /\ role <= job'.held
<1>1. Roles!Maximum(u) \in Roles!Role /\ role <= Roles!Maximum(u)
  BY RolesTypes DEF Roles!Maximum, Roles!Holds
<1>2. /\ job' = [pc |-> "start", set |-> 2, user |-> u, role |-> role, held |-> Roles!Maximum(u),
                 saved |-> saved0, left |-> Steps]
      /\ 2 \in Roles!Role /\ Steps \in 0..Steps
  BY RolesTypes DEF Roles!NewRun, Roles!Admin
<1> QED
  BY <1>1, <1>2 DEF Jobs

LEMMA RolesNext ==
  ASSUME RolesIInv, [Roles!Next]_rolesVars
  PROVE  RolesIInv'
<1> USE DEF Threads
<1>1. ASSUME NEW t \in Thread, NEW u \in User, NEW selectors \in Roles!Selectors, Roles!Serve(t, u, selectors)
      PROVE  RolesIInv'
  <2> DEFINE served == [serves |-> TRUE, user |-> u, role |-> Roles!Selected(u, selectors)]
  <2>1. Roles!Selected(u, selectors) \in Roles!Role /\ (mode = "local" => Roles!Selected(u, selectors) <= ceiling)
    BY <1>1, SelectedBelow DEF Roles!Serve, Roles!Maximum
  <2>2. thread' = [thread EXCEPT ![t] = served] /\ UNCHANGED <<mode, account, ceiling, saved, job, changes>>
    BY <1>1 DEF Roles!Serve
  <2>3. served \in [serves : BOOLEAN, user : User \cup {None}, role : Roles!Role]
        /\ served.user = u /\ served.role = Roles!Selected(u, selectors)
    BY <2>1
  <2> HIDE DEF served
  <2>4. thread' \in Threads /\ thread'[t] = served /\ \A q \in Thread : q # t => thread'[q] = thread[q]
    BY <2>2, <2>3, RolesTypes
  <2> QED
    BY <2>1, <2>2, <2>3, <2>4 DEF RolesIInv, Roles!RolesInv, Roles!TypeOK, Roles!UnderItsRole, Roles!InItsMode
<1>2. ASSUME NEW t \in Thread, Roles!Ends(t)
      PROVE  RolesIInv'
  <2>1. thread' = [thread EXCEPT ![t] = Roles!Idle] /\ UNCHANGED <<mode, account, ceiling, saved, job, changes>>
    BY <1>2 DEF Roles!Ends
  <2>2. Roles!Idle \in [serves : BOOLEAN, user : User \cup {None}, role : Roles!Role] /\ ~Roles!Idle.serves
    BY DEF Roles!Idle, Roles!Role, Roles!Admin
  <2>3. thread' \in Threads /\ thread'[t] = Roles!Idle /\ \A q \in Thread : q # t => thread'[q] = thread[q]
    BY <2>1, <2>2, RolesTypes
  <2> QED
    BY <2>1, <2>2, <2>3 DEF RolesIInv, Roles!RolesInv, Roles!TypeOK, Roles!UnderItsRole, Roles!InItsMode
<1>3. ASSUME NEW t \in Thread, Roles!SubmitRun(t)
      PROVE  RolesIInv'
  <2>1. /\ thread[t].user \in User /\ thread[t].role \in Roles!Role /\ Roles!Holds(thread[t].user, thread[t].role)
        /\ mode = "local" => thread[t].role <= ceiling
        /\ Roles!NewRun(thread[t].user, thread[t].role, None) /\ UNCHANGED <<mode, account, ceiling, thread, saved, changes>>
    BY <1>3, RolesTypes DEF Roles!SubmitRun, Roles!Edits, RolesIInv
  <2>2. /\ job' \in Jobs /\ job'.pc = "start" /\ job'.user = thread[t].user /\ job'.role = thread[t].role
        /\ job'.saved = None /\ thread[t].role <= job'.held
    BY <2>1, RunBegins
  <2> QED
    BY <2>1, <2>2, RolesTypes DEF RolesIInv, Roles!RolesInv, Roles!TypeOK, Roles!UnderItsRole, Roles!InItsMode, Jobs
<1>4. ASSUME NEW t \in Thread, Roles!SaveSchedule(t) \/ Roles!PauseSchedule(t)
      PROVE  RolesIInv'
  <2>1. UNCHANGED <<mode, account, ceiling, thread, job, changes>>
    BY <1>4 DEF Roles!SaveSchedule, Roles!PauseSchedule
  <2>2. saved' \in Slots \cup {None}
    <3>1. CASE Roles!SaveSchedule(t)
      BY <3>1, RolesTypes DEF Roles!SaveSchedule, Roles!Edits, Slots, RolesIInv
    <3>2. CASE Roles!PauseSchedule(t)
      BY <3>2, RolesTypes DEF Roles!PauseSchedule, Slots
    <3> QED
      BY <1>4, <3>1, <3>2
  <2> QED
    BY <2>1, <2>2 DEF RolesIInv, Roles!RolesInv, Roles!TypeOK, Roles!UnderItsRole, Roles!InItsMode, Slots
<1>5. CASE Roles!Tick
  <2>1. saved \in Slots /\ UNCHANGED <<mode, account, ceiling, thread, changes>>
    BY <1>5, RolesTypes DEF Roles!Tick
  <2>2. CASE Roles!Authorized
    <3>1. /\ Roles!NewRun(saved.owner, saved.role, saved.mode) /\ UNCHANGED saved
          /\ Roles!Holds(saved.owner, saved.role) /\ saved.mode = mode
          /\ mode = "local" => saved.role <= ceiling
      BY <1>5, <2>2 DEF Roles!Tick, Roles!Authorized
    <3>2. saved.owner \in User /\ saved.role \in Roles!Role /\ saved.mode \in {"local", "shared", None}
      BY <2>1 DEF Slots
    <3>3. /\ job' \in Jobs /\ job'.pc = "start" /\ job'.user = saved.owner /\ job'.role = saved.role
          /\ job'.saved = saved.mode /\ saved.role <= job'.held
      BY <3>1, <3>2, RunBegins
    <3> QED
      BY <2>1, <3>1, <3>2, <3>3, RolesTypes
      DEF RolesIInv, Roles!RolesInv, Roles!TypeOK, Roles!UnderItsRole, Roles!InItsMode, Jobs
  <2>3. CASE ~Roles!Authorized
    <3>1. saved' = [saved EXCEPT !.enabled = FALSE] /\ UNCHANGED job
      BY <1>5, <2>3 DEF Roles!Tick
    <3>2. saved' \in Slots
      BY <2>1, <3>1 DEF Slots
    <3> QED
      BY <2>1, <3>1, <3>2 DEF RolesIInv, Roles!RolesInv, Roles!TypeOK, Roles!UnderItsRole, Roles!InItsMode, Slots
  <2> QED
    BY <2>2, <2>3
<1>6. CASE Roles!Start
  <2>1. UNCHANGED <<mode, account, ceiling, thread, saved, changes>> /\ job.pc = "start"
    BY <1>6 DEF Roles!Start
  <2>2. /\ job' \in Jobs /\ job'.pc = "check" /\ job'.set = job.role /\ job'.role = job.role /\ job'.held = job.held
        /\ job'.user = job.user /\ job'.saved = job.saved
    BY <1>6, RolesTypes DEF Roles!Start, Jobs
  <2> QED
    BY <2>1, <2>2 DEF RolesIInv, Roles!RolesInv, Roles!TypeOK, Roles!UnderItsRole, Roles!InItsMode, Jobs
<1>7. CASE job' = Roles!NoRun /\ UNCHANGED <<mode, account, ceiling, thread, saved, changes>>
  <2>1. job' \in Jobs /\ job'.pc = "none"
    BY <1>7, RolesTypes DEF Roles!NoRun, Jobs, Roles!Admin
  <2> QED
    BY <1>7, <2>1 DEF RolesIInv, Roles!RolesInv, Roles!TypeOK, Roles!UnderItsRole, Roles!InItsMode, Jobs
<1>8. CASE Roles!Check
  <2>1. UNCHANGED <<mode, account, ceiling, thread, saved, changes>> /\ job.pc = "check"
    BY <1>8 DEF Roles!Check
  <2>2. CASE (job.saved # None => job.saved = mode) /\ Roles!Holds(job.user, job.role) /\ job.left > 0
    <3>1. job' = [job EXCEPT !.pc = "step", !.held = Roles!Maximum(job.user)]
      BY <1>8, <2>2 DEF Roles!Check
    <3>2. job.user \in User /\ job.role \in Roles!Role /\ (mode = "local" => job.role <= ceiling) /\ job.set = job.role
      BY <2>1, RolesTypes DEF RolesIInv, Jobs
    <3>3. Roles!Maximum(job.user) \in Roles!Role /\ job.role <= Roles!Maximum(job.user)
      BY <2>2, <3>2, RolesTypes DEF Roles!Maximum, Roles!Holds
    <3>4. /\ job' \in Jobs /\ job'.pc = "step" /\ job'.set = job.set /\ job'.role = job.role
          /\ job'.held = Roles!Maximum(job.user) /\ job'.user = job.user /\ job'.saved = job.saved
          /\ job'.left = job.left
      BY <3>1, <3>3, RolesTypes DEF Jobs
    <3> QED
      BY <2>1, <2>2, <3>2, <3>3, <3>4 DEF RolesIInv, Roles!RolesInv, Roles!TypeOK, Roles!UnderItsRole, Roles!InItsMode, Jobs
  <2>3. CASE ~((job.saved # None => job.saved = mode) /\ Roles!Holds(job.user, job.role) /\ job.left > 0)
    BY <1>7, <1>8, <2>1, <2>3 DEF Roles!Check
  <2> QED
    BY <2>2, <2>3
<1>9. CASE Roles!Step
  <2>1. UNCHANGED <<mode, account, ceiling, thread, saved, changes>> /\ job.pc = "step"
    BY <1>9 DEF Roles!Step
  <2>2. CASE job' = [job EXCEPT !.pc = "check", !.left = @ - 1]
    <3>1. CASE job.left > 0
      <4> DEFINE left == job.left - 1
      <4>2. job \in Jobs /\ job' = [job EXCEPT !.pc = "check", !.left = left]
        BY <2>2, RolesTypes
      <4>3. left \in 0..Steps
        BY <3>1, <4>2, RolesTypes DEF Jobs
      <4> HIDE DEF left
      <4>1. /\ job' \in Jobs /\ job'.pc = "check" /\ job'.set = job.set /\ job'.role = job.role /\ job'.held = job.held
            /\ job'.user = job.user /\ job'.saved = job.saved
        BY <4>2, <4>3 DEF Jobs
      <4> QED
        BY <2>1, <4>1 DEF RolesIInv, Roles!RolesInv, Roles!TypeOK, Roles!UnderItsRole, Roles!InItsMode, Jobs
    <3>2. job.left > 0
      BY <2>1 DEF RolesIInv
    <3> QED
      BY <3>1, <3>2
  <2> QED
    BY <1>7, <1>9, <2>1, <2>2 DEF Roles!Step
<1>10. ASSUME NEW u \in User, NEW role \in Roles!Role \cup {None}, Roles!Account(u, role)
       PROVE  RolesIInv'
  <2>1. /\ account' = [account EXCEPT ![u] = role] /\ changes' \in 0..MaxChanges
        /\ UNCHANGED <<mode, ceiling, thread, saved, job>>
    BY <1>10, RolesTypes DEF Roles!Account
  <2>2. account' \in [User -> Roles!Role \cup {None}]
    BY <2>1, RolesTypes
  <2> QED
    BY <2>1, <2>2 DEF RolesIInv, Roles!RolesInv, Roles!TypeOK, Roles!UnderItsRole, Roles!InItsMode
<1>11. CASE Roles!Restart
  <2>1. /\ mode' \in {"local", "shared"} /\ ceiling' \in Roles!Role /\ changes' \in 0..MaxChanges
        /\ thread' = [t \in Thread |-> Roles!Idle] /\ job' = Roles!NoRun /\ UNCHANGED <<account, saved>>
    BY <1>11, RolesTypes DEF Roles!Restart
  <2>2. Roles!Idle \in [serves : BOOLEAN, user : User \cup {None}, role : Roles!Role] /\ ~Roles!Idle.serves
    BY DEF Roles!Idle, Roles!Role, Roles!Admin
  <2>3. job' \in Jobs /\ job'.pc = "none"
    BY <2>1, RolesTypes DEF Roles!NoRun, Jobs, Roles!Admin
  <2> QED
    BY <2>1, <2>2, <2>3 DEF RolesIInv, Roles!RolesInv, Roles!TypeOK, Roles!UnderItsRole, Roles!InItsMode, Jobs
<1>12. CASE UNCHANGED rolesVars
  BY <1>12 DEF rolesVars, RolesIInv, Roles!RolesInv, Roles!TypeOK, Roles!UnderItsRole, Roles!InItsMode
<1> QED
  BY <1>1, <1>2, <1>3, <1>4, <1>5, <1>6, <1>8, <1>9, <1>10, <1>11, <1>12 DEF Roles!Next
(***************************************************************************)
(* The endpoint's pages.  The map holds a path once, for the one who posted *)
(* its statement; so to enter a path that is there changes nothing, and what *)
(* stands behind a path was entered after it, which the history counts.  A  *)
(* path that the limit drops had as many others behind it as the map holds. *)
(***************************************************************************)

Path     == Endpoint!Path
Entry    == [path : Path, user : User]
Requests == [pc : {"idle", "follow", "enter"}, user : User \cup {None}, path : Path \cup {None}, page : Seq(Path)]
Poster(path) == query[path.of].user

\* The map holds a path once, for its poster.
Owns(map) ==
  /\ map \in Seq(Entry)
  /\ \A i, j \in 1..Len(map) : map[i].path = map[j].path => i = j
  /\ \A i \in 1..Len(map) : map[i].user = Poster(map[i].path)

Holding(map, path) == \E i \in 1..Len(map) : map[i].path = path

\* A path stands in the map with none but the later ones behind it.
Placed(map, path, later) ==
  \E i \in 1..Len(map) : map[i].path = path /\ \A j \in i + 1..Len(map) : map[j].path \in later

Page(page) ==
  \/ page = <<>>
  \/ \E a \in Path : page = <<a>>
  \/ \E a, b \in Path : a # b /\ page = <<a, b>>

Sound(request) ==
  /\ request.pc = "idle" => request = Endpoint!NoRequest
  /\ request.pc # "idle" => request.user \in User
  /\ request.pc = "follow" => request.path \in Path
  /\ Page(request.page)
  /\ \A i \in 1..Len(request.page) : Poster(request.page[i]) = request.user
  /\ request.path # None => Poster(request.path) = request.user

Good(path) ==
  after[path] # None => /\ IsFiniteSet(after[path])
                        /\ Placed(owners, path, after[path]) \/ Cardinality(after[path]) >= Limit

EndpointIInv ==
  /\ up \in BOOLEAN
  /\ query \in [1..Posts -> [user : User \cup {None}, at : 0..Pages + 1]]
  /\ conn \in [Conn -> Requests]
  /\ after \in [Path -> (SUBSET Path) \cup {None}]
  /\ Owns(owners)
  /\ \A c \in Conn : Sound(conn[c])
  /\ \A path \in Path : Good(path)

LEMMA EndpointConstants ==
  /\ Posts \in Nat /\ Pages \in Nat /\ Limit \in Nat \ {0} /\ None \notin User /\ None \notin Path
  /\ \A paths \in SUBSET Path : paths # None
  /\ Endpoint!Path = Path /\ Endpoint!Statement = 1..Posts
BY PartsAssumption DEF Path, Endpoint!Statement

LEMMA SameCardinality ==
  ASSUME NEW S
  PROVE  Endpoint!Cardinality(S) = Cardinality(S)
BY DEF Endpoint!Cardinality, Cardinality

\* Nobody owns what is not in the map, and its poster what is.
LEMMA OwnerIsPoster ==
  ASSUME Owns(owners), NEW path \in Path
  PROVE  /\ Endpoint!Owner(path) = {} <=> ~Holding(owners, path)
         /\ Holding(owners, path) => Endpoint!Owner(path) = {Poster(path)}
<1>1. \A i \in 1..Len(owners) : owners[i].user = Poster(owners[i].path)
  BY DEF Owns
<1> QED
  BY <1>1 DEF Endpoint!Owner, Holding

LEMMA EndpointKeeps ==
  ASSUME EndpointIInv
  PROVE  Endpoint!EndpointInv
<1>1. Endpoint!TypeOK
  <2>1. \A i \in 1..Len(owners) : owners[i] \in Entry
    BY DEF EndpointIInv, Owns
  <2>2. ASSUME NEW c \in Conn
        PROVE  /\ conn[c].pc \in {"idle", "follow", "enter"} /\ conn[c].user \in User \cup {None}
               /\ conn[c].path \in Path \cup {None} /\ Endpoint!ToSet(conn[c].page) \subseteq Path
    BY DEF EndpointIInv, Requests, Endpoint!ToSet
  <2> QED
    BY <2>1, <2>2, EndpointConstants DEF EndpointIInv, Endpoint!TypeOK, Entry
<1>2. Endpoint!PagesToTheirOwner
  <2>1. ASSUME NEW c \in Conn, NEW p \in Endpoint!ToSet(conn[c].page) \cup ({conn[c].path} \ {None})
        PROVE  query[p.of].user = conn[c].user
    <3>1. conn[c] \in Requests /\ Sound(conn[c]) /\ conn[c].page \in Seq(Path)
      BY DEF EndpointIInv, Requests
    <3>2. DOMAIN conn[c].page = 1..Len(conn[c].page)
      BY <3>1
    <3>3. CASE p \in Endpoint!ToSet(conn[c].page)
      BY <3>1, <3>2, <3>3 DEF Sound, Poster, Endpoint!ToSet
    <3>4. CASE p \in {conn[c].path} \ {None}
      BY <3>1, <3>4 DEF Sound, Poster
    <3> QED
      BY <3>3, <3>4
  <2> QED
    BY <2>1 DEF Endpoint!PagesToTheirOwner
<1>3. Endpoint!GoodUntilCrowdedOut
  <2>1. ASSUME NEW p \in Path, after[p] # None, Cardinality(after[p]) < Limit
        PROVE  Endpoint!Owner(p) = {query[p.of].user}
    <3>1. IsFiniteSet(after[p]) /\ Cardinality(after[p]) \in Nat
      BY <2>1, FS_CardinalityType DEF EndpointIInv, Good
    <3>2. Placed(owners, p, after[p])
      BY <2>1, <3>1, EndpointConstants DEF EndpointIInv, Good
    <3>3. Holding(owners, p)
      BY <3>2 DEF Placed, Holding
    <3> QED
      BY <3>3, OwnerIsPoster DEF EndpointIInv, Poster
  <2> QED
    BY <2>1, SameCardinality, EndpointConstants DEF Endpoint!GoodUntilCrowdedOut
<1> QED
  BY <1>1, <1>2, <1>3 DEF Endpoint!EndpointInv

LEMMA EndpointInitially ==
  ASSUME Endpoint!Init
  PROVE  EndpointIInv
<1>1. conn = [c \in Conn |-> Endpoint!NoRequest] /\ Endpoint!NoRequest \in Requests /\ Endpoint!NoRequest.page = <<>>
      /\ Endpoint!NoRequest.path = None /\ Endpoint!NoRequest.pc = "idle"
  BY DEF Endpoint!Init, Endpoint!NoRequest, Requests
<1>2. \A c \in Conn : Sound(conn[c])
  BY <1>1 DEF Sound, Page
<1>3. Owns(owners) /\ owners = <<>>
  BY DEF Endpoint!Init, Owns
<1>4. after = [path \in Path |-> None] /\ \A path \in Path : Good(path)
  BY EndpointConstants DEF Endpoint!Init, Good
<1>5. query \in [1..Posts -> [user : User \cup {None}, at : 0..Pages + 1]]
  BY EndpointConstants DEF Endpoint!Init
<1> QED
  BY <1>1, <1>2, <1>3, <1>4, <1>5 DEF EndpointIInv, Endpoint!Init

\* To enter what is there changes nothing; anything else goes to the end.
LEMMA PutKeeps ==
  ASSUME NEW map, Owns(map), NEW path \in Path, NEW u \in User, u = Poster(path)
  PROVE  /\ Holding(map, path) => Endpoint!Put(map, path, u) = map
         /\ ~Holding(map, path) => Endpoint!Put(map, path, u) = Append(map, [path |-> path, user |-> u])
         /\ Owns(Endpoint!Put(map, path, u))
<1>1. map \in Seq(Entry) /\ Len(map) \in Nat /\ \A i \in 1..Len(map) : map[i] \in Entry
  BY DEF Owns
<1>2. CASE Holding(map, path)
  <2>1. Endpoint!Put(map, path, u)
          = [i \in 1..Len(map) |-> IF map[i].path = path THEN [map[i] EXCEPT !.user = u] ELSE map[i]]
    BY <1>2 DEF Holding, Endpoint!Put
  <2>2. ASSUME NEW i \in 1..Len(map), map[i].path = path
        PROVE  [map[i] EXCEPT !.user = u] = map[i]
    <3>1. map[i] \in Entry /\ map[i].user = u
      BY <1>1, <2>2 DEF Owns
    <3> QED
      BY <3>1 DEF Entry
  <2>3. Endpoint!Put(map, path, u) = [i \in 1..Len(map) |-> map[i]]
    BY <2>1, <2>2
  <2>4. map = [i \in 1..Len(map) |-> map[i]]
    BY <1>1
  <2> QED
    BY <1>2, <2>3, <2>4
<1>3. CASE ~Holding(map, path)
  <2> DEFINE entry == [path |-> path, user |-> u]
             map2  == Append(map, entry)
  <2>1. Endpoint!Put(map, path, u) = map2
    BY <1>3 DEF Holding, Endpoint!Put
  <2>2. entry \in Entry /\ entry.path = path /\ entry.user = u
    BY DEF Entry
  <2> HIDE DEF entry
  <2>3. map2 \in Seq(Entry) /\ Len(map2) = Len(map) + 1 /\ map2[Len(map) + 1] = entry
        /\ \A i \in 1..Len(map) : map2[i] = map[i]
    BY <1>1, <2>2
  <2> HIDE DEF map2
  <2>4. \A i \in 1..Len(map2) : i = Len(map) + 1 \/ i \in 1..Len(map)
    BY <1>1, <2>3
  <2>5. \A i \in 1..Len(map) : map2[i].path # path
    BY <1>3, <2>3 DEF Holding
  <2>6. \A i, j \in 1..Len(map2) : map2[i].path = map2[j].path => i = j
    BY <2>2, <2>3, <2>4, <2>5 DEF Owns
  <2>7. \A i \in 1..Len(map2) : map2[i].user = Poster(map2[i].path)
    BY <2>2, <2>3, <2>4 DEF Owns
  <2>8. Owns(map2)
    BY <2>3, <2>6, <2>7 DEF Owns
  <2> QED
    BY <1>3, <2>1, <2>8 DEF map2, entry
<1> QED
  BY <1>2, <1>3

\* What entering a page makes of the map: what was there stays where it was, and behind it
\* are the paths that were not.
Grown(map, map2, new) ==
  /\ Owns(map2)
  /\ Len(map) <= Len(map2)
  /\ \A i \in 1..Len(map) : map2[i] = map[i]
  /\ \A i \in Len(map) + 1..Len(map2) : map2[i].path \in new
  /\ \A path \in new : \E i \in Len(map) + 1..Len(map2) : map2[i].path = path

LEMMA PutGrows ==
  ASSUME NEW map, NEW map1, NEW new, Owns(map), Grown(map, map1, new),
         NEW path \in Path, NEW u \in User, u = Poster(path)
  PROVE  Grown(map, Endpoint!Put(map1, path, u), new \cup (IF Holding(map, path) THEN {} ELSE {path}))
<1> DEFINE map2 == Endpoint!Put(map1, path, u)
<1>1. Len(map) \in Nat /\ Len(map1) \in Nat /\ Len(map) <= Len(map1)
  BY DEF Owns, Grown
<1>2. /\ Owns(map2)
      /\ Holding(map1, path) => map2 = map1
      /\ ~Holding(map1, path) => map2 = Append(map1, [path |-> path, user |-> u])
  BY PutKeeps DEF Grown
<1>3. \A i \in 1..Len(map1) : i \in 1..Len(map) \/ i \in Len(map) + 1..Len(map1)
  BY <1>1
<1>4. \A i \in 1..Len(map) : i \in 1..Len(map1)
  BY <1>1
<1>5. Holding(map, path) => Holding(map1, path)
  BY <1>4 DEF Grown, Holding
<1>6. CASE Holding(map1, path)
  <2>1. map2 = map1
    BY <1>2, <1>6
  <2>2. CASE Holding(map, path)
    BY <2>1, <2>2 DEF Grown
  <2>3. CASE ~Holding(map, path)
    <3>1. PICK i \in 1..Len(map1) : map1[i].path = path
      BY <1>6 DEF Holding
    <3>2. i \in Len(map) + 1..Len(map1)
      BY <1>3, <2>3, <3>1 DEF Grown, Holding
    <3>3. path \in new
      BY <3>1, <3>2 DEF Grown
    <3> QED
      BY <2>1, <2>3, <3>3 DEF Grown
  <2> QED
    BY <2>2, <2>3
<1>7. CASE ~Holding(map1, path)
  <2>1. ~Holding(map, path)
    BY <1>5, <1>7
  <2> DEFINE entry == [path |-> path, user |-> u]
  <2>2. entry \in Entry /\ entry.path = path
    BY DEF Entry
  <2>3. map2 = Append(map1, entry) /\ map1 \in Seq(Entry)
    BY <1>2, <1>7 DEF Grown, Owns
  <2> HIDE DEF map2, entry
  <2>4. /\ Len(map2) = Len(map1) + 1 /\ map2[Len(map1) + 1] = entry
        /\ \A i \in 1..Len(map1) : map2[i] = map1[i]
    BY <2>2, <2>3
  <2>5. \A i \in 1..Len(map) : map2[i] = map[i]
    BY <1>4, <2>4 DEF Grown
  <2>6. ASSUME NEW i \in Len(map) + 1..Len(map2)
        PROVE  map2[i].path \in new \cup {path}
    <3>1. i = Len(map1) + 1 \/ (i \in Len(map) + 1..Len(map1) /\ i \in 1..Len(map1))
      BY <1>1, <2>4
    <3>2. CASE i = Len(map1) + 1
      BY <2>2, <2>4, <3>2
    <3>3. CASE i \in Len(map) + 1..Len(map1) /\ i \in 1..Len(map1)
      BY <2>4, <3>3 DEF Grown
    <3> QED
      BY <3>1, <3>2, <3>3
  <2>7. ASSUME NEW p \in new \cup {path}
        PROVE  \E i \in Len(map) + 1..Len(map2) : map2[i].path = p
    <3>1. CASE p = path
      <4>1. Len(map1) + 1 \in Len(map) + 1..Len(map2)
        BY <1>1, <2>4
      <4> QED
        BY <2>2, <2>4, <3>1, <4>1
    <3>2. CASE p # path
      <4>1. PICK i \in Len(map) + 1..Len(map1) : map1[i].path = p
        BY <2>7, <3>2 DEF Grown
      <4>2. i \in 1..Len(map1) /\ i \in Len(map) + 1..Len(map2)
        BY <1>1, <2>4
      <4> QED
        BY <2>4, <4>1, <4>2
    <3> QED
      BY <3>1, <3>2
  <2>8. Len(map) <= Len(map2)
    BY <1>1, <2>4
  <2>9. Grown(map, map2, new \cup {path})
    BY <1>2, <2>5, <2>6, <2>7, <2>8 DEF Grown
  <2> QED
    BY <2>1, <2>9 DEF map2
<1> QED
  BY <1>6, <1>7

LEMMA PageGrows ==
  ASSUME NEW map, Owns(map), NEW page, Page(page), NEW u \in User,
         \A i \in 1..Len(page) : Poster(page[i]) = u
  PROVE  Grown(map, Endpoint!PutPage(map, page, u), { p \in Endpoint!ToSet(page) : ~Holding(map, p) })
<1>1. Grown(map, map, {})
  <2>1. Len(map) \in Nat
    BY DEF Owns
  <2> QED
    BY <2>1 DEF Grown
<1>2. CASE page = <<>>
  <2>1. Endpoint!PutPage(map, page, u) = map /\ { p \in Endpoint!ToSet(page) : ~Holding(map, p) } = {}
    BY <1>2 DEF Endpoint!PutPage, Endpoint!ToSet
  <2> QED
    BY <1>1, <2>1
<1>3. ASSUME NEW a \in Path, page = <<a>>
      PROVE  Grown(map, Endpoint!PutPage(map, page, u), { p \in Endpoint!ToSet(page) : ~Holding(map, p) })
  <2>1. Endpoint!PutPage(map, page, u) = Endpoint!Put(map, a, u) /\ Poster(a) = u
    BY <1>3 DEF Endpoint!PutPage
  <2>2. { p \in Endpoint!ToSet(page) : ~Holding(map, p) } = {} \cup (IF Holding(map, a) THEN {} ELSE {a})
    BY <1>3 DEF Endpoint!ToSet
  <2>3. Grown(map, Endpoint!Put(map, a, u), {} \cup (IF Holding(map, a) THEN {} ELSE {a}))
    BY <1>1, <2>1, PutGrows
  <2> QED
    BY <2>1, <2>2, <2>3
<1>4. ASSUME NEW a \in Path, NEW b \in Path, page = <<a, b>>
      PROVE  Grown(map, Endpoint!PutPage(map, page, u), { p \in Endpoint!ToSet(page) : ~Holding(map, p) })
  <2> DEFINE first == Endpoint!Put(map, a, u)
             newA  == {} \cup (IF Holding(map, a) THEN {} ELSE {a})
             newB  == newA \cup (IF Holding(map, b) THEN {} ELSE {b})
  <2>1. Endpoint!PutPage(map, page, u) = Endpoint!Put(first, b, u) /\ Poster(a) = u /\ Poster(b) = u
    BY <1>4 DEF Endpoint!PutPage
  <2>2. { p \in Endpoint!ToSet(page) : ~Holding(map, p) } = newB
    <3>1. Endpoint!ToSet(page) = {a, b}
      BY <1>4 DEF Endpoint!ToSet
    <3> QED
      BY <3>1
  <2>3. Grown(map, first, newA)
    BY <1>1, <2>1, PutGrows
  <2> HIDE DEF first, newA
  <2>4. Grown(map, Endpoint!Put(first, b, u), newB)
    BY <2>1, <2>3, PutGrows
  <2> QED
    BY <2>1, <2>2, <2>4
<1> QED
  BY <1>2, <1>3, <1>4 DEF Page

\* The limit drops the oldest: what stays is placed as before, and what goes had as many
\* others behind it as the limit.
LEMMA TrimKeeps ==
  ASSUME NEW map, Owns(map)
  PROVE  /\ Owns(Endpoint!Trim(map))
         /\ \A path \in Path, later \in SUBSET Path :
              Placed(map, path, later) /\ IsFiniteSet(later)
                => Placed(Endpoint!Trim(map), path, later) \/ Cardinality(later) >= Limit
<1> DEFINE n     == Len(map)
           cut   == IF n > Limit THEN n - Limit ELSE 0
           short == Endpoint!Trim(map)
<1>1. map \in Seq(Entry) /\ n \in Nat /\ cut \in Nat /\ cut <= n /\ Limit \in Nat \ {0}
  BY EndpointConstants DEF Owns
<1>2. short = SubSeq(map, cut + 1, n)
  BY <1>1 DEF Endpoint!Trim
<1>3. cut > 0 => n - cut = Limit
  BY <1>1
<1>4. \A i \in cut + 1..n : map[i] \in Entry
  BY <1>1
<1> HIDE DEF cut, short
<1>5. /\ short \in Seq(Entry) /\ Len(short) = n - cut
      /\ \A i \in 1..n - cut : short[i] = map[cut + i]
  <2>1. cut + 1 \in Int /\ n \in Int
    BY <1>1
  <2>2. /\ SubSeq(map, cut + 1, n) \in Seq(Entry)
        /\ Len(SubSeq(map, cut + 1, n)) = IF cut + 1 <= n THEN n - (cut + 1) + 1 ELSE 0
        /\ \A i \in 1..n - (cut + 1) + 1 : SubSeq(map, cut + 1, n)[i] = map[cut + 1 + i - 1]
    BY <1>4, <2>1, SubSeqProperties
  <2>3. /\ n - (cut + 1) + 1 = n - cut
        /\ (IF cut + 1 <= n THEN n - (cut + 1) + 1 ELSE 0) = n - cut
        /\ \A i \in 1..n - cut : cut + 1 + i - 1 = cut + i
    BY <1>1
  <2> HIDE DEF n
  <2>4. short \in Seq(Entry) /\ Len(short) = n - cut
    BY <1>2, <2>2, <2>3
  <2>5. \A i \in 1..n - cut : short[i] = map[cut + i]
    BY <1>2, <2>2, <2>3
  <2> QED
    BY <2>4, <2>5
<1>6. Owns(short)
  <2>1. \A i \in 1..n - cut : cut + i \in 1..n
    BY <1>1
  <2>2. \A i, j \in 1..n - cut : cut + i = cut + j => i = j
    BY <1>1
  <2>3. Len(map) = n /\ \A i, j \in 1..n : map[i].path = map[j].path => i = j
    BY DEF Owns
  <2> HIDE DEF n
  <2>4. \A i, j \in 1..n - cut : short[i].path = short[j].path => i = j
    BY <1>5, <2>1, <2>2, <2>3
  <2>5. \A i \in 1..n - cut : short[i].user = Poster(short[i].path)
    BY <1>5, <2>1, <2>3 DEF Owns
  <2> QED
    BY <1>5, <2>4, <2>5 DEF Owns
<1>7. ASSUME NEW path \in Path, NEW later \in SUBSET Path, Placed(map, path, later), IsFiniteSet(later)
      PROVE  Placed(short, path, later) \/ Cardinality(later) >= Limit
  <2>1. PICK i \in 1..n : map[i].path = path /\ \A j \in i + 1..n : map[j].path \in later
    BY <1>7 DEF Placed
  <2>2. CASE i > cut
    <3>1. i - cut \in 1..n - cut /\ cut + (i - cut) = i
      BY <1>1, <2>2
    <3>2. ASSUME NEW j \in (i - cut) + 1..n - cut
          PROVE  short[j].path \in later
      <4>1. cut + j \in i + 1..n /\ j \in 1..n - cut
        BY <1>1, <2>2
      <4> QED
        BY <1>5, <2>1, <4>1
    <3> QED
      BY <1>5, <2>1, <3>1, <3>2 DEF Placed
  <2>3. CASE i <= cut
    <3> DEFINE f == [j \in i + 1..n |-> map[j].path]
    <3>1. f \in [i + 1..n -> later]
      BY <2>1
    <3>2. \A j, k \in i + 1..n : f[j] = f[k] => j = k
      <4>1. \A j \in i + 1..n : j \in 1..n
        BY <1>1
      <4> QED
        BY <4>1 DEF Owns
    <3> HIDE DEF f
    <3>3. f \in Injection(i + 1..n, later)
      BY <3>1, <3>2 DEF Injection, IsInjective
    <3>4. Cardinality(i + 1..n) <= Cardinality(later)
      BY <1>7, <3>3, FS_Injection
    <3>5. i + 1 \in Int /\ n \in Int
      BY <1>1
    <3>6. Cardinality(i + 1..n) = IF i + 1 > n THEN 0 ELSE n - (i + 1) + 1
      BY <3>5, FS_Interval
    <3>7. n - i >= Limit /\ i + 1 <= n
      BY <1>1, <1>3, <2>3
    <3>8. Cardinality(later) \in Nat
      BY <1>7, FS_CardinalityType
    <3> QED
      BY <1>1, <3>4, <3>6, <3>7, <3>8
  <2> QED
    BY <1>1, <2>2, <2>3
<1> QED
  BY <1>6, <1>7 DEF short

\* A step that enters nothing, and after which a statement still has the poster it had.
LEMMA NothingEntered ==
  ASSUME EndpointIInv, UNCHANGED <<owners, after>>, up' \in BOOLEAN,
         query' \in [1..Posts -> [user : User \cup {None}, at : 0..Pages + 1]],
         \A s \in 1..Posts : query[s].user # None => query'[s].user = query[s].user,
         conn' \in [Conn -> Requests], \A c \in Conn : conn'[c] = conn[c] \/ (Sound(conn[c]))'
  PROVE  EndpointIInv'
<1>1. \A path \in Path : path.of \in 1..Posts
  BY EndpointConstants DEF Path, Endpoint!Path
<1>2. \A path \in Path : Poster(path) \in User => (Poster(path))' = Poster(path)
  BY <1>1, EndpointConstants DEF Poster
<1>3. (Owns(owners))'
  <2>1. \A i \in 1..Len(owners) : owners[i] \in Entry /\ owners[i].user = Poster(owners[i].path)
    BY DEF EndpointIInv, Owns
  <2>2. \A i \in 1..Len(owners) : owners[i].path \in Path /\ Poster(owners[i].path) \in User
    BY <2>1 DEF Entry
  <2>3. \A i \in 1..Len(owners) : owners[i].user = (Poster(owners[i].path))'
    BY <1>2, <2>1, <2>2
  <2> QED
    BY <2>3 DEF EndpointIInv, Owns
<1>4. ASSUME NEW c \in Conn, conn'[c] = conn[c]
      PROVE  (Sound(conn[c]))'
  <2>1. Sound(conn[c]) /\ conn[c] \in Requests
    BY DEF EndpointIInv
  <2>2. CASE conn[c].pc = "idle"
    <3>1. conn[c] = Endpoint!NoRequest
      BY <2>1, <2>2 DEF Sound
    <3> QED
      BY <1>4, <3>1 DEF Sound, Page, Endpoint!NoRequest
  <2>3. CASE conn[c].pc # "idle"
    <3>1. conn[c].user \in User /\ conn[c].page \in Seq(Path) /\ conn[c].path \in Path \cup {None}
      BY <2>1, <2>3 DEF Sound, Requests
    <3>2. \A i \in 1..Len(conn[c].page) : conn[c].page[i] \in Path /\ Poster(conn[c].page[i]) = conn[c].user
      BY <2>1, <3>1 DEF Sound
    <3>3. \A i \in 1..Len(conn[c].page) : (Poster(conn[c].page[i]))' = conn[c].user
      BY <1>2, <1>4, <3>1, <3>2
    <3>4. conn[c].path # None => (Poster(conn[c].path))' = conn[c].user
      BY <1>2, <1>4, <2>1, <3>1 DEF Sound
    <3> QED
      BY <1>4, <2>1, <2>3, <3>3, <3>4 DEF Sound
  <2> QED
    BY <2>2, <2>3
<1>5. \A path \in Path : (Good(path))'
  BY DEF EndpointIInv, Good, Placed
<1> QED
  BY <1>3, <1>4, <1>5 DEF EndpointIInv

LEMMA PageFinite ==
  ASSUME NEW page, Page(page)
  PROVE  IsFiniteSet(Endpoint!ToSet(page)) /\ Endpoint!ToSet(page) \subseteq Path
<1>1. CASE page = <<>>
  <2>1. Endpoint!ToSet(page) = {}
    BY <1>1 DEF Endpoint!ToSet
  <2> QED
    BY <2>1, FS_EmptySet
<1>2. ASSUME NEW a \in Path, page = <<a>>
      PROVE  IsFiniteSet(Endpoint!ToSet(page)) /\ Endpoint!ToSet(page) \subseteq Path
  <2>1. Endpoint!ToSet(page) = {a}
    BY <1>2 DEF Endpoint!ToSet
  <2> QED
    BY <2>1, FS_Singleton
<1>3. ASSUME NEW a \in Path, NEW b \in Path, page = <<a, b>>
      PROVE  IsFiniteSet(Endpoint!ToSet(page)) /\ Endpoint!ToSet(page) \subseteq Path
  <2>1. Endpoint!ToSet(page) = {a} \cup {b}
    BY <1>3 DEF Endpoint!ToSet
  <2>2. IsFiniteSet({a} \cup {b})
    BY FS_Singleton, FS_AddElement
  <2> QED
    BY <2>1, <2>2
<1> QED
  BY <1>1, <1>2, <1>3 DEF Page

LEMMA IdleRequest ==
  /\ Endpoint!NoRequest \in Requests
  /\ Sound(Endpoint!NoRequest)
  /\ (Sound(Endpoint!NoRequest))'
BY DEF Endpoint!NoRequest, Requests, Sound, Page

\* What a page names is of its statement, and a path once.
LEMMA NamesSound ==
  ASSUME NEW s \in 1..Posts, NEW n \in Nat \ {0}, NEW page \in Endpoint!Names(s, n)
  PROVE  /\ page \in Seq(Path) /\ Page(page)
         /\ \A i \in 1..Len(page) : page[i].of = s
<1> DEFINE a == [of |-> s, page |-> n, key |-> "nextUri"]
           b == [of |-> s, page |-> n, key |-> "partialCancelUri"]
<1>1. CASE n > Pages
  BY <1>1 DEF Endpoint!Names, Page
<1>2. CASE n <= Pages
  <2>1. n \in 1..Pages
    BY <1>2, EndpointConstants
  <2>2. a \in Path /\ b \in Path
    BY <2>1, EndpointConstants DEF Path, Endpoint!Path
  <2>3. a # b /\ a.of = s /\ b.of = s
    OBVIOUS
  <2>4. page = <<a>> \/ page = <<a, b>>
    BY <1>2, EndpointConstants DEF Endpoint!Names
  <2> HIDE DEF a, b
  <2>5. CASE page = <<a>>
    BY <2>2, <2>3, <2>5 DEF Page
  <2>6. CASE page = <<a, b>>
    <3>1. page \in Seq(Path) /\ Len(page) = 2 /\ page[1] = a /\ page[2] = b
      BY <2>2, <2>6
    <3>2. Page(page)
      BY <2>2, <2>3, <2>6 DEF Page
    <3> QED
      BY <2>3, <3>1, <3>2
  <2> QED
    BY <2>4, <2>5, <2>6
<1> QED
  BY <1>1, <1>2, EndpointConstants

LEMMA EnterKeeps ==
  ASSUME EndpointIInv, NEW c \in Conn, Endpoint!Enter(c)
  PROVE  EndpointIInv'
<1> DEFINE page == conn[c].page
           u    == conn[c].user
           map2 == Endpoint!PutPage(owners, page, u)
           new  == { p \in Endpoint!ToSet(page) : Endpoint!Owner(p) = {} }
<1>1. /\ conn[c] \in Requests /\ Sound(conn[c]) /\ Owns(owners) /\ conn[c].pc = "enter"
      /\ owners' = Endpoint!Trim(map2)
      /\ after' = [p \in Path |-> IF p \in new THEN new \ {p}
                                  ELSE IF after[p] = None THEN None ELSE after[p] \cup new]
      /\ conn' = [conn EXCEPT ![c] = Endpoint!NoRequest] /\ UNCHANGED <<up, query>>
  BY EndpointConstants DEF Endpoint!Enter, Endpoint!Serves, EndpointIInv
<1>2. /\ u \in User /\ Page(page) /\ \A i \in 1..Len(page) : Poster(page[i]) = u
  BY <1>1 DEF Sound
<1>3. Endpoint!ToSet(page) \subseteq Path /\ IsFiniteSet(Endpoint!ToSet(page))
  BY <1>2, PageFinite
<1>4. new = { p \in Endpoint!ToSet(page) : ~Holding(owners, p) }
  BY <1>1, <1>3, OwnerIsPoster
<1>5. Grown(owners, map2, new)
  BY <1>1, <1>2, <1>4, PageGrows
<1>6. new \subseteq Path /\ IsFiniteSet(new)
  BY <1>3, FS_Subset
<1>7. conn' \in [Conn -> Requests] /\ conn'[c] = Endpoint!NoRequest /\ \A d \in Conn : d # c => conn'[d] = conn[d]
  BY <1>1, IdleRequest DEF EndpointIInv
<1> HIDE DEF page, u, map2, new
<1>8. \A d \in Conn : (Sound(conn[d]))'
  <2>1. \A d \in Conn : d # c => (Sound(conn[d]))'
    BY <1>1, <1>7 DEF EndpointIInv, Sound, Poster
  <2>2. (Sound(conn[c]))'
    BY <1>1, <1>7, IdleRequest DEF Sound, Poster
  <2> QED
    BY <2>1, <2>2
<1>9. (Owns(owners))'
  <2>1. Owns(Endpoint!Trim(map2))
    BY <1>5, TrimKeeps DEF Grown
  <2> QED
    BY <1>1, <2>1 DEF Owns, Poster
<1>10. after' \in [Path -> (SUBSET Path) \cup {None}]
  BY <1>1, <1>6 DEF EndpointIInv
<1>11. Len(owners) \in Nat /\ Len(map2) \in Nat /\ Len(owners) <= Len(map2)
  BY <1>1, <1>5 DEF Owns, Grown
<1>12. ASSUME NEW path \in Path, after'[path] # None
       PROVE  IsFiniteSet(after'[path]) /\ (Placed(owners', path, after'[path]) \/ Cardinality(after'[path]) >= Limit)
  <2>1. CASE path \in new
    <3>1. after'[path] = new \ {path}
      BY <1>1, <2>1
    <3>2. IsFiniteSet(new \ {path}) /\ new \ {path} \in SUBSET Path
      BY <1>6, FS_RemoveElement
    <3>3. PICK i \in Len(owners) + 1..Len(map2) : map2[i].path = path
      BY <1>5, <2>1 DEF Grown
    <3>4. ASSUME NEW j \in i + 1..Len(map2)
          PROVE  map2[j].path \in new \ {path}
      <4>1. j \in Len(owners) + 1..Len(map2) /\ j \in 1..Len(map2) /\ i \in 1..Len(map2) /\ i # j
        BY <1>11
      <4> QED
        BY <1>5, <3>3, <4>1 DEF Grown, Owns
    <3>5. i \in 1..Len(map2)
      BY <1>11
    <3>6. Placed(map2, path, new \ {path})
      BY <3>3, <3>4, <3>5 DEF Placed
    <3> QED
      BY <1>1, <1>5, <3>1, <3>2, <3>6, TrimKeeps DEF Grown
  <2>2. CASE path \notin new
    <3> DEFINE later == after[path] \cup new
    <3>1. after[path] # None /\ after'[path] = later
      BY <1>1, <1>12, <2>2
    <3>2. after[path] \in SUBSET Path /\ IsFiniteSet(after[path])
          /\ (Placed(owners, path, after[path]) \/ Cardinality(after[path]) >= Limit)
      BY <3>1 DEF EndpointIInv, Good
    <3>3. later \in SUBSET Path /\ IsFiniteSet(later)
      BY <1>6, <3>2, FS_Union
    <3>4. CASE Placed(owners, path, after[path])
      <4>1. PICK i \in 1..Len(owners) : owners[i].path = path /\ \A j \in i + 1..Len(owners) : owners[j].path \in after[path]
        BY <3>4 DEF Placed
      <4>2. i \in 1..Len(map2) /\ map2[i].path = path
        BY <1>5, <1>11, <4>1 DEF Grown
      <4>3. ASSUME NEW j \in i + 1..Len(map2)
            PROVE  map2[j].path \in later
        <5>1. (j \in i + 1..Len(owners) /\ j \in 1..Len(owners)) \/ j \in Len(owners) + 1..Len(map2)
          BY <1>11
        <5> QED
          BY <1>5, <4>1, <5>1 DEF Grown
      <4>4. Placed(map2, path, later)
        BY <4>2, <4>3 DEF Placed
      <4> HIDE DEF later
      <4> QED
        BY <1>1, <1>5, <3>1, <3>3, <4>4, TrimKeeps DEF Grown
    <3>5. CASE Cardinality(after[path]) >= Limit
      <4>1. Cardinality(after[path]) <= Cardinality(later) /\ Cardinality(after[path]) \in Nat /\ Cardinality(later) \in Nat
        BY <3>2, <3>3, FS_Subset, FS_CardinalityType
      <4> QED
        BY <3>1, <3>3, <3>5, <4>1, EndpointConstants
    <3> QED
      BY <3>2, <3>4, <3>5
  <2> QED
    BY <2>1, <2>2
<1> QED
  BY <1>1, <1>7, <1>8, <1>9, <1>10, <1>12 DEF EndpointIInv, Good, Placed

LEMMA EndpointNext ==
  ASSUME EndpointIInv, [Endpoint!Next]_endpointVars
  PROVE  EndpointIInv'
<1> DEFINE Queries == [1..Posts -> [user : User \cup {None}, at : 0..Pages + 1]]
<1>1. query \in Queries /\ conn \in [Conn -> Requests] /\ up \in BOOLEAN
  BY DEF EndpointIInv
<1>2. ASSUME NEW c \in Conn, NEW u \in User, Endpoint!Post(c, u)
      PROVE  EndpointIInv'
  <2>1. PICK s \in 1..Posts : /\ \A t \in 1..Posts : query[t].user = None <=> t >= s
                              /\ query' = [query EXCEPT ![s] = [user |-> u, at |-> 1]]
                              /\ \E page \in Endpoint!Names(s, 1) :
                                   conn' = [conn EXCEPT ![c] = [Endpoint!NoRequest EXCEPT !.pc = "enter", !.user = u, !.page = page]]
    BY <1>2, EndpointConstants DEF Endpoint!Post, Endpoint!Serves
  <2>2. PICK page \in Endpoint!Names(s, 1) :
          conn' = [conn EXCEPT ![c] = [Endpoint!NoRequest EXCEPT !.pc = "enter", !.user = u, !.page = page]]
    BY <2>1
  <2>3. page \in Seq(Path) /\ Page(page) /\ \A i \in 1..Len(page) : page[i].of = s
    BY NamesSound
  <2> DEFINE request == [pc |-> "enter", user |-> u, path |-> None, page |-> page]
             posted  == [user |-> u, at |-> 1]
  <2>4. conn' = [conn EXCEPT ![c] = request] /\ query' = [query EXCEPT ![s] = posted]
    BY <2>1, <2>2 DEF Endpoint!NoRequest
  <2>5. /\ request \in Requests /\ request.pc = "enter" /\ request.user = u /\ request.path = None /\ request.page = page
        /\ posted \in [user : User \cup {None}, at : 0..Pages + 1] /\ posted.user = u
    BY <2>3, EndpointConstants DEF Requests
  <2> HIDE DEF request, posted
  <2>6. /\ conn' \in [Conn -> Requests] /\ conn'[c] = request /\ \A d \in Conn : d # c => conn'[d] = conn[d]
        /\ query' \in Queries /\ query'[s].user = u /\ \A t \in 1..Posts : t # s => query'[t] = query[t]
    BY <1>1, <2>4, <2>5
  <2>7. query[s].user = None
    BY <2>1
  <2>8. (Sound(conn[c]))'
    BY <2>3, <2>5, <2>6 DEF Sound, Poster
  <2>9. UNCHANGED <<owners, after>> /\ up' \in BOOLEAN
    BY <1>2 DEF Endpoint!Post
  <2> QED
    BY <2>6, <2>7, <2>8, <2>9, NothingEntered
<1>3. ASSUME NEW c \in Conn, NEW u \in User, NEW path \in Path, Endpoint!Follow(c, u, path)
      PROVE  EndpointIInv'
  <2> DEFINE request == [Endpoint!NoRequest EXCEPT !.pc = "follow", !.user = u, !.path = path]
  <2>6. Endpoint!NoRequest \in Requests /\ Endpoint!NoRequest.page = <<>>
    BY IdleRequest DEF Endpoint!NoRequest
  <2>1. Endpoint!Owner(path) = {u} /\ conn' = [conn EXCEPT ![c] = request] /\ UNCHANGED <<up, query, owners, after>>
    BY <1>3 DEF Endpoint!Follow, Endpoint!Serves
  <2>2. u = Poster(path)
    BY <2>1, OwnerIsPoster DEF EndpointIInv
  <2>3. /\ request \in Requests /\ request.pc = "follow" /\ request.user = u /\ request.path = path /\ request.page = <<>>
    BY <2>6 DEF Requests
  <2> HIDE DEF request
  <2>4. conn' \in [Conn -> Requests] /\ conn'[c] = request /\ \A d \in Conn : d # c => conn'[d] = conn[d]
    BY <1>1, <2>1, <2>3
  <2>5. (Sound(conn[c]))'
    BY <2>1, <2>2, <2>3, <2>4 DEF Sound, Poster, Page
  <2> QED
    BY <1>1, <2>1, <2>4, <2>5, NothingEntered
<1>4. ASSUME NEW c \in Conn, Endpoint!Fails(c) \/ Endpoint!Cancel(c)
      PROVE  EndpointIInv'
  <2>1. conn' = [conn EXCEPT ![c] = Endpoint!NoRequest] /\ UNCHANGED <<up, owners, after>>
    BY <1>4 DEF Endpoint!Fails, Endpoint!Cancel, Endpoint!Serves
  <2>2. conn' \in [Conn -> Requests] /\ conn'[c] = Endpoint!NoRequest /\ \A d \in Conn : d # c => conn'[d] = conn[d]
    BY <1>1, <2>1, IdleRequest
  <2>3. (Sound(conn[c]))'
    BY <2>2 DEF Sound, Page, Endpoint!NoRequest
  <2>4. query' \in Queries /\ \A s \in 1..Posts : query'[s].user = query[s].user
    <3>1. CASE Endpoint!Fails(c)
      BY <1>1, <3>1 DEF Endpoint!Fails
    <3>2. CASE Endpoint!Cancel(c)
      <4> DEFINE s == conn[c].path.of
      <4>1. conn[c].path \in Path
        BY <3>2 DEF Endpoint!Cancel, EndpointIInv, Sound
      <4>2. s \in 1..Posts /\ query' = [query EXCEPT ![s].at = Pages + 1] /\ Pages + 1 \in 0..Pages + 1
        BY <3>2, <4>1, EndpointConstants DEF Endpoint!Cancel, Path, Endpoint!Path
      <4> HIDE DEF s
      <4> QED
        BY <1>1, <4>2
    <3> QED
      BY <1>4, <3>1, <3>2
  <2> QED
    BY <1>1, <2>1, <2>2, <2>3, <2>4, NothingEntered
<1>5. ASSUME NEW c \in Conn, Endpoint!Fetch(c)
      PROVE  EndpointIInv'
  <2> DEFINE s == conn[c].path.of
             n == conn[c].path.page
  <2>1. conn[c].pc = "follow" /\ conn[c] \in Requests /\ Sound(conn[c]) /\ conn[c].path \in Path /\ conn[c].user \in User
        /\ Poster(conn[c].path) = conn[c].user
    BY <1>1, <1>5, EndpointConstants DEF Endpoint!Fetch, EndpointIInv, Sound
  <2>2. s \in 1..Posts /\ n \in 1..Pages /\ n + 1 \in Nat \ {0} /\ n + 1 \in 0..Pages + 1
    BY <2>1, EndpointConstants DEF Path, Endpoint!Path
  <2>3. query' = [query EXCEPT ![s].at = n + 1] /\ UNCHANGED <<up, owners, after>>
        /\ \E page \in Endpoint!Names(s, n + 1) : conn' = [conn EXCEPT ![c] = [conn[c] EXCEPT !.pc = "enter", !.page = page]]
    BY <1>5 DEF Endpoint!Fetch, Endpoint!Serves
  <2>4. PICK page \in Endpoint!Names(s, n + 1) : conn' = [conn EXCEPT ![c] = [conn[c] EXCEPT !.pc = "enter", !.page = page]]
    BY <2>3
  <2>5. query[s].user = conn[c].user
    BY <2>1 DEF Poster
  <2> HIDE DEF s, n
  <2>6. page \in Seq(Path) /\ Page(page) /\ \A i \in 1..Len(page) : page[i].of = s
    BY <2>2, NamesSound
  <2> DEFINE request == [conn[c] EXCEPT !.pc = "enter", !.page = page]
  <2>7. /\ request \in Requests /\ request.pc = "enter" /\ request.user = conn[c].user
        /\ request.path = conn[c].path /\ request.page = page
    BY <2>1, <2>6 DEF Requests
  <2> HIDE DEF request
  <2>8. conn' \in [Conn -> Requests] /\ conn'[c] = request /\ \A d \in Conn : d # c => conn'[d] = conn[d]
    BY <1>1, <2>4, <2>7 DEF request
  <2>9. query' \in Queries /\ \A t \in 1..Posts : query'[t].user = query[t].user
    BY <1>1, <2>2, <2>3
  <2>10. (Sound(conn[c]))'
    <3>1. (Poster(conn[c].path))' = conn[c].user
      BY <2>2, <2>5, <2>7, <2>8, <2>9 DEF Poster, s
    <3>2. \A i \in 1..Len(page) : query'[page[i].of].user = conn[c].user
      BY <2>2, <2>5, <2>6, <2>9
    <3> QED
      BY <2>1, <2>6, <2>7, <2>8, <3>1, <3>2 DEF Sound, Poster
  <2> QED
    BY <1>1, <2>3, <2>8, <2>9, <2>10, NothingEntered
<1>6. ASSUME NEW c \in Conn, Endpoint!Enter(c)
      PROVE  EndpointIInv'
  BY <1>6, EnterKeeps
<1>7. CASE Endpoint!Chill
  <2>1. /\ up' = FALSE /\ UNCHANGED <<owners, conn, after>>
        /\ query' = [s \in 1..Posts |-> IF query[s].user = None THEN query[s] ELSE [query[s] EXCEPT !.at = Pages + 1]]
    BY <1>7, EndpointConstants DEF Endpoint!Chill
  <2>2. ASSUME NEW s \in 1..Posts
        PROVE  /\ query'[s] \in [user : User \cup {None}, at : 0..Pages + 1]
               /\ query'[s].user = query[s].user
    <3>1. query[s] \in [user : User \cup {None}, at : 0..Pages + 1] /\ Pages + 1 \in 0..Pages + 1
      BY <1>1, EndpointConstants
    <3>2. query'[s] = IF query[s].user = None THEN query[s] ELSE [query[s] EXCEPT !.at = Pages + 1]
      BY <2>1
    <3> QED
      BY <3>1, <3>2
  <2>3. query' \in Queries
    BY <2>1, <2>2
  <2> QED
    BY <1>1, <2>1, <2>2, <2>3, NothingEntered
<1>8. CASE Endpoint!Restart
  <2>1. /\ owners' = <<>> /\ conn' = [c \in Conn |-> Endpoint!NoRequest] /\ after' = [p \in Path |-> None]
        /\ UNCHANGED <<up, query>>
    BY <1>8, EndpointConstants DEF Endpoint!Restart
  <2>2. conn' \in [Conn -> Requests] /\ \A c \in Conn : (Sound(conn[c]))'
    BY <2>1, IdleRequest DEF Sound, Page, Endpoint!NoRequest
  <2>3. (Owns(owners))'
    BY <2>1 DEF Owns
  <2>4. after' \in [Path -> (SUBSET Path) \cup {None}] /\ \A path \in Path : (Good(path))'
    BY <2>1 DEF Good
  <2> QED
    BY <1>1, <2>1, <2>2, <2>3, <2>4 DEF EndpointIInv
<1>9. CASE UNCHANGED endpointVars
  <2>1. UNCHANGED <<up, query, owners, conn, after>>
    BY <1>9 DEF endpointVars
  <2> QED
    BY <1>1, <2>1, NothingEntered
<1> QED
  <2>1. Path = Endpoint!Path
    BY DEF Path
  <2> QED
    BY <1>2, <1>3, <1>4, <1>5, <1>6, <1>7, <1>8, <1>9, <2>1 DEF Endpoint!Next

(***************************************************************************)
(* The calendar.  A zone is a straight line with two breaks, so what _next  *)
(* relies on follows from where the breaks are: a local time that exists is *)
(* translated to the first instant that shows it, later local times to      *)
(* later instants, and each break loses at most one day's time.  The search *)
(* then finds the least of the instants, and of any three days of the       *)
(* schedule that lie ahead the breaks spare one.                            *)
(***************************************************************************)

\* A set of natural numbers has a least element, which is what Min picks.
LEMMA LeastOfNaturals ==
  ASSUME NEW S, S \subseteq Nat, S # {}
  PROVE  Calendar!Min(S) \in S /\ \A y \in S : Calendar!Min(S) <= y
<1>1. PICK x \in S : \A y \in S : ~ (<<y, x>> \in OpToRel(<, Nat))
  BY NatLessThanWellFounded, WFMin
<1>2. \A y \in S : x <= y
  <2>1. \A m, n \in Nat : m < n => <<m, n>> \in OpToRel(<, Nat)
    BY Zenon DEF OpToRel
  <2>2. \A y \in S : ~ (y < x)
    BY <2>1, <1>1
  <2> QED
    BY <2>2
<1> QED
  BY <1>1, <1>2 DEF Calendar!Min

\* Quotient and remainder, and what has them.
LEMMA DivMod ==
  ASSUME NEW a \in Int, NEW h \in Nat \ {0}
  PROVE  a = (a \div h) * h + (a % h) /\ a % h \in 0..(h - 1) /\ a \div h \in Int
  OBVIOUS

LEMMA DivModOf ==
  ASSUME NEW d \in Int, NEW h \in Nat \ {0}, NEW r \in 0..(h - 1)
  PROVE  (d * h + r) \div h = d /\ (d * h + r) % h = r
  OBVIOUS

\* A later day begins at least a day later.
LEMMA LaterDay ==
  ASSUME NEW d \in Int, NEW e \in Int, NEW h \in Nat \ {0}, d < e
  PROVE  d * h + h <= e * h
  OBVIOUS

LEMMA ModOfSum ==
  ASSUME NEW a \in Int, NEW i \in Int, NEW h \in Nat \ {0}
  PROVE  (a + i) % h = ((a % h) + i) % h
<1> DEFINE q == a \div h
           p == ((a % h) + i) \div h
           r == ((a % h) + i) % h
<1>1. a = q * h + (a % h) /\ q \in Int /\ a % h \in Int
  BY DivMod
<1>2. (a % h) + i = p * h + r /\ r \in 0..(h - 1) /\ p \in Int
  <2>1. (a % h) + i \in Int
    BY <1>1
  <2> QED
    BY <2>1, DivMod
<1> HIDE DEF q, p, r
<1>3. a + i = (q + p) * h + r /\ q + p \in Int
  BY <1>1, <1>2
<1>4. ((q + p) * h + r) % h = r
  BY <1>2, <1>3, DivModOf
<1>5. (a + i) % h = r
  BY <1>3, <1>4
<1> QED
  BY <1>5 DEF r

\* The breaks of the zone and its offsets between them.
A1 == zone.change[1]
A2 == zone.change[2]
O1 == zone.offset[1]
O2 == zone.offset[2]
O3 == zone.offset[3]

Lesser(a, b)  == IF a < b THEN a ELSE b
Greater(a, b) == IF a < b THEN b ELSE a

\* What a zone is, spelt out.
LEMMA ZoneBreaks ==
  ASSUME Calendar!IsZone(zone), Hours \in Nat
  PROVE  /\ A1 \in Int /\ A2 \in Int /\ O1 \in Int /\ O2 \in Int /\ O3 \in Int
         /\ O1 - O2 <= A1 /\ O2 - O1 <= A1 /\ O1 - O3 <= A1 /\ O3 - O1 <= A1 /\ O2 - O3 <= A1 /\ O3 - O2 <= A1
         /\ O1 - O2 <= A2 - A1 /\ O2 - O1 <= A2 - A1 /\ O1 - O3 <= A2 - A1
         /\ O3 - O1 <= A2 - A1 /\ O2 - O3 <= A2 - A1 /\ O3 - O2 <= A2 - A1
         /\ O2 - O1 <= Hours /\ O1 - O2 <= Hours /\ O3 - O2 <= Hours /\ O2 - O3 <= Hours
<1>1. A1 \in Int /\ A2 \in Int /\ O1 \in Int /\ O2 \in Int /\ O3 \in Int
  BY DEF Calendar!IsZone, A1, A2, O1, O2, O3
<1>2. \A i, j \in 1..3 : /\ zone.offset[i] - zone.offset[j] <= A1
                         /\ zone.offset[i] - zone.offset[j] <= A2 - A1
  BY DEF Calendar!IsZone, A1, A2
<1>3. 1 \in 1..3 /\ 2 \in 1..3 /\ 3 \in 1..3 /\ 1 \in 1..2 /\ 2 \in 1..2 /\ 1 + 1 = 2 /\ 2 + 1 = 3
  OBVIOUS
<1>4. /\ O1 - O2 <= A1 /\ O2 - O1 <= A1 /\ O1 - O3 <= A1 /\ O3 - O1 <= A1 /\ O2 - O3 <= A1 /\ O3 - O2 <= A1
      /\ O1 - O2 <= A2 - A1 /\ O2 - O1 <= A2 - A1 /\ O1 - O3 <= A2 - A1
      /\ O3 - O1 <= A2 - A1 /\ O2 - O3 <= A2 - A1 /\ O3 - O2 <= A2 - A1
  BY <1>2, <1>3 DEF O1, O2, O3
<1>5. O2 - O1 \in (-Hours)..Hours /\ O3 - O2 \in (-Hours)..Hours
  <2>1. \A i \in 1..2 : zone.offset[i + 1] - zone.offset[i] \in (-Hours)..Hours
    BY DEF Calendar!IsZone
  <2> QED
    BY <1>3, <2>1 DEF O1, O2, O3
<1>6. O2 - O1 <= Hours /\ O1 - O2 <= Hours /\ O3 - O2 <= Hours /\ O2 - O3 <= Hours
  BY <1>1, <1>5
<1> QED
  BY <1>1, <1>4, <1>6

\* The greater of two offsets.
LEMMA GreaterOfTwo ==
  ASSUME NEW a \in Int, NEW b \in Int
  PROVE  Calendar!Max({a, b}) = Greater(a, b)
<1>1. \A x \in {a, b} : (\A y \in {a, b} : x >= y) <=> x = Greater(a, b)
  BY DEF Greater
<1> QED
  BY <1>1 DEF Calendar!Max, Greater

\* The clock of a zone and its inverse.
LEMMA ClockOfZone ==
  ASSUME Calendar!IsZone(zone), Hours \in Nat
  PROVE  /\ \A u \in Int : /\ Calendar!Wall(u) = u + (IF u < A1 THEN O1 ELSE IF u < A2 THEN O2 ELSE O3)
                           /\ Calendar!Wall(u) \in Int
         /\ \A w \in Int : /\ Calendar!FromWall(w) = w - (IF w < A1 + Greater(O1, O2) THEN O1
                                                          ELSE IF w < A2 + Greater(O2, O3) THEN O2 ELSE O3)
                           /\ Calendar!FromWall(w) \in Int
<1>1. A1 \in Int /\ A2 \in Int /\ O1 \in Int /\ O2 \in Int /\ O3 \in Int
  BY ZoneBreaks
<1>2. Calendar!Turn(1) = A1 + Greater(O1, O2) /\ Calendar!Turn(2) = A2 + Greater(O2, O3)
  <2>1. 1 + 1 = 2 /\ 2 + 1 = 3
    OBVIOUS
  <2>2. Calendar!Turn(1) = A1 + Calendar!Max({O1, O2}) /\ Calendar!Turn(2) = A2 + Calendar!Max({O2, O3})
    BY <2>1 DEF Calendar!Turn, A1, A2, O1, O2, O3
  <2> QED
    BY <1>1, <2>2, GreaterOfTwo
<1>3. \A u \in Int : Calendar!Wall(u) = u + (IF u < A1 THEN O1 ELSE IF u < A2 THEN O2 ELSE O3)
  BY DEF Calendar!Wall, A1, A2, O1, O2, O3
<1>4. \A w \in Int : Calendar!FromWall(w) = w - (IF w < A1 + Greater(O1, O2) THEN O1
                                                ELSE IF w < A2 + Greater(O2, O3) THEN O2 ELSE O3)
  BY <1>2 DEF Calendar!FromWall, O1, O2, O3
<1> QED
  BY <1>1, <1>3, <1>4

\* A local time is shown at some instant when its translation shows it, which is then
\* the first that does, and no earlier than time 0 if any is no earlier.
Shown(w) == Calendar!Wall(Calendar!FromWall(w)) = w

LEMMA FirstInstant ==
  ASSUME Calendar!IsZone(zone), Hours \in Nat, NEW u \in Int
  PROVE  /\ Calendar!Wall(u) \in Int /\ Calendar!FromWall(u) \in Int
         /\ Shown(Calendar!Wall(u))
         /\ Calendar!FromWall(Calendar!Wall(u)) <= u
         /\ u >= 0 => Calendar!FromWall(Calendar!Wall(u)) >= 0
<1> DEFINE w == Calendar!Wall(u)
           f == Calendar!FromWall(w)
<1>1. w = u + (IF u < A1 THEN O1 ELSE IF u < A2 THEN O2 ELSE O3) /\ w \in Int
  BY ClockOfZone
<1>2. f = w - (IF w < A1 + Greater(O1, O2) THEN O1
               ELSE IF w < A2 + Greater(O2, O3) THEN O2 ELSE O3)
      /\ f \in Int
  BY <1>1, ClockOfZone
<1>3. Calendar!Wall(f) = f + (IF f < A1 THEN O1 ELSE IF f < A2 THEN O2 ELSE O3)
  BY <1>2, ClockOfZone
<1> HIDE DEF w, f
<1>4. Calendar!Wall(f) = w /\ f <= u /\ (u >= 0 => f >= 0)
  BY <1>1, <1>2, <1>3, ZoneBreaks DEF Greater
<1>5. Calendar!FromWall(u) \in Int
  BY ClockOfZone
<1> QED
  BY <1>1, <1>4, <1>5 DEF w, f, Shown

\* Of two local times that are shown the later is first shown later.
LEMMA LaterIsShownLater ==
  ASSUME Calendar!IsZone(zone), Hours \in Nat, NEW w \in Int, NEW x \in Int, w < x, Shown(w), Shown(x)
  PROVE  Calendar!FromWall(w) < Calendar!FromWall(x)
<1> DEFINE f == Calendar!FromWall(w)
           g == Calendar!FromWall(x)
<1>1. f = w - (IF w < A1 + Greater(O1, O2) THEN O1
               ELSE IF w < A2 + Greater(O2, O3) THEN O2 ELSE O3)
      /\ f \in Int
  BY ClockOfZone
<1>2. g = x - (IF x < A1 + Greater(O1, O2) THEN O1
               ELSE IF x < A2 + Greater(O2, O3) THEN O2 ELSE O3)
      /\ g \in Int
  BY ClockOfZone
<1>3. w = f + (IF f < A1 THEN O1 ELSE IF f < A2 THEN O2 ELSE O3)
  BY <1>1, ClockOfZone DEF Shown
<1>4. x = g + (IF g < A1 THEN O1 ELSE IF g < A2 THEN O2 ELSE O3)
  BY <1>2, ClockOfZone DEF Shown
<1> HIDE DEF f, g
<1>5. f < g
  BY <1>1, <1>2, <1>3, <1>4, ZoneBreaks DEF Greater
<1> QED
  BY <1>5 DEF f, g

\* Of an instant and a later one that is the first to show its time, the later shows
\* the later time.
LEMMA LaterShowsLater ==
  ASSUME Calendar!IsZone(zone), Hours \in Nat, NEW t \in Int, NEW u \in Int, t < u,
         u = Calendar!FromWall(Calendar!Wall(u))
  PROVE  Calendar!Wall(t) < Calendar!Wall(u)
<1> DEFINE w == Calendar!Wall(u)
           s == Calendar!Wall(t)
<1>1. w = u + (IF u < A1 THEN O1 ELSE IF u < A2 THEN O2 ELSE O3) /\ w \in Int
      /\ s = t + (IF t < A1 THEN O1 ELSE IF t < A2 THEN O2 ELSE O3) /\ s \in Int
  BY ClockOfZone
<1>2. u = w - (IF w < A1 + Greater(O1, O2) THEN O1
               ELSE IF w < A2 + Greater(O2, O3) THEN O2 ELSE O3)
  BY <1>1, ClockOfZone
<1> HIDE DEF w, s
<1>3. s < w
  BY <1>1, <1>2, ZoneBreaks DEF Greater
<1> QED
  BY <1>3 DEF w, s

\* A break loses the local times that it skips, and those it repeats were shown before.
\* Of three times that lie a day apart and after what the
\* clock shows now, one is shown, and later than now.
LEMMA BreaksSpareOne ==
  ASSUME Calendar!IsZone(zone), Hours \in Nat, NEW t \in Int, NEW x \in Int, NEW y \in Int, NEW z \in Int,
         Calendar!Wall(t) < x, x + Hours <= y, y + Hours <= z
  PROVE  \E w \in {x, y, z} : Shown(w) /\ t < Calendar!FromWall(w)
<1> DEFINE l1 == A1 + Lesser(O1, O2)
           h1 == A1 + Greater(O1, O2)
           l2 == A2 + Lesser(O2, O3)
           h2 == A2 + Greater(O2, O3)
<1>1. h1 - l1 <= Hours /\ h2 - l2 <= Hours /\ l1 \in Int /\ h1 \in Int /\ l2 \in Int /\ h2 \in Int
  BY ZoneBreaks DEF Lesser, Greater
<1>2. ASSUME NEW w \in Int, Calendar!Wall(t) < w, ~ (l1 <= w /\ w < h1), ~ (l2 <= w /\ w < h2)
      PROVE  Shown(w) /\ t < Calendar!FromWall(w)
  <2> DEFINE f == Calendar!FromWall(w)
  <2>1. f = w - (IF w < h1 THEN O1 ELSE IF w < h2 THEN O2 ELSE O3) /\ f \in Int
    BY <1>2, ClockOfZone
  <2>2. Calendar!Wall(f) = f + (IF f < A1 THEN O1 ELSE IF f < A2 THEN O2 ELSE O3)
    BY <2>1, ClockOfZone
  <2>3. Calendar!Wall(t) = t + (IF t < A1 THEN O1 ELSE IF t < A2 THEN O2 ELSE O3)
    BY ClockOfZone
  <2> HIDE DEF f
  <2>4. Calendar!Wall(f) = w /\ t < f
    BY <1>2, <2>1, <2>2, <2>3, ZoneBreaks DEF Lesser, Greater
  <2> QED
    BY <2>4 DEF f, Shown
<1>3. Calendar!Wall(t) \in Int
  BY FirstInstant
<1> HIDE DEF l1, h1, l2, h2
<1>4. \E w \in {x, y, z} : Calendar!Wall(t) < w /\ ~ (l1 <= w /\ w < h1) /\ ~ (l2 <= w /\ w < h2)
  BY <1>1, <1>3
<1> QED
  BY <1>2, <1>4

LEMMA CalendarConstants ==
  /\ Hours \in Nat \ {0} /\ Week \in Nat \ {0} /\ Year \in Nat \ {0}
  /\ MonthDay \in Nat /\ Horizon \in Nat /\ MaxDay \in Nat /\ NoTime \notin Int
  /\ \A z \in Zones : Calendar!IsZone(z)
  BY ZonesAssumption

\* The local time of a schedule on a day.
At(s, d) == d * Hours + s.hour

LEMMA AtDay ==
  ASSUME NEW s \in Calendar!Valid, NEW d \in Int
  PROVE  /\ s.hour \in 0..(Hours - 1) /\ At(s, d) \in Int
         /\ At(s, d) \div Hours = d /\ At(s, d) % Hours = s.hour
         /\ d * Hours \in Int /\ d * Hours <= At(s, d) /\ At(s, d) < d * Hours + Hours
<1>1. s.hour \in 0..(Hours - 1)
  BY DEF Calendar!Valid
<1>2. d * Hours \in Int
  BY CalendarConstants
<1>3. At(s, d) \div Hours = d /\ At(s, d) % Hours = s.hour
  BY <1>1, CalendarConstants, DivModOf DEF At
<1> DEFINE start == d * Hours
<1>4. At(s, d) = start + s.hour /\ start \in Int
  BY <1>2 DEF At
<1> HIDE DEF start
<1>5. At(s, d) \in Int /\ start <= At(s, d) /\ At(s, d) < start + Hours
  BY <1>1, <1>4, CalendarConstants
<1> QED
  BY <1>1, <1>2, <1>3, <1>5 DEF start

LEMMA AtGrows ==
  ASSUME NEW s \in Calendar!Valid, NEW d \in Int, NEW e \in Int, d < e
  PROVE  At(s, d) + Hours <= At(s, e)
<1>1. d * Hours + Hours <= e * Hours /\ d * Hours \in Int /\ e * Hours \in Int
  BY LaterDay, CalendarConstants
<1>2. s.hour \in 0..(Hours - 1)
  BY AtDay
<1> DEFINE start == d * Hours
           later == e * Hours
<1>3. start + Hours <= later /\ start \in Int /\ later \in Int /\ At(s, d) = start + s.hour /\ At(s, e) = later + s.hour
  BY <1>1 DEF At
<1> HIDE DEF start, later
<1> QED
  BY <1>2, <1>3, CalendarConstants

\* The schedule has an occurrence on the day.
Occurs(s, d) == Calendar!OnDay(s, d) /\ Shown(At(s, d))

\* _local_time is the translation where there is one.
LEMMA LocalTimeIs ==
  ASSUME NEW s \in Calendar!Valid, zone \in Zones, NEW d \in Int
  PROVE  /\ Calendar!FromWall(At(s, d)) \in Int
         /\ Calendar!LocalTime(d, s.hour) = IF Shown(At(s, d)) THEN Calendar!FromWall(At(s, d)) ELSE NoTime
         /\ Calendar!LocalTime(d, s.hour) # NoTime <=> Shown(At(s, d))
<1>1. Calendar!FromWall(At(s, d)) \in Int
  BY AtDay, CalendarConstants, FirstInstant
<1>2. Calendar!LocalTime(d, s.hour) = IF Shown(At(s, d)) THEN Calendar!FromWall(At(s, d)) ELSE NoTime
  BY DEF Calendar!LocalTime, Shown, At
<1> QED
  BY <1>1, <1>2, CalendarConstants

LEMMA FirstDayIs ==
  ASSUME zone \in Zones, NEW t \in Int
  PROVE  /\ Calendar!Wall(t) \in Int /\ Calendar!FirstDay(t) \in Int
         /\ Calendar!FirstDay(t) * Hours <= Calendar!Wall(t)
         /\ Calendar!Wall(t) < Calendar!FirstDay(t) * Hours + Hours
<1>1. Calendar!Wall(t) \in Int
  BY CalendarConstants, FirstInstant
<1> DEFINE w == Calendar!Wall(t)
<1> HIDE DEF w
<1>2. w \in Int
  BY <1>1 DEF w
<1>3. w = (w \div Hours) * Hours + (w % Hours) /\ w % Hours \in 0..(Hours - 1) /\ w \div Hours \in Int
  BY <1>2, CalendarConstants, DivMod
<1>4. (w \div Hours) * Hours \in Int
  BY <1>3, CalendarConstants
<1>5. Calendar!FirstDay(t) = w \div Hours
  BY DEF Calendar!FirstDay, w
<1> HIDE DEF w
<1>6. (w \div Hours) * Hours <= w /\ w < (w \div Hours) * Hours + Hours
  BY <1>2, <1>3, <1>4, CalendarConstants
<1> QED
  BY <1>1, <1>3, <1>5, <1>6 DEF w

\* The search, if it finds a day at all, finds the first one ahead that has an
\* occurrence after the time it began with.
LEMMA SearchFindsFirst ==
  ASSUME NEW s \in Calendar!Valid, zone \in Zones, NEW t \in Int, Calendar!Found(s, t) # {}
  PROVE  \E d \in Int :
           /\ Occurs(s, d)
           /\ Calendar!NextTime(s, t) = Calendar!FromWall(At(s, d)) /\ Calendar!FromWall(At(s, d)) \in Int
           /\ Calendar!FromWall(At(s, d)) > t
           /\ \A e \in Int : Calendar!FirstDay(t) <= e /\ e < d /\ Occurs(s, e) => ~ (Calendar!FromWall(At(s, e)) > t)
<1> DEFINE first == Calendar!FirstDay(t)
           found == Calendar!Found(s, t)
           i == Calendar!Min(found)
           d == first + i
<1>1. first \in Int
  BY FirstDayIs
<1>2. \A j \in Int : j \in found <=> /\ j \in 0..(Horizon - 1) /\ Occurs(s, first + j)
                                     /\ Calendar!FromWall(At(s, first + j)) > t
  <2>1. SUFFICES ASSUME NEW j \in Int
                 PROVE  j \in found <=> /\ j \in 0..(Horizon - 1) /\ Occurs(s, first + j)
                                        /\ Calendar!FromWall(At(s, first + j)) > t
    OBVIOUS
  <2>2. first + j \in Int
    BY <1>1
  <2>3. j \in found <=> /\ j \in 0..(Horizon - 1) /\ Calendar!OnDay(s, first + j)
                        /\ Calendar!LocalTime(first + j, s.hour) # NoTime
                        /\ Calendar!LocalTime(first + j, s.hour) > t
    BY DEF Calendar!Found
  <2> HIDE DEF first, found
  <2> QED
    BY <2>2, <2>3, LocalTimeIs DEF Occurs
<1>3. found \subseteq Nat /\ found # {}
  BY CalendarConstants DEF Calendar!Found
<1> HIDE DEF found
<1>4. i \in found /\ \A j \in found : i <= j
  BY <1>3, LeastOfNaturals
<1> HIDE DEF i
<1>5. i \in 0..(Horizon - 1) /\ Occurs(s, d) /\ Calendar!FromWall(At(s, d)) > t
  BY <1>2, <1>3, <1>4
<1>6. d \in Int /\ Calendar!FromWall(At(s, d)) \in Int
  <2>1. d \in Int
    BY <1>1, <1>5, CalendarConstants
  <2> QED
    BY <2>1, LocalTimeIs
<1>7. Calendar!NextTime(s, t) = Calendar!FromWall(At(s, d))
  <2>1. Calendar!NextTime(s, t) = Calendar!LocalTime(d, s.hour)
    BY DEF Calendar!NextTime, i, found
  <2> QED
    BY <1>5, <1>6, <2>1, LocalTimeIs DEF Occurs
<1>8. ASSUME NEW e \in Int, first <= e, e < d, Occurs(s, e), Calendar!FromWall(At(s, e)) > t
      PROVE  FALSE
  <2>1. e - first \in Int /\ first + (e - first) = e /\ e - first < i /\ e - first \in 0..(Horizon - 1)
    BY <1>1, <1>5, <1>8, CalendarConstants
  <2>2. e - first \in found
    BY <1>2, <1>8, <2>1
  <2> QED
    BY <1>4, <1>5, <2>1, <2>2, CalendarConstants
<1> HIDE DEF d
<1> QED
  BY <1>5, <1>6, <1>7, <1>8

\* An occurrence is the first instant that shows a time of the schedule.
LEMMA OccurrenceIs ==
  ASSUME NEW s \in Calendar!Valid, zone \in Zones, NEW u \in Calendar!Utc
  PROVE  u \in Calendar!Occurrences(s) <=> \E d \in Int : Occurs(s, d) /\ u = Calendar!FromWall(At(s, d))
<1>1. u \in Int /\ u >= 0
  BY DEF Calendar!Utc
<1>2. Calendar!IsZone(zone) /\ Hours \in Nat
  BY CalendarConstants
<1>3. /\ Calendar!Wall(u) \in Int /\ Shown(Calendar!Wall(u))
      /\ Calendar!FromWall(Calendar!Wall(u)) \in Int
      /\ Calendar!FromWall(Calendar!Wall(u)) <= u /\ Calendar!FromWall(Calendar!Wall(u)) >= 0
  BY <1>1, <1>2, FirstInstant
<1>4. ASSUME u \in Calendar!Occurrences(s)
      PROVE  \E d \in Int : Occurs(s, d) /\ u = Calendar!FromWall(At(s, d))
  <2> DEFINE w == Calendar!Wall(u)
             d == w \div Hours
             f == Calendar!FromWall(w)
  <2>1. w % Hours = s.hour /\ Calendar!OnDay(s, d) /\ \A v \in Calendar!Utc : v < u => Calendar!Wall(v) # w
    BY <1>4 DEF Calendar!Occurrences
  <2>2. w = d * Hours + (w % Hours) /\ d \in Int
    BY <1>3, CalendarConstants, DivMod
  <2>3. w = At(s, d)
    BY <2>1, <2>2 DEF At
  <2>4. f \in Calendar!Utc /\ Calendar!Wall(f) = w
    <3>1. f \in Int /\ f <= u /\ f >= 0 /\ Calendar!Wall(f) = w
      BY <1>3 DEF Shown
    <3>2. MaxDay * Hours \in Nat
      BY CalendarConstants
    <3> HIDE DEF f
    <3> QED
      BY <3>1, <3>2 DEF Calendar!Utc
  <2>5. f = u
    BY <1>1, <1>3, <2>1, <2>4
  <2> QED
    BY <1>3, <2>1, <2>2, <2>3, <2>5 DEF Occurs
<1>5. ASSUME NEW d \in Int, Occurs(s, d), u = Calendar!FromWall(At(s, d))
      PROVE  u \in Calendar!Occurrences(s)
  <2>1. Calendar!Wall(u) = At(s, d) /\ Calendar!OnDay(s, d)
    BY <1>5 DEF Occurs, Shown
  <2>2. Calendar!Wall(u) % Hours = s.hour /\ Calendar!Wall(u) \div Hours = d
    BY <2>1, AtDay
  <2>3. ASSUME NEW v \in Calendar!Utc, v < u, Calendar!Wall(v) = Calendar!Wall(u)
        PROVE  FALSE
    <3>1. v \in Int
      BY DEF Calendar!Utc
    <3>2. Calendar!FromWall(Calendar!Wall(v)) <= v
      BY <1>2, <3>1, FirstInstant
    <3> QED
      BY <1>1, <1>5, <2>1, <2>3, <3>1, <3>2
  <2> QED
    BY <2>1, <2>2, <2>3 DEF Calendar!Occurrences
<1> QED
  BY <1>4, <1>5

\* From any day on a schedule has a day within a third of the search.
LEMMA DaysOfScheduleRecur ==
  ASSUME NEW s \in Calendar!Valid, NEW d \in Int
  PROVE  \E i \in Nat : i > 0 /\ 3 * i < Horizon /\ Calendar!OnDay(s, d + i)
<1>1. CASE s.kind = "daily"
  <2>1. 3 * 1 < Horizon
    BY ZonesAssumption, CalendarConstants DEF Calendar!DaysRecur
  <2> QED
    BY <1>1, <2>1 DEF Calendar!OnDay
<1>2. CASE s.kind = "weekly"
  <2>1. PICK weekday \in 1..Week : weekday \in s.weekdays
    BY <1>2 DEF Calendar!Valid
  <2> DEFINE r == d % Week
             q == d \div Week
             i == IF weekday - 1 > r THEN weekday - 1 - r ELSE weekday - 1 - r + Week
  <2>2. d = q * Week + r /\ r \in 0..(Week - 1) /\ q \in Int
    BY CalendarConstants, DivMod
  <2> HIDE DEF q, r
  <2>3. i \in 1..Week
    BY <2>2, CalendarConstants
  <2>4. (d + i) % Week = weekday - 1
    <3>1. CASE weekday - 1 > r
      <4>1. d + i = q * Week + (weekday - 1) /\ weekday - 1 \in 0..(Week - 1)
        BY <2>2, <3>1, CalendarConstants
      <4> QED
        BY <2>2, <4>1, CalendarConstants, DivModOf
    <3>2. CASE ~ (weekday - 1 > r)
      <4>1. d + i = (q + 1) * Week + (weekday - 1) /\ weekday - 1 \in 0..(Week - 1) /\ q + 1 \in Int
        BY <2>2, <3>2, CalendarConstants
      <4> QED
        BY <4>1, CalendarConstants, DivModOf
    <3> QED
      BY <3>1, <3>2
  <2> HIDE DEF i
  <2>5. Calendar!OnDay(s, d + i)
    BY <1>2, <2>1, <2>4, CalendarConstants DEF Calendar!OnDay, Calendar!IsoWeekday
  <2>6. 3 * i < Horizon
    BY <2>3, ZonesAssumption, CalendarConstants DEF Calendar!DaysRecur
  <2> QED
    BY <2>3, <2>5, <2>6
<1>3. CASE s.kind = "monthly"
  <2> DEFINE x == d % Year
  <2>1. x \in 0..(Year - 1) /\ s.day \in 0..MonthDay
    BY <1>3, CalendarConstants, DivMod DEF Calendar!Valid
  <2>2. PICK i \in 1..Horizon :
          3 * i < Horizon /\ IF s.day = 0 THEN Calendar!IsLastDay(x + i) ELSE Calendar!DayOfMonth(x + i) = s.day
    <3> HIDE DEF x
    <3> QED
      BY <2>1, ZonesAssumption DEF Calendar!DaysRecur
  <2>3. i \in Int /\ d + i \in Int /\ x + i \in Int
    <3> HIDE DEF x
    <3> QED
      BY <2>1, <2>2, CalendarConstants
  <2>4. (d + i) % Year = (x + i) % Year
    BY <2>3, CalendarConstants, ModOfSum
  <2> HIDE DEF x
  <2>5. ((d + i) + 1) % Year = ((x + i) + 1) % Year
    <3> DEFINE a == d + i
               b == x + i
    <3>1. a \in Int /\ b \in Int /\ a % Year = b % Year
      BY <2>3, <2>4
    <3> HIDE DEF a, b
    <3>2. 1 \in Int /\ Year \in Nat \ {0}
      BY CalendarConstants
    <3>3. (a + 1) % Year = ((a % Year) + 1) % Year /\ (b + 1) % Year = ((b % Year) + 1) % Year
      BY <3>1, <3>2, ModOfSum, Zenon
    <3>4. (a + 1) % Year = (b + 1) % Year
      BY <3>1, <3>3
    <3> QED
      BY <3>4 DEF a, b
  <2>6. Calendar!OnDay(s, d + i)
    BY <1>3, <2>2, <2>4, <2>5 DEF Calendar!OnDay, Calendar!IsLastDay, Calendar!DayOfMonth
  <2> QED
    BY <2>2, <2>6, CalendarConstants
<1> QED
  BY <1>1, <1>2, <1>3 DEF Calendar!Valid

\* The search finds a day: it sees three of the schedule, of which the breaks spare one.
LEMMA SearchFinds ==
  ASSUME NEW s \in Calendar!Valid, zone \in Zones, NEW t \in Int
  PROVE  Calendar!Found(s, t) # {}
<1> DEFINE first == Calendar!FirstDay(t)
<1>1. first \in Int /\ Calendar!Wall(t) \in Int /\ Calendar!Wall(t) < first * Hours + Hours
  BY FirstDayIs
<1> HIDE DEF first
<1>2. PICK i \in Nat : i > 0 /\ 3 * i < Horizon /\ Calendar!OnDay(s, first + i)
  BY <1>1, DaysOfScheduleRecur
<1> DEFINE d == first + i
<1>3. PICK j \in Nat : j > 0 /\ 3 * j < Horizon /\ Calendar!OnDay(s, d + j)
  <2>1. d \in Int
    BY <1>1
  <2> QED
    BY <2>1, DaysOfScheduleRecur
<1> DEFINE e == d + j
<1>4. PICK k \in Nat : k > 0 /\ 3 * k < Horizon /\ Calendar!OnDay(s, e + k)
  <2>1. e \in Int
    BY <1>1
  <2> HIDE DEF e
  <2> QED
    BY <2>1, DaysOfScheduleRecur
<1> DEFINE f == e + k
<1>5. d \in Int /\ e \in Int /\ f \in Int /\ first < d /\ d < e /\ e < f /\ f - first < Horizon
  BY <1>1, <1>2, <1>3, <1>4, CalendarConstants
<1>6. Calendar!OnDay(s, d) /\ Calendar!OnDay(s, e) /\ Calendar!OnDay(s, f)
  BY <1>2, <1>3, <1>4
<1> HIDE DEF d, e, f
<1>7. Calendar!Wall(t) < At(s, d)
  <2>1. first * Hours + Hours <= d * Hours /\ d * Hours <= At(s, d) /\ At(s, d) \in Int
    BY <1>1, <1>5, LaterDay, AtDay, CalendarConstants
  <2>2. first * Hours \in Int /\ d * Hours \in Int
    BY <1>1, <1>5, CalendarConstants
  <2> QED
    BY <1>1, <2>1, <2>2, CalendarConstants
<1>8. At(s, d) + Hours <= At(s, e) /\ At(s, e) + Hours <= At(s, f) /\ At(s, d) \in Int /\ At(s, e) \in Int /\ At(s, f) \in Int
  BY <1>5, AtGrows, AtDay
<1>9. \E w \in {At(s, d), At(s, e), At(s, f)} : Shown(w) /\ t < Calendar!FromWall(w)
  <2> DEFINE x == At(s, d)
             y == At(s, e)
             z == At(s, f)
  <2>1. Calendar!IsZone(zone) /\ Hours \in Nat
    BY CalendarConstants
  <2>2. x \in Int /\ y \in Int /\ z \in Int /\ Calendar!Wall(t) < x /\ x + Hours <= y /\ y + Hours <= z
    BY <1>7, <1>8
  <2> HIDE DEF x, y, z
  <2>3. \E w \in {x, y, z} : Shown(w) /\ t < Calendar!FromWall(w)
    BY <2>1, <2>2, BreaksSpareOne
  <2> QED
    BY <2>3 DEF x, y, z
<1>10. PICK g \in {d, e, f} : Shown(At(s, g)) /\ t < Calendar!FromWall(At(s, g))
  BY <1>9
<1>11. g \in Int /\ g - first \in 0..(Horizon - 1) /\ first + (g - first) = g /\ Calendar!OnDay(s, g)
  BY <1>1, <1>5, <1>6, <1>10, CalendarConstants
<1>12. Calendar!LocalTime(g, s.hour) # NoTime /\ Calendar!LocalTime(g, s.hour) > t
  BY <1>10, <1>11, LocalTimeIs
<1>13. g - first \in Calendar!Found(s, t)
  <2> DEFINE l == g - first
  <2>1. l \in 0..(Horizon - 1) /\ first + l = g
    BY <1>11
  <2> HIDE DEF l
  <2>2. l \in Calendar!Found(s, t)
    BY <1>11, <1>12, <2>1 DEF Calendar!Found, first
  <2> QED
    BY <2>2 DEF l
<1> QED
  BY <1>13

\* What the search returns, at any time.
LEMMA SearchIsRight ==
  ASSUME NEW s \in Calendar!Valid, zone \in Zones, NEW t \in Int
  PROVE  \E d \in Int :
           /\ Occurs(s, d)
           /\ Calendar!NextTime(s, t) = Calendar!FromWall(At(s, d)) /\ Calendar!FromWall(At(s, d)) \in Int
           /\ Calendar!FromWall(At(s, d)) > t
           /\ \A e \in Int : Calendar!FirstDay(t) <= e /\ e < d /\ Occurs(s, e) => ~ (Calendar!FromWall(At(s, e)) > t)
  BY SearchFinds, SearchFindsFirst

\* No occurrence ahead lies before the day of the clock.
LEMMA NoneBeforeToday ==
  ASSUME NEW s \in Calendar!Valid, zone \in Zones, NEW t \in Int, NEW d \in Int, Occurs(s, d),
         Calendar!FromWall(At(s, d)) > t
  PROVE  Calendar!FirstDay(t) <= d /\ Calendar!Wall(t) < At(s, d)
<1> DEFINE u == Calendar!FromWall(At(s, d))
           first == Calendar!FirstDay(t)
<1>1. u \in Int /\ Calendar!Wall(u) = At(s, d) /\ At(s, d) \in Int
  BY LocalTimeIs, AtDay DEF Occurs, Shown
<1>2. u = Calendar!FromWall(Calendar!Wall(u))
  BY <1>1
<1> HIDE DEF u
<1>3. Calendar!Wall(t) < Calendar!Wall(u)
  <2>1. t < u
    BY <1>1 DEF u
  <2> QED
    BY <1>1, <1>2, <2>1, CalendarConstants, LaterShowsLater
<1>4. first \in Int /\ Calendar!Wall(t) \in Int /\ first * Hours <= Calendar!Wall(t)
  BY FirstDayIs
<1> HIDE DEF first
<1>5. ASSUME d < first
      PROVE  FALSE
  <2>1. d * Hours + Hours <= first * Hours /\ At(s, d) < d * Hours + Hours
    BY <1>4, <1>5, LaterDay, AtDay, CalendarConstants
  <2>2. d * Hours \in Int /\ first * Hours \in Int
    BY <1>4, CalendarConstants
  <2> QED
    BY <1>1, <1>3, <1>4, <2>1, <2>2, CalendarConstants
<1> QED
  BY <1>1, <1>3, <1>4, <1>5 DEF first

LEMMA SearchIsLeast ==
  ASSUME NEW s \in Calendar!Valid, zone \in Zones, NEW t \in Nat, Calendar!Ahead(s, t) # {}
  PROVE  Calendar!NextTime(s, t) = Calendar!Min(Calendar!Ahead(s, t))
<1> DEFINE ahead == Calendar!Ahead(s, t)
           v == Calendar!Min(ahead)
<1>1. ahead \subseteq Nat /\ ahead # {}
  BY DEF Calendar!Ahead, Calendar!Occurrences, Calendar!Utc
<1>2. v \in ahead /\ \A u \in ahead : v <= u
  <2> HIDE DEF ahead
  <2> QED
    BY <1>1, LeastOfNaturals
<1> HIDE DEF v
<1>3. v \in Calendar!Occurrences(s) /\ v > t /\ v \in Calendar!Utc
  BY <1>2 DEF Calendar!Ahead, Calendar!Occurrences
<1>4. PICK e \in Int : Occurs(s, e) /\ v = Calendar!FromWall(At(s, e))
  BY <1>3, OccurrenceIs
<1>5. PICK d \in Int :
           /\ Occurs(s, d)
           /\ Calendar!NextTime(s, t) = Calendar!FromWall(At(s, d)) /\ Calendar!FromWall(At(s, d)) \in Int
           /\ Calendar!FromWall(At(s, d)) > t
           /\ \A g \in Int : Calendar!FirstDay(t) <= g /\ g < d /\ Occurs(s, g) => ~ (Calendar!FromWall(At(s, g)) > t)
  BY SearchIsRight
<1> DEFINE u == Calendar!FromWall(At(s, d))
<1>6. d <= e
  <2>1. Calendar!FirstDay(t) <= e
    BY <1>3, <1>4, NoneBeforeToday
  <2> QED
    BY <1>3, <1>4, <1>5, <2>1
<1>7. u <= v /\ v \in Int
  <2>1. CASE d = e
    BY <1>4, <1>5, <2>1
  <2>2. CASE d < e
    <3>1. At(s, d) < At(s, e) /\ At(s, d) \in Int /\ At(s, e) \in Int
      <4>1. At(s, d) + Hours <= At(s, e) /\ At(s, d) \in Int /\ At(s, e) \in Int
        BY <2>2, AtGrows, AtDay
      <4> QED
        BY <4>1, CalendarConstants
    <3>2. u < Calendar!FromWall(At(s, e))
      BY <1>4, <1>5, <3>1, CalendarConstants, LaterIsShownLater DEF Occurs
    <3>3. v \in Int
      BY <1>3 DEF Calendar!Utc
    <3> QED
      BY <1>4, <1>5, <3>2, <3>3
  <2> QED
    BY <1>6, <2>1, <2>2
<1>8. u \in ahead
  <2>1. u \in Calendar!Utc
    <3>1. MaxDay * Hours \in Nat
      BY CalendarConstants
    <3>2. u \in Int /\ u > t /\ u <= v
      BY <1>5, <1>7
    <3> HIDE DEF u
    <3> QED
      BY <1>3, <1>7, <3>1, <3>2 DEF Calendar!Utc
  <2>2. u \in Calendar!Occurrences(s)
    BY <1>5, <2>1, OccurrenceIs
  <2> QED
    BY <1>5, <2>2 DEF Calendar!Ahead
<1>9. u = v
  BY <1>2, <1>5, <1>7, <1>8
<1> QED
  BY <1>5, <1>9 DEF v

\* From one occurrence to the next the day of the clock grows, however late the first
\* one was consumed.
LEMMA NextIsOnALaterDay ==
  ASSUME NEW s \in Calendar!Valid, zone \in Zones, NEW t \in Int, NEW late \in Nat
  PROVE  LET u == Calendar!NextTime(s, t)
         IN  Calendar!Wall(Calendar!NextTime(s, u + late)) \div Hours > Calendar!Wall(u) \div Hours
<1> DEFINE u == Calendar!NextTime(s, t)
           v == Calendar!NextTime(s, u + late)
<1>1. PICK d \in Int : Occurs(s, d) /\ u = Calendar!FromWall(At(s, d)) /\ u \in Int
  BY SearchIsRight
<1> HIDE DEF u
<1>2. u + late \in Int
  BY <1>1
<1>3. PICK e \in Int : Occurs(s, e) /\ v = Calendar!FromWall(At(s, e)) /\ v \in Int /\ v > u + late
  BY <1>2, SearchIsRight
<1> HIDE DEF v
<1>4. Calendar!Wall(u) = At(s, d) /\ Calendar!Wall(v) = At(s, e) /\ At(s, d) \in Int /\ At(s, e) \in Int
  BY <1>1, <1>3, AtDay DEF Occurs, Shown
<1>5. At(s, d) < At(s, e)
  <2>1. u < v /\ v = Calendar!FromWall(Calendar!Wall(v))
    BY <1>1, <1>3, <1>4
  <2> QED
    BY <1>1, <1>3, <1>4, <2>1, CalendarConstants, LaterShowsLater
<1>6. d < e
  <2>1. d # e
    BY <1>4, <1>5
  <2>2. ASSUME e < d
        PROVE  FALSE
    BY <1>4, <1>5, <2>2, AtGrows, CalendarConstants
  <2> QED
    BY <2>1, <2>2
<1>7. Calendar!Wall(u) \div Hours = d /\ Calendar!Wall(v) \div Hours = e
  BY <1>4, AtDay
<1> QED
  BY <1>6, <1>7 DEF u, v

-----------------------------------------------------------------------------
(* The theorems.  A step of one part leaves the state of the others alone, so *)
(* each part takes a step of its own or none.                                 *)

partsVars == <<part, vars, calendarVars, endpointVars, rolesVars>>

LEMMA PartsSteps ==
  ASSUME [PartsNext]_partsVars
  PROVE  [Next]_vars /\ [Endpoint!Next]_endpointVars /\ [Roles!Next]_rolesVars
BY DEF PartsNext, partsVars

LEMMA PartsInitially ==
  ASSUME PartsInit
  PROVE  Init /\ Endpoint!Init /\ Roles!Init
BY DEF PartsInit

\* The inductive invariant: the properties hold at any time of any schedule and zone.
CalendarIInv == part = "calendar" => schedule \in Calendar!Valid /\ zone \in Zones /\ now \in Nat

LEMMA CalendarInitially == PartsInit => CalendarIInv
<1>1. Hours \in Nat
  BY CalendarConstants
<1> QED
  BY <1>1 DEF PartsInit, Calendar!Init, CalendarIInv

LEMMA CalendarNext == CalendarIInv /\ [PartsNext]_partsVars => CalendarIInv'
<1> SUFFICES ASSUME CalendarIInv, [PartsNext]_partsVars, part' = "calendar"
             PROVE  (schedule \in Calendar!Valid /\ zone \in Zones /\ now \in Nat)'
  BY DEF CalendarIInv
<1>1. CASE UNCHANGED <<part, calendarVars>>
  BY <1>1 DEF CalendarIInv, calendarVars
<1>2. CASE part = "calendar" /\ Calendar!Next
  <2>1. schedule' = schedule /\ zone' = zone
    BY <1>2 DEF Calendar!Next, Calendar!Consumed
  <2>2. now' \in Calendar!Utc
    BY <1>2 DEF Calendar!Next, Calendar!Consumed
  <2> QED
    BY <1>2, <2>1, <2>2 DEF CalendarIInv, Calendar!Utc
<1> QED
  BY <1>1, <1>2 DEF PartsNext, partsVars

LEMMA CalendarKeeps == CalendarIInv => CalendarInv
<1> SUFFICES ASSUME schedule \in Calendar!Valid, zone \in Zones, now \in Nat
             PROVE  Calendar!CalendarInv
  BY DEF CalendarIInv, CalendarInv
<1>1. Calendar!NextIsLeast
  BY SearchIsLeast DEF Calendar!NextIsLeast
<1>2. Calendar!AlwaysFound
  <2>1. now \in Int
    OBVIOUS
  <2>2. Calendar!NextTime(schedule, now) \in Int
    BY <2>1, SearchIsRight
  <2> QED
    BY <2>2, CalendarConstants DEF Calendar!AlwaysFound
<1>3. Calendar!OnceADay
  <2>1. now \in Int /\ 0..1 \subseteq Nat
    OBVIOUS
  <2> QED
    BY <2>1, NextIsOnALaterDay DEF Calendar!OnceADay
<1> QED
  BY <1>1, <1>2, <1>3 DEF Calendar!CalendarInv

\* Alerts are of the right type, open only for rules of the saved definition, and open
\* once (retire_changed, record).
THEOREM AlertsStayCurrent == PartsSpec => []AlertsInv
<1>1. PartsInit => AlertsIInv
  BY PartsInitially, AlertsInitially
<1>2. AlertsIInv /\ [PartsNext]_partsVars => AlertsIInv'
  BY PartsSteps, AlertsNext
<1>3. AlertsIInv => AlertsInv
  BY DEF AlertsIInv
<1> QED
  BY <1>1, <1>2, <1>3, PTL DEF PartsSpec, partsVars

\* A resolved alert stays as it was resolved and an acknowledged one acknowledged
\* (record, acknowledge).
THEOREM ResolvedStayResolved == PartsSpec => ResolvedForGood
<1>1. PartsInit => AlertsIInv
  BY PartsInitially, AlertsInitially
<1>2. AlertsIInv /\ [PartsNext]_partsVars => AlertsIInv'
  BY PartsSteps, AlertsNext
<1>3. AlertsIInv /\ [PartsNext]_partsVars => [KeepsResolved]_vars
  BY PartsSteps, AlertsKept
<1> QED
  BY <1>1, <1>2, <1>3, PTL DEF PartsSpec, partsVars, ResolvedForGood

\* A run is admitted, and each of its steps done, under the role it was submitted or
\* scheduled with and never above what its user then held, in the mode its schedule was
\* saved in (effective_role, _check_account, _authorize, _worker).
THEOREM NothingAboveItsRole == PartsSpec => []RolesInv
<1>1. PartsInit => RolesIInv
  BY PartsInitially, RolesInitially
<1>2. RolesIInv /\ [PartsNext]_partsVars => RolesIInv'
  BY PartsSteps, RolesNext
<1>3. RolesIInv => RolesInv
  BY DEF RolesIInv, RolesInv, Roles!RolesInv
<1> QED
  BY <1>1, <1>2, <1>3, PTL DEF PartsSpec, partsVars

\* What a request follows or is answered with is of a statement its user posted, and a
\* path stays good until as many others as the map holds came after it (serve_endpoint).
THEOREM PagesStayWithTheirOwner == PartsSpec => []EndpointInv
<1>1. PartsInit => EndpointIInv
  BY PartsInitially, EndpointInitially
<1>2. EndpointIInv /\ [PartsNext]_partsVars => EndpointIInv'
  BY PartsSteps, EndpointNext
<1>3. EndpointIInv => EndpointInv
  BY EndpointKeeps DEF EndpointInv
<1> QED
  BY <1>1, <1>2, <1>3, PTL DEF PartsSpec, partsVars

\* For any zone, any schedule and at any time the day-by-day search finds the next run,
\* which is the least there is, and never two on a day (_next, _local_time).
THEOREM CalendarFindsTheNextRun == PartsSpec => []CalendarInv
<1>1. CalendarIInv /\ [PartsNext]_partsVars => CalendarIInv'
  BY CalendarNext
<1> QED
  BY <1>1, CalendarInitially, CalendarKeeps, PTL DEF PartsSpec, partsVars
=============================================================================
