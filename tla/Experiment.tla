----------------------------- MODULE Experiment -----------------------------
(***************************************************************************)
(* local_experiment.py: manifests are prepared into a plan, applied while   *)
(* the two Flux reconcilers that would revert them are suspended, and the   *)
(* reconcilers resumed later, from the plan.  One lock serializes the       *)
(* commands; each may die between any two of its requests and writes, and a *)
(* request may take effect without an answer.  Operators change the         *)
(* reconcilers and the objects meanwhile, and Flux reverts what nobody      *)
(* holds back.                                                              *)
(*                                                                          *)
(* One component is modelled: its root and child reconcilers, its objects.  *)
(* A plan stands for the content it renders.                                *)
(***************************************************************************)
EXTENDS Naturals

CONSTANTS Plan,       \* the plans ever prepared
          Objects,    \* how many objects the component has
          MaxHands,   \* bound: changes by operators
          None

VARIABLES flux,       \* whether each reconciler is suspended, and its uid
          live,       \* the objects: content, and how often they were written
          plans,      \* the plan.json of each directory
          pointer,    \* shirokuma-local-experiment-active.json
          cmd,        \* the command that holds the lock
          ours,       \* history: it was suspended by a command, and not changed since
          given,      \* history: what it was before the commands
          hands       \* history: how often operators changed something

vars == <<flux, live, plans, pointer, cmd, ours, given, hands>>
history == <<ours, given, hands>>

Flux    == {"root", "child"}
Order   == <<"root", "child">>
Contents == {"git", "hand"} \cup Plan
Entry   == [uid : 0..1, previous : BOOLEAN, changed : BOOLEAN, pending : BOOLEAN]
Status  == {"none", "prepared", "applying", "applied", "apply-failed", "resumed", "resume-failed",
            "superseded"}
Record  == [status : Status, before : [1..Objects -> Contents], entries : [Flux -> Entry]]
Pointer == [run : Plan, previous : Plan \cup {None}]
Place   == {"idle", "reserve", "check", "suspend", "ask", "confirm", "patch", "write", "resume",
            "lift", "lifted", "leave"}

NoEntries == [f \in Flux |-> [uid |-> 0, previous |-> FALSE, changed |-> FALSE, pending |-> FALSE]]
NoPlan == [status |-> "none", before |-> [i \in 1..Objects |-> "git"], entries |-> NoEntries]
Idle == [pc |-> "idle", run |-> None, active |-> None, inherited |-> None, at |-> 1, seen |-> 0]

TypeOK ==
  /\ flux \in [Flux -> [suspended : BOOLEAN, uid : 0..1]]
  /\ live \in [1..Objects -> [content : Contents, version : Nat]]
  /\ plans \in [Plan -> Record] /\ pointer \in Pointer \cup {None}
  /\ cmd \in [pc : Place, run : Plan \cup {None}, active : Pointer \cup {None},
              inherited : Plan \cup {None}, at : 1..2 \cup 1..Objects, seen : Nat]
  /\ ours \in [Flux -> BOOLEAN] /\ given \in [Flux -> BOOLEAN] /\ hands \in 0..MaxHands

Init ==
  /\ flux \in { [f \in Flux |-> [suspended |-> s[f], uid |-> 0]] : s \in [Flux -> BOOLEAN] }
  /\ live = [i \in 1..Objects |-> [content |-> "git", version |-> 0]]
  /\ plans = [p \in Plan |-> NoPlan]
  /\ pointer = None /\ cmd = Idle
  /\ ours = [f \in Flux |-> FALSE] /\ given = [f \in Flux |-> flux[f].suspended] /\ hands = 0

-----------------------------------------------------------------------------
(* The commands *)

Mine  == plans[cmd.run]
At    == Order[cmd.at]
Entries == Mine.entries[At]
Live  == [i \in 1..Objects |-> live[i].content]
Goes(place) == cmd' = [cmd EXCEPT !.pc = place]

\* write_json of the plan.
Saves(plan) == plans' = [plans EXCEPT ![cmd.run] = plan]
SavesEntry(entry) == Saves([Mine EXCEPT !.entries[At] = entry])

\* apply and resume write their outcome, a failure before it is raised.
Ends(status) ==
  /\ Saves([Mine EXCEPT !.status = status])
  /\ Goes("leave")

\* prepare: it only reads the cluster.
Prepare(p) ==
  /\ cmd.pc = "idle" /\ plans[p].status = "none"
  /\ plans' = [plans EXCEPT ![p] = [NoPlan EXCEPT !.status = "prepared", !.before = Live]]
  /\ UNCHANGED <<flux, live, pointer, cmd, history>>

\* active_run: a reservation whose run never began leads back to its predecessor.
Recovered ==
  IF pointer # None /\ pointer.previous # None /\ plans[pointer.run].status = "prepared"
    THEN [run |-> pointer.previous, previous |-> None] ELSE pointer

\* main takes the lock and looks for another run that retains suspensions: only a new
\* apply may take them over.
Begin(p, kind) ==
  LET other   == Recovered # None /\ Recovered.run # p
      refused == \/ other /\ (kind = "resume" \/ plans[Recovered.run].status \notin {"applied", "apply-failed"})
                 \/ kind = "reserve" /\ plans[p].status # "prepared"
  IN  /\ cmd.pc = "idle" /\ plans[p].status # "none"
      /\ pointer' = Recovered
      /\ cmd' = IF refused THEN cmd
                ELSE [Idle EXCEPT !.pc = kind, !.run = p, !.active = Recovered,
                                  !.inherited = IF other THEN Recovered.run ELSE None]
      /\ UNCHANGED <<flux, live, plans, history>>

Reserve ==
  /\ cmd.pc = "reserve"
  /\ pointer' = [run |-> cmd.run, previous |-> cmd.inherited]
  /\ Goes("check")
  /\ UNCHANGED <<flux, live, plans, history>>

\* suspension_snapshot.
Snapshot == [f \in Flux |-> [NoEntries[f] EXCEPT !.uid = flux[f].uid, !.previous = flux[f].suspended]]

\* Mutant: what an earlier run suspended is taken for what was there.
SnapshotAlways == Snapshot
Scope == IF cmd.inherited = None THEN Snapshot ELSE plans[cmd.inherited].entries

\* apply, up to its first write: the objects are as they were, nothing is ambiguous.
Check ==
  /\ cmd.pc = "check"
  /\ UNCHANGED <<flux, live, pointer, history>>
  /\ \/ /\ Live = Mine.before /\ \A f \in Flux : ~Scope[f].pending
        /\ Saves([Mine EXCEPT !.status = "applying", !.entries = Scope])
        /\ Goes("suspend")
     \/ Goes("leave") /\ UNCHANGED plans

Onward == cmd' = [cmd EXCEPT !.at = 3 - @, !.pc = IF cmd.at = 1 THEN "suspend" ELSE "patch"]

\* What is suspended has to be so still; what is not is marked before it is asked for.
Suspend ==
  /\ cmd.pc = "suspend"
  /\ UNCHANGED <<flux, live, pointer, history>>
  /\ \/ /\ Entries.previous \/ Entries.changed
        /\ flux[At] = [suspended |-> TRUE, uid |-> Entries.uid]
        /\ Onward /\ UNCHANGED plans
     \/ /\ ~Entries.previous /\ ~Entries.changed
        /\ SavesEntry([Entries EXCEPT !.pending = TRUE])
        /\ Goes("ask")
     \/ Ends("apply-failed")

\* set_suspended: it reads the reconciler and writes it under its resource version.
Sets(value) ==
  /\ flux[At] = [suspended |-> ~value, uid |-> Entries.uid]
  /\ flux' = [flux EXCEPT ![At].suspended = value]
  /\ ours' = [ours EXCEPT ![At] = value]

Ask ==
  /\ cmd.pc = "ask"
  /\ \/ Sets(TRUE) /\ (\/ Goes("confirm") /\ UNCHANGED plans
                       \/ Ends("apply-failed"))
     \/ UNCHANGED <<flux, ours>> /\ Ends("apply-failed")
  /\ UNCHANGED <<live, pointer, given, hands>>

Confirm ==
  /\ cmd.pc = "confirm"
  /\ SavesEntry([Entries EXCEPT !.changed = TRUE, !.pending = FALSE])
  /\ Onward
  /\ UNCHANGED <<flux, live, pointer, history>>

\* patch_existing: the object is compared with what was prepared against, merged by a
\* dry run, and written if its version is still the one that was seen.
Patch ==
  /\ cmd.pc = "patch"
  /\ \/ /\ live[cmd.at].content = Mine.before[cmd.at]
        /\ cmd' = [cmd EXCEPT !.pc = "write", !.seen = live[cmd.at].version]
        /\ UNCHANGED plans
     \/ Ends("apply-failed")
  /\ UNCHANGED <<flux, live, pointer, history>>

Written ==
  /\ live' = [live EXCEPT ![cmd.at] = [content |-> cmd.run, version |-> @.version + 1]]
  /\ \/ IF cmd.at < Objects THEN cmd' = [cmd EXCEPT !.at = @ + 1, !.pc = "patch"] /\ UNCHANGED plans
                            ELSE Ends("applied")
     \/ Ends("apply-failed")

Write ==
  /\ cmd.pc = "write"
  /\ \/ live[cmd.at].version = cmd.seen /\ Written
     \/ UNCHANGED live /\ Ends("apply-failed")
  /\ UNCHANGED <<flux, pointer, history>>

\* resume: of a plan that may retain suspensions, none of them ambiguous; the child first.
Resume ==
  /\ cmd.pc = "resume"
  /\ \/ /\ Mine.status \in {"applied", "apply-failed", "applying", "resume-failed"}
        /\ \A f \in Flux : ~Mine.entries[f].pending
        /\ cmd' = [cmd EXCEPT !.pc = "lift", !.at = 2]
     \/ Goes("leave")
  /\ UNCHANGED <<flux, live, plans, pointer, history>>

Downward ==
  IF cmd.at = 2 THEN cmd' = [cmd EXCEPT !.at = 1, !.pc = "lift"] /\ UNCHANGED plans ELSE Ends("resumed")

Lift ==
  /\ cmd.pc = "lift"
  /\ \/ ~Entries.changed /\ Downward /\ UNCHANGED <<flux, ours>>
     \/ Entries.changed /\ Sets(FALSE) /\ (\/ Goes("lifted") /\ UNCHANGED plans
                                           \/ Ends("resume-failed"))
     \/ Entries.changed /\ UNCHANGED <<flux, ours>> /\ Ends("resume-failed")
  /\ UNCHANGED <<live, pointer, given, hands>>

Lifted ==
  /\ cmd.pc = "lifted"
  /\ SavesEntry([Entries EXCEPT !.changed = FALSE])
  /\ Goes("lift")
  /\ UNCHANGED <<flux, live, pointer, history>>

\* Mutant: a run that failed before its first write forgets the one it would replace.
LeaveForgetting ==
  /\ cmd.pc = "leave"
  /\ pointer' = IF Mine.status \in {"prepared", "resumed"} THEN None ELSE pointer
  /\ plans' = IF Mine.status \notin {"prepared", "resumed"} /\ cmd.inherited # None
                THEN [plans EXCEPT ![cmd.inherited].status = "superseded"] ELSE plans
  /\ cmd' = Idle
  /\ UNCHANGED <<flux, live, history>>

\* main, at the end of either: who retains suspensions now.
Leave ==
  /\ cmd.pc = "leave"
  /\ pointer' = IF Mine.status \notin {"prepared", "resumed"} THEN pointer
                ELSE IF Mine.status = "prepared" /\ cmd.inherited # None THEN cmd.active ELSE None
  /\ plans' = IF Mine.status \notin {"prepared", "resumed"} /\ cmd.inherited # None
                THEN [plans EXCEPT ![cmd.inherited].status = "superseded"] ELSE plans
  /\ cmd' = Idle
  /\ UNCHANGED <<flux, live, history>>

\* The process dies; what it wrote stays, and the lock is free.
Dies ==
  /\ cmd.pc # "idle"
  /\ cmd' = Idle
  /\ UNCHANGED <<flux, live, plans, pointer, history>>

-----------------------------------------------------------------------------
(* The others *)

\* An operator, or lab_lifecycle.up, changes a reconciler, or recreates it.
HandOnFlux(f) ==
  /\ hands < MaxHands /\ hands' = hands + 1
  /\ flux' = [flux EXCEPT ![f].suspended = ~@] \/ flux' = [flux EXCEPT ![f] = [suspended |-> FALSE, uid |-> 1]]
  /\ ours' = [ours EXCEPT ![f] = FALSE]
  /\ UNCHANGED <<live, plans, pointer, cmd, given>>

\* Somebody edits an object.
HandOnObject(i) ==
  /\ hands < MaxHands /\ hands' = hands + 1
  /\ live' = [live EXCEPT ![i] = [content |-> "hand", version |-> @.version + 1]]
  /\ UNCHANGED <<flux, plans, pointer, cmd, ours, given>>

\* Flux brings an object back to what the repository says.
Reconciles(i) ==
  /\ ~flux["child"].suspended /\ live[i].content # "git"
  /\ live' = [live EXCEPT ![i] = [content |-> "git", version |-> @.version + 1]]
  /\ UNCHANGED <<flux, plans, pointer, cmd, history>>

\* The root's reconciler brings the child back to what the repository says of it.
ReconcilesChild ==
  /\ ~flux["root"].suspended /\ flux["child"].suspended
  /\ flux' = [flux EXCEPT !["child"].suspended = FALSE]
  /\ ours' = [ours EXCEPT !["child"] = FALSE]
  /\ given' = [given EXCEPT !["child"] = FALSE]
  /\ UNCHANGED <<live, plans, pointer, cmd, hands>>

Next ==
  \/ \E p \in Plan : Prepare(p) \/ \E kind \in {"reserve", "resume"} : Begin(p, kind)
  \/ Reserve \/ Check \/ Suspend \/ Ask \/ Confirm \/ Patch \/ Write
  \/ Resume \/ Lift \/ Lifted \/ Leave \/ Dies
  \/ ReconcilesChild \/ \E f \in Flux : HandOnFlux(f)
  \/ \E i \in 1..Objects : HandOnObject(i) \/ Reconciles(i)

Spec == Init /\ [][Next]_vars

-----------------------------------------------------------------------------
(* Properties *)

\* A suspension that a command made is never forgotten, whenever the command died or an
\* answer was lost: the active run, or the one it leads back to, tells of it in its plan,
\* as made or as asked for (main, active_run, apply).
NothingForgotten ==
  \A f \in Flux : ours[f] =>
    /\ Recovered # None
    /\ \/ plans[Recovered.run].entries[f].changed \/ plans[Recovered.run].entries[f].pending

\* Types, and no suspension without a plan that tells of it (apply, resume).
ExperimentInv == TypeOK /\ NothingForgotten

\* An object is replaced only if it still is what the plan was prepared against, and
\* while the reconcilers that could revert it are suspended, unless operators interfere
\* (patch_existing, apply).
AppliesToWhatWasPrepared ==
  \A i \in 1..Objects : live'[i] # live[i] /\ live'[i].content \in Plan =>
    /\ live[i].content = Mine.before[i]
    /\ hands = 0 => \A f \in Flux : flux[f].suspended

\* A resume gives back what was there before the first of the runs that took over from
\* each other, unless operators interfere (resume, and the inheritance in apply).
ResumesWhatWasGiven ==
  cmd.pc # "idle" /\ Mine.status # "resumed" /\ plans'[cmd.run].status = "resumed" /\ hands = 0 =>
    \A f \in Flux : flux[f].suspended = given[f]

StepIsReviewed == AppliesToWhatWasPrepared /\ ResumesWhatWasGiven
\* Every write of an object and every resume is what its plan was reviewed for
\* (patch_existing, resume).
HandsOverInOrder == [][StepIsReviewed]_vars
=============================================================================
