---------------------------------- MODULE Lab ----------------------------------
(***************************************************************************)
(* The commands that bring the lab up and down: lab_lifecycle.py, which     *)
(* runs the managers of the AgentHouse and Loki containers one after the    *)
(* other, and polaris_permissions.py.  Each command is a process that may   *)
(* die between any two of its Docker calls, requests and writes, or run     *)
(* beside another; only Loki's takes a lock.                                *)
(*                                                                          *)
(* A secret is the number of the process that drew it; a file is the secret *)
(* in it, 0 once it is created and not yet written.                         *)
(***************************************************************************)
EXTENDS Naturals, Sequences

CONSTANTS Proc,        \* processes
          Namespaces,  \* those that get the grant, in order
          Targets,     \* how many resources of the cluster lab up sets, in order
          MaxStarts,   \* bound: how often a process is started
          None

VARIABLES vm,          \* whether the virtual machine runs
          cluster,     \* how many of the resources are as lab up wants them
          files,       \* the files of AgentHouse
          house,       \* its container and its volume
          loki,        \* the same of Loki
          flock,       \* who holds Loki's lock
          polaris,     \* the role, its membership and its grants
          proc,        \* the processes
          starts,      \* how often one was started
          spoiled      \* history: AgentHouse was left half made

vars == <<vm, cluster, files, house, loki, flock, polaris, proc, starts, spoiled>>

Commands == {"vm up", "cluster", "house up", "loki up", "house stop", "loki stop", "vm down", "permissions"}
LabUp    == <<"vm up", "cluster", "house up", "loki up">>
LabDown  == <<"house stop", "loki stop", "vm down">>
Lists    == {LabUp, LabDown, <<"house up">>, <<"loki up">>, <<"permissions">>}

Secret == 1..MaxStarts
File   == Secret \cup {0, None}
House  == [secret : Secret \cup {0, None}, running : BOOLEAN, volume : BOOLEAN]   \* no secret: no container
Loki   == [container : BOOLEAN, running : BOOLEAN, volume : BOOLEAN]
Place  == {"idle", "begin", "volume?", "saved?", "credential", "environment", "volume", "create", "read", "start",
           "ready?", "look", "run", "stop", "role", "member?", "member", "grants?", "grant", "verify",
           "done", "refused", "failed"}
Process == [todo : Seq(Commands), pc : Place, me : 0..MaxStarts, found : BOOLEAN, running : BOOLEAN,
            secret : File, lacks : SUBSET (1..Namespaces), alone : BOOLEAN]
NoProcess == [todo |-> <<>>, pc |-> "idle", me |-> 0, found |-> FALSE, running |-> FALSE,
              secret |-> None, lacks |-> {}, alone |-> TRUE]

TypeOK ==
  /\ vm \in BOOLEAN /\ cluster \in 0..Targets
  /\ files \in [{"credential.json", "state.json", "container.env"} -> File]
  /\ house \in House /\ loki \in Loki /\ flock \in Proc \cup {None}
  /\ polaris \in [role : BOOLEAN, member : BOOLEAN, grants : SUBSET (1..Namespaces)]
  /\ proc \in [Proc -> Process] /\ starts \in 0..MaxStarts /\ spoiled \in BOOLEAN

NoFiles == [f \in {"credential.json", "state.json", "container.env"} |-> None]

\* Nothing yet, or a container of an earlier lab, whose secret is in either file.
Init ==
  /\ vm = FALSE /\ cluster = 0
  /\ \/ house = [secret |-> None, running |-> FALSE, volume |-> FALSE] /\ files = NoFiles
     \/ /\ house = [secret |-> 1, running |-> FALSE, volume |-> TRUE]
        /\ \E f \in {"credential.json", "state.json"} : files = [NoFiles EXCEPT ![f] = 1]
  /\ loki = [container |-> FALSE, running |-> FALSE, volume |-> FALSE] /\ flock = None
  /\ polaris = [role |-> FALSE, member |-> FALSE, grants |-> {}]
  /\ proc = [p \in Proc |-> NoProcess]
  /\ starts = IF house.secret = None THEN 0 ELSE 1
  /\ spoiled = FALSE

-----------------------------------------------------------------------------
(* A process *)

At(p, command, place) == proc[p].pc = place /\ Head(proc[p].todo) = command
Working(p) == proc[p].pc # "idle"

\* A step of p: the others are no longer alone.
Becomes(p, new) ==
  proc' = [q \in Proc |-> IF q = p THEN new ELSE [proc[q] EXCEPT !.alone = ~Working(q)]]
Goes(p, place) == Becomes(p, [proc[p] EXCEPT !.pc = place])
holdings == <<cluster, files, house, loki, polaris, spoiled>>

Begin(p) ==
  /\ ~Working(p) /\ starts < MaxStarts /\ starts' = starts + 1
  /\ \E l \in Lists : Becomes(p, [NoProcess EXCEPT !.todo = l, !.pc = "begin", !.me = starts + 1,
                                                   !.alone = \A q \in Proc \ {p} : ~Working(q)])
  /\ UNCHANGED <<vm, holdings, flock>>

Frees(p) == flock' = IF flock = p THEN None ELSE flock
HalfMade(p) == proc[p].pc \in {"environment", "volume", "create"} /\ Head(proc[p].todo) = "house up"

\* The next command: down goes on after a failure, up does not.
Onward(p) ==
  /\ proc[p].pc \in {"done", "refused", "failed"}
  /\ LET rest   == Tail(proc[p].todo)
         goesOn == rest # <<>> /\ (proc[p].pc = "done" \/ rest[Len(rest)] = "vm down")
     IN  Becomes(p, IF goesOn THEN [NoProcess EXCEPT !.todo = rest, !.pc = "begin", !.me = proc[p].me,
                                                     !.alone = proc[p].alone]
                              ELSE NoProcess)
  /\ Frees(p)
  /\ UNCHANGED <<vm, holdings, starts>>

\* A Docker call, a request or a write fails, as all of them do without the machine; or
\* the process dies.  An empty file may be left.
Fails(p) ==
  /\ Working(p) /\ proc[p].pc \notin {"done", "refused", "failed"}
  /\ Goes(p, "failed") \/ Becomes(p, NoProcess)
  /\ \/ UNCHANGED files
     \/ proc[p].pc = "credential" /\ files["credential.json"] = None /\ files' = [files EXCEPT !["credential.json"] = 0]
     \/ proc[p].pc = "environment" /\ files["container.env"] = None /\ files' = [files EXCEPT !["container.env"] = 0]
  /\ spoiled' = (spoiled \/ HalfMade(p) \/ files' # files)
  /\ Frees(p)
  /\ UNCHANGED <<vm, cluster, house, loki, polaris, starts>>

Refuses(p) ==
  /\ Goes(p, "refused")
  /\ spoiled' = (spoiled \/ HalfMade(p))
  /\ UNCHANGED <<vm, cluster, files, house, loki, polaris, starts, flock>>

-----------------------------------------------------------------------------
(* lab_lifecycle.py itself *)

VmUp(p) ==
  /\ At(p, "vm up", "begin")
  /\ vm' = TRUE /\ Goes(p, "done")
  /\ UNCHANGED <<holdings, flock, starts>>

\* The resources, one after the other, every time; a down leaves them as they are.
Cluster(p) ==
  /\ At(p, "cluster", "begin") /\ vm
  /\ IF cluster < Targets THEN cluster' = cluster + 1 /\ Goes(p, "begin") ELSE Goes(p, "done") /\ UNCHANGED cluster
  /\ UNCHANGED <<vm, files, house, loki, polaris, spoiled, flock, starts>>

VmDown(p) ==
  /\ At(p, "vm down", "begin")
  /\ vm' = FALSE
  /\ house' = [house EXCEPT !.running = FALSE] /\ loki' = [loki EXCEPT !.running = FALSE]
  /\ Goes(p, "done")
  /\ UNCHANGED <<cluster, files, polaris, spoiled, flock, starts>>

-----------------------------------------------------------------------------
(* agenthouse/manage.py *)

CredentialPath == IF files["credential.json"] # None THEN "credential.json" ELSE "state.json"
Leaves(unchanged) == UNCHANGED <<vm, cluster, loki, polaris, starts, flock, unchanged>>

InspectContainer(p) ==
  /\ At(p, "house up", "begin") /\ vm
  /\ Becomes(p, [proc[p] EXCEPT !.pc = "volume?", !.found = house.secret # None, !.running = house.running])
  /\ Leaves(<<files, house, spoiled>>)

InspectVolume(p) ==
  /\ At(p, "house up", "volume?") /\ vm
  /\ IF proc[p].found # house.volume THEN Refuses(p)
     ELSE Goes(p, IF proc[p].found THEN "read" ELSE "saved?") /\ Leaves(<<files, house, spoiled>>)

Saved(p) ==
  /\ At(p, "house up", "saved?") /\ vm
  /\ IF files[CredentialPath] # None \/ files["container.env"] # None THEN Refuses(p)
     ELSE Goes(p, "credential") /\ Leaves(<<files, house, spoiled>>)

\* Mutant: write_private opens the file whether it is there or not.
WritesOver(p, file, place) ==
  files' = [files EXCEPT ![file] = proc[p].me] /\ Goes(p, place) /\ Leaves(<<house, spoiled>>)

\* write_private creates the file or fails.
Writes(p, file, place) ==
  IF files[file] # None THEN Refuses(p)
  ELSE files' = [files EXCEPT ![file] = proc[p].me] /\ Goes(p, place) /\ Leaves(<<house, spoiled>>)

WriteCredential(p)  == At(p, "house up", "credential") /\ Writes(p, "credential.json", "environment")
WriteEnvironment(p) == At(p, "house up", "environment") /\ Writes(p, "container.env", "volume")

CreateVolume(p) ==
  /\ At(p, "house up", "volume") /\ vm
  /\ house' = [house EXCEPT !.volume = TRUE]
  /\ Goes(p, "create") /\ Leaves(<<files, spoiled>>)

CreateContainer(p) ==
  /\ At(p, "house up", "create") /\ vm
  /\ IF house.secret # None THEN Refuses(p)
     ELSE /\ house' = [house EXCEPT !.secret = files["container.env"]]
          /\ Goes(p, "read") /\ Leaves(<<files, spoiled>>)

\* Client.from_state: before the start of what was found, after the creation of the new.
ReadCredential(p) ==
  /\ At(p, "house up", "read")
  /\ IF files[CredentialPath] \in {0, None} THEN Refuses(p)
     ELSE /\ Becomes(p, [proc[p] EXCEPT !.secret = files[CredentialPath],
                                        !.pc = IF proc[p].running THEN "ready?" ELSE "start"])
          /\ Leaves(<<files, house, spoiled>>)

StartContainer(p) ==
  /\ At(p, "house up", "start") /\ vm
  /\ house' = [house EXCEPT !.running = TRUE]
  /\ Goes(p, "ready?") /\ Leaves(<<files, spoiled>>)

Ready(p) ==
  /\ At(p, "house up", "ready?")
  /\ IF vm /\ house.running /\ house.secret = proc[p].secret
       THEN Goes(p, "done") /\ Leaves(<<files, house, spoiled>>) ELSE Refuses(p)

StopContainer(p) ==
  /\ At(p, "house stop", "begin") /\ vm
  /\ house' = [house EXCEPT !.running = FALSE]
  /\ Goes(p, "done") /\ Leaves(<<files, spoiled>>)

-----------------------------------------------------------------------------
(* loki/manage.py *)

LokiCommand(p) == Head(proc[p].todo) \in {"loki up", "loki stop"}
Keeps == UNCHANGED <<vm, cluster, files, house, polaris, spoiled, starts>>

TakeLock(p) ==
  /\ proc[p].pc = "begin" /\ LokiCommand(p) /\ vm
  /\ IF flock # None THEN Refuses(p)
     ELSE /\ flock' = p /\ Goes(p, "look")
          /\ Keeps /\ UNCHANGED loki

Look(p) ==
  /\ proc[p].pc = "look" /\ vm
  /\ Goes(p, IF Head(proc[p].todo) = "loki stop" THEN "stop"
             ELSE IF ~loki.container THEN "volume" ELSE IF loki.running THEN "ready?" ELSE "start")
  /\ Keeps /\ UNCHANGED <<loki, flock>>

LokiVolume(p) ==
  /\ At(p, "loki up", "volume") /\ vm
  /\ loki' = [loki EXCEPT !.volume = TRUE]
  /\ Goes(p, "run")
  /\ Keeps /\ UNCHANGED flock

\* docker run: it creates the container, and starts it.
RunContainer(p) ==
  /\ At(p, "loki up", "run") /\ vm /\ ~loki.container
  /\ loki' = [loki EXCEPT !.container = TRUE]
  /\ Goes(p, "start")
  /\ Keeps /\ UNCHANGED flock

StartLoki(p) ==
  /\ At(p, "loki up", "start") /\ vm
  /\ loki' = [loki EXCEPT !.running = TRUE]
  /\ Goes(p, "ready?")
  /\ Keeps /\ UNCHANGED flock

StopLoki(p) ==
  /\ At(p, "loki stop", "stop") /\ vm
  /\ loki' = [loki EXCEPT !.running = FALSE]
  /\ Goes(p, "ready?")
  /\ Keeps /\ UNCHANGED flock

\* What it reports is of the container as it then is.
ReportLoki(p) ==
  /\ proc[p].pc = "ready?" /\ LokiCommand(p)
  /\ IF (vm /\ loki.running) \/ Head(proc[p].todo) = "loki stop"
       THEN Goes(p, "done") /\ Keeps /\ UNCHANGED <<loki, flock>> ELSE Refuses(p)

-----------------------------------------------------------------------------
(* ensure_permissions *)

Asks(p, place) == Goes(p, place) /\ UNCHANGED <<vm, holdings, flock, starts>>
Changes(p, new, place) ==
  /\ polaris' = new /\ Goes(p, place)
  /\ UNCHANGED <<vm, cluster, files, house, loki, spoiled, flock, starts>>

FindRole(p) ==
  /\ At(p, "permissions", "begin") /\ vm
  /\ Asks(p, IF polaris.role THEN "member?" ELSE "role")

CreateRole(p) ==
  /\ At(p, "permissions", "role") /\ vm
  /\ IF polaris.role THEN Refuses(p) ELSE Changes(p, [polaris EXCEPT !.role = TRUE], "member?")

FindMember(p) ==
  /\ At(p, "permissions", "member?") /\ vm
  /\ Asks(p, IF polaris.member THEN "grants?" ELSE "member")

AddMember(p) ==
  /\ At(p, "permissions", "member") /\ vm
  /\ Changes(p, [polaris EXCEPT !.member = TRUE], "grants?")

Missing == 1..Namespaces \ polaris.grants

FindGrants(p) ==
  /\ At(p, "permissions", "grants?") /\ vm
  /\ Becomes(p, [proc[p] EXCEPT !.pc = "grant", !.lacks = Missing])
  /\ UNCHANGED <<vm, holdings, flock, starts>>

Grant(p) ==
  /\ At(p, "permissions", "grant") /\ vm
  /\ \/ proc[p].lacks = {} /\ Asks(p, "verify")
     \/ \E n \in proc[p].lacks :
          /\ \A m \in proc[p].lacks : n <= m
          /\ polaris' = [polaris EXCEPT !.grants = @ \cup {n}]
          /\ Becomes(p, [proc[p] EXCEPT !.lacks = @ \ {n}])
          /\ UNCHANGED <<vm, cluster, files, house, loki, spoiled, flock, starts>>

Verify(p) ==
  /\ At(p, "permissions", "verify") /\ vm
  /\ IF Missing = {} THEN Asks(p, "done") ELSE Refuses(p)

-----------------------------------------------------------------------------

Next ==
  \E p \in Proc :
    \/ Begin(p) \/ Onward(p) \/ Fails(p) \/ VmUp(p) \/ Cluster(p) \/ VmDown(p)
    \/ InspectContainer(p) \/ InspectVolume(p) \/ Saved(p) \/ WriteCredential(p) \/ WriteEnvironment(p)
    \/ CreateVolume(p) \/ CreateContainer(p) \/ ReadCredential(p) \/ StartContainer(p) \/ Ready(p) \/ StopContainer(p)
    \/ TakeLock(p) \/ Look(p) \/ LokiVolume(p) \/ RunContainer(p) \/ StartLoki(p) \/ StopLoki(p) \/ ReportLoki(p)
    \/ FindRole(p) \/ CreateRole(p) \/ FindMember(p) \/ AddMember(p) \/ FindGrants(p) \/ Grant(p) \/ Verify(p)

Spec == Init /\ [][Next]_vars

-----------------------------------------------------------------------------
(* Properties *)

\* The secret on the disk is the container's, whichever of several commands made it and
\* wherever one died: retained data stays reachable (ensure_runtime, write_private).
SecretIsKept == house.secret # None => files[CredentialPath] = house.secret

\* A command that works alone is refused only where AgentHouse was left half made; Loki
\* and the permissions go on from wherever an earlier command stopped.
GoesOnFromAnywhere ==
  \A p \in Proc : proc[p].pc = "refused" /\ proc[p].alone => Head(proc[p].todo) = "house up" /\ spoiled

\* What a command reports done, and did alone, is done.
DoneIsDone ==
  \A p \in Proc : proc[p].pc = "done" /\ proc[p].alone =>
    CASE Head(proc[p].todo) = "house up" -> house.running /\ vm
      [] Head(proc[p].todo) = "loki up" -> loki.running /\ loki.volume /\ vm
      [] Head(proc[p].todo) = "vm down" -> ~house.running /\ ~loki.running
      [] Head(proc[p].todo) = "permissions" -> polaris.role /\ polaris.member /\ polaris.grants = 1..Namespaces
      [] OTHER -> TRUE

\* Types; and what is up, kept and reported of the lab is true after any deaths
\* (lab_lifecycle.py, agenthouse/manage.py, loki/manage.py, polaris_permissions.py).
LabInv == TypeOK /\ SecretIsKept /\ GoesOnFromAnywhere /\ DoneIsDone
=============================================================================
