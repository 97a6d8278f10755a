---------------------------- MODULE MCOperatorTools ----------------------------
(***************************************************************************)
(* Instances for TLC of what operators run beside the server: the export    *)
(* and restore of a bucket, the smoke test of the storage, the job that     *)
(* bootstraps Iceberg, the experiment runner and the commands of the lab;   *)
(* and, under a specification of their own, the checks of the images.  They *)
(* share no state, so a behaviour is of one of them, the others being at    *)
(* rest.                                                                    *)
(*                                                                         *)
(* Objects have two contents of one size and one of another.                *)
(***************************************************************************)
EXTENDS ObjectStorage, TLC

CONSTANTS k1, k2, x, y, z,
          o1, o2,             \* two exports, two plans, two processes of the lab
          Attempts, Pod,
          Plan, Resources, MaxHands,
          Proc, Namespaces, Targets, MaxStarts,
          Controllers, Clean, MaxDays, Horizon, MaxEdits, MaxReviews

VARIABLES tool,
          smoke, store,
          catalog, namespace, table, file, pod, starts, beside, cut, orphaned, report,
          flux, live, plans, pointer, cmd, ours, given, hands,
          vm, cluster, files, house, loki, flock, polaris, proc, launches, spoiled,
          tree, day, edits, reviews, grants

Smoke      == INSTANCE StorageSmoke
Bootstrap  == INSTANCE Bootstrap
Experiment == INSTANCE Experiment WITH Objects <- Resources
Lab        == INSTANCE Lab WITH starts <- launches
Images     == INSTANCE Admission

\* Names are distinct, nothing is not one of them, and a component has an object.
ASSUME ToolsAssumption ==
  /\ Attempts \in Nat /\ MaxStarts \in Nat \ {0} /\ MaxHands \in Nat /\ Resources \in Nat \ {0}
  /\ Namespaces \in Nat /\ Targets \in Nat /\ None \notin Proc \cup Nat
  /\ None \notin Bootstrap!Table \cup Plan \cup Experiment!Pointer
  /\ Plan \cap {"git", "hand"} = {} /\ None # "reviewed"

smokeVars      == <<smoke, store>>
bootstrapVars  == <<catalog, namespace, table, file, pod, starts, beside, cut, orphaned, report>>
experimentVars == <<flux, live, plans, pointer, cmd, ours, given, hands>>
labVars        == <<vm, cluster, files, house, loki, flock, polaris, proc, launches, spoiled>>
imagesVars     == <<tree, day, edits, reviews, grants>>

TwoKeys == <<k1, k2>>
Sizes   == (x :> 1) @@ (y :> 1) @@ (z :> 2)
Alike   == Permutations({o1, o2}) \cup Permutations({x, y})

\* The properties of the instances, over the variables of this module.
SmokeInv         == Smoke!SmokeInv
BootstrapInv     == Bootstrap!BootstrapInv
ExperimentInv    == Experiment!ExperimentInv
HandsOverInOrder == Experiment!HandsOverInOrder
LabInv           == Lab!LabInv
AdmissionInv     == Images!AdmissionInv

\* A tool starts anywhere, and the others in one state.
AtRest ==
  /\ Init /\ Smoke!Init /\ Bootstrap!Init /\ Experiment!Init /\ Lab!Init
  /\ tool # "storage" => bucket = Nothing
  /\ tool # "bootstrap" => catalog = "none"
  /\ tool # "experiment" => \A f \in Experiment!Flux : ~given[f]
  /\ tool # "lab" => ~house.volume

ToolsInit ==
  /\ tool \in {"storage", "smoke", "bootstrap", "experiment", "lab"} /\ AtRest
  /\ tree = None /\ day = 0 /\ edits = 0 /\ reviews = 0 /\ grants = None

ToolsNext ==
  \/ tool = "storage" /\ Next
     /\ UNCHANGED <<tool, smokeVars, bootstrapVars, experimentVars, labVars, imagesVars>>
  \/ tool = "smoke" /\ Smoke!Next
     /\ UNCHANGED <<tool, vars, bootstrapVars, experimentVars, labVars, imagesVars>>
  \/ tool = "bootstrap" /\ Bootstrap!Next
     /\ UNCHANGED <<tool, vars, smokeVars, experimentVars, labVars, imagesVars>>
  \/ tool = "experiment" /\ Experiment!Next
     /\ UNCHANGED <<tool, vars, smokeVars, bootstrapVars, labVars, imagesVars>>
  \/ tool = "lab" /\ Lab!Next
     /\ UNCHANGED <<tool, vars, smokeVars, bootstrapVars, experimentVars, imagesVars>>

ToolsSpec ==
  ToolsInit /\ [][ToolsNext]_<<tool, vars, smokeVars, bootstrapVars, experimentVars, labVars, imagesVars>>

ImagesInit == tool = "images" /\ AtRest /\ Images!Init
ImagesNext == Images!Next /\ UNCHANGED <<tool, vars, smokeVars, bootstrapVars, experimentVars, labVars>>
ImagesSpec ==
  ImagesInit /\ [][ImagesNext]_<<tool, vars, smokeVars, bootstrapVars, experimentVars, labVars, imagesVars>>
=============================================================================
