------------------------------ MODULE Bootstrap ------------------------------
(***************************************************************************)
(* IcebergBootstrap.java: a job creates the catalog, a namespace and a      *)
(* table with a fixture of one file, or verifies those that are there; or,  *)
(* with --cleanup, removes them.  Kubernetes restarts a job that failed,    *)
(* and a replaced one may still run beside its successor.  A pod dies       *)
(* between any two of its requests; a request whose answer is lost is one   *)
(* that took effect, and a pod that then fails.                             *)
(***************************************************************************)
EXTENDS Naturals

CONSTANTS Pod,        \* pods of the job
          MaxStarts,  \* bound: how often one is started
          None

VARIABLES catalog,    \* the catalog of that name: none, the reviewed one, another
          namespace,  \* whether it is there
          table,      \* the table
          file,       \* whether the file of the fixture is in the bucket
          pod,        \* each pod: its place, what it runs, the table it has loaded
          starts,     \* how often one was started
          beside,     \* history: two pods worked at the same time
          cut,        \* history: one ended between the append and the marker
          orphaned,   \* history: one ended with a file that no table has
          report      \* history: what was reported, as long as it has to hold: that a run
                      \* passed, until a cleanup begins; a cleanup, until a run begins

vars == <<catalog, namespace, table, file, pod, starts, beside, cut, orphaned, report>>
history == <<beside, cut, orphaned, report>>
store == <<catalog, namespace, table, file>>

\* A table: which creation it is, whether it meets the contract, the data files that its
\* snapshot has (0: there is no snapshot), and the marker of the fixture.
Entries == 0..2      \* bound: more are as wrong as two
Table   == [born : 0..MaxStarts, fits : BOOLEAN, entries : Entries, marker : BOOLEAN]
Place   == {"idle", "catalog", "post", "namespace", "table", "create", "contract", "file", "append",
            "mark", "list", "read", "passed", "drop", "purge", "empty", "delete", "cleaned"}
Fresh(born) == [born |-> born, fits |-> TRUE, entries |-> 0, marker |-> FALSE]
NoPod == [pc |-> "idle", cleans |-> FALSE, seen |-> Fresh(0)]
Working(p) == pod[p].pc \notin {"idle", "passed", "cleaned"}

TypeOK ==
  /\ catalog \in {"none", "reviewed", "other"} /\ namespace \in BOOLEAN
  /\ table \in Table \cup {None} /\ file \in BOOLEAN
  /\ pod \in [Pod -> [pc : Place, cleans : BOOLEAN, seen : Table]]
  /\ starts \in 0..MaxStarts /\ beside \in BOOLEAN /\ cut \in BOOLEAN /\ orphaned \in BOOLEAN
  /\ report \in {"nothing", "passed", "cleaned"}

Init ==
  /\ \/ catalog \in {"none", "other"} /\ namespace = FALSE /\ table = None
     \/ catalog = "reviewed" /\ namespace = TRUE /\ table \in {None, [Fresh(0) EXCEPT !.fits = FALSE]}
  /\ file = FALSE /\ pod = [p \in Pod |-> NoPod] /\ starts = 0
  /\ beside = FALSE /\ cut = FALSE /\ orphaned = FALSE /\ report = "nothing"

Goes(p, place) == pod' = [pod EXCEPT ![p].pc = place]
At(p, place) == pod[p].pc = place
Reads(p) == UNCHANGED <<store, starts, history>>

\* An exception, or the death of the pod: it may be started again.
Fails(p) ==
  /\ Working(p)
  /\ pod' = [pod EXCEPT ![p] = NoPod]
  /\ cut' = (cut \/ At(p, "mark"))
  /\ orphaned' = (orphaned \/ At(p, "append") \/ At(p, "purge"))
  /\ UNCHANGED <<store, starts, beside, report>>

Start(p) ==
  /\ ~Working(p) /\ starts < MaxStarts
  /\ starts' = starts + 1
  /\ \E cleans \in BOOLEAN :
       /\ pod' = [pod EXCEPT ![p] = [NoPod EXCEPT !.pc = "catalog", !.cleans = cleans]]
       /\ report' = IF report = "passed" /\ ~cleans THEN report ELSE "nothing"
  /\ beside' = (beside \/ \E q \in Pod \ {p} : Working(q))
  /\ UNCHANGED <<store, cut, orphaned>>

\* ensureManagementCatalog and the beginning of cleanup: a catalog that is there has to
\* be the reviewed one.
Catalog(p) ==
  /\ At(p, "catalog") /\ catalog # "other"
  /\ IF pod[p].cleans /\ catalog = "none"
       THEN Goes(p, "cleaned") /\ report' = "cleaned"
       ELSE /\ Goes(p, IF pod[p].cleans THEN "drop" ELSE IF catalog = "none" THEN "post" ELSE "namespace")
            /\ UNCHANGED report
  /\ UNCHANGED <<store, starts, beside, cut, orphaned>>

Post(p) ==
  /\ At(p, "post") /\ catalog = "none"
  /\ catalog' = "reviewed"
  /\ Goes(p, "namespace")
  /\ UNCHANGED <<namespace, table, file, starts, history>>

Namespace(p) ==
  /\ At(p, "namespace") /\ catalog # "none"
  /\ namespace' = TRUE
  /\ Goes(p, "table")
  /\ UNCHANGED <<catalog, table, file, starts, history>>

FindTable(p) ==
  /\ At(p, "table") /\ namespace
  /\ pod' = [pod EXCEPT ![p].pc = IF table = None THEN "create" ELSE "contract",
                        ![p].seen = IF table = None THEN @ ELSE table]
  /\ Reads(p)

Create(p) ==
  /\ At(p, "create") /\ namespace /\ table = None
  /\ table' = Fresh(starts)
  /\ pod' = [pod EXCEPT ![p].pc = "contract", ![p].seen = Fresh(starts)]
  /\ UNCHANGED <<catalog, namespace, file, starts, history>>

\* Mutant: a table without the marker is written again.
ContractRewrites(p) ==
  /\ At(p, "contract") /\ pod[p].seen.fits
  /\ Goes(p, IF pod[p].seen.marker THEN "list" ELSE "file")
  /\ Reads(p)

\* validateTableContract: what has a snapshot has to have the marker, and is not written to.
Contract(p) ==
  /\ At(p, "contract") /\ pod[p].seen.fits
  /\ pod[p].seen.entries > 0 => pod[p].seen.marker
  /\ Goes(p, IF pod[p].seen.entries > 0 THEN "list" ELSE "file")
  /\ Reads(p)

\* writeFixture: the file, the append, and the marker in a commit of its own.  A commit
\* is of the table that was loaded, whatever was committed to it since.
WriteFile(p) ==
  /\ At(p, "file")
  /\ file' = TRUE
  /\ Goes(p, "append")
  /\ UNCHANGED <<catalog, namespace, table, starts, history>>

SameTable(p) == table # None /\ table.born = pod[p].seen.born

Append(p) ==
  /\ At(p, "append") /\ SameTable(p)
  /\ table' = [table EXCEPT !.entries = IF @ < 2 THEN @ + 1 ELSE @]
  /\ Goes(p, "mark")
  /\ UNCHANGED <<catalog, namespace, file, starts, history>>

Mark(p) ==
  /\ At(p, "mark") /\ SameTable(p)
  /\ table' = [table EXCEPT !.marker = TRUE]
  /\ Goes(p, "list")
  /\ UNCHANGED <<catalog, namespace, file, starts, history>>

\* The listing, and the refresh behind it.
List(p) ==
  /\ At(p, "list") /\ SameTable(p) /\ table.entries > 0
  /\ pod' = [pod EXCEPT ![p].pc = "read", ![p].seen = table]
  /\ Reads(p)

\* verifyFixtureRead.
Read(p) ==
  /\ At(p, "read") /\ pod[p].seen.marker /\ pod[p].seen.entries = 1 /\ file
  /\ Goes(p, "passed") /\ report' = "passed"
  /\ UNCHANGED <<store, starts, beside, cut, orphaned>>

\* cleanup: the table leaves the catalog before its data is deleted.
Drop(p) ==
  /\ At(p, "drop")
  /\ table' = None
  /\ pod' = IF table = None THEN [pod EXCEPT ![p].pc = "empty"]
                            ELSE [pod EXCEPT ![p].pc = "purge", ![p].seen = table]
  /\ UNCHANGED <<catalog, namespace, file, starts, history>>

Purge(p) ==
  /\ At(p, "purge")
  /\ file' = (file /\ pod[p].seen.entries = 0)
  /\ Goes(p, "empty")
  /\ UNCHANGED <<catalog, namespace, table, starts, history>>

DropNamespace(p) ==
  /\ At(p, "empty") /\ table = None
  /\ namespace' = FALSE
  /\ Goes(p, "delete")
  /\ UNCHANGED <<catalog, table, file, starts, history>>

DeleteCatalog(p) ==
  /\ At(p, "delete") /\ ~namespace /\ catalog # "none"
  /\ catalog' = "none"
  /\ Goes(p, "cleaned") /\ report' = "cleaned"
  /\ UNCHANGED <<namespace, table, file, starts, beside, cut, orphaned>>

Next ==
  \E p \in Pod :
    \/ Start(p) \/ Fails(p) \/ Catalog(p) \/ Post(p) \/ Namespace(p) \/ FindTable(p) \/ Create(p)
    \/ Contract(p) \/ WriteFile(p) \/ Append(p) \/ Mark(p) \/ List(p) \/ Read(p)
    \/ Drop(p) \/ Purge(p) \/ DropNamespace(p) \/ DeleteCatalog(p)

Spec == Init /\ [][Next]_vars

-----------------------------------------------------------------------------
(* Properties, of pods that work one after the other *)

\* The fixture is appended once, however often the job is restarted and wherever it
\* ended; it lacks its marker only if the job ended between the two commits.
AppendedOnce ==
  table # None /\ ~beside =>
    /\ table.entries <= 1
    /\ table.entries = 1 /\ ~table.marker => cut \/ \E p \in Pod : At(p, "mark")

\* What was passed stays as it was verified until a cleanup begins.
PassedStays ==
  report = "passed" /\ ~beside => table # None /\ table.entries = 1 /\ table.marker /\ file

\* A cleanup that reports success leaves no catalog and no table, and no data either
\* unless a job ended with a file that no table had.
CleanedIsEmpty ==
  report = "cleaned" /\ ~beside => catalog = "none" /\ ~namespace /\ table = None /\ (file => orphaned)

\* Types; one fixture, and reports that hold (IcebergBootstrap.main).
BootstrapInv == TypeOK /\ AppendedOnce /\ PassedStays /\ CleanedIsEmpty
=============================================================================
