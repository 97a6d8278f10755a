------------------------------- MODULE Admission -------------------------------
(***************************************************************************)
(* The checks that a working tree of the repository must pass before its    *)
(* images are used: check-images of verify_supply_chain.py in its strict    *)
(* and its local-lab profile, verify_gitops_image_admission.py for the      *)
(* images of Flux, and verify_trivyignore.py for the accepted findings in   *)
(* Flux's RBAC.                                                             *)
(*                                                                         *)
(* A check is a function of the tree and the day.  What can go wrong is     *)
(* drift: an upgrade, a new scan or a corrected record that reaches some of *)
(* the files that speak of an image and not the others, and approvals that  *)
(* run out.  So the tree starts in a state that passes, people edit one     *)
(* place of it at a time, the owner approves exceptions anew, days go by,   *)
(* and the invariants say what a tree that passes is like.                  *)
(*                                                                         *)
(* The hash of a file stands for its bytes, so a hash is the content.  Of   *)
(* an evidence file the model keeps its edition: the reviewed bytes; other  *)
(* bytes that say the same of the same image; bytes about another image or  *)
(* decision; and what the loaders refuse (missing, malformed, a link).      *)
(***************************************************************************)
EXTENDS Integers

CONSTANTS Controllers,  \* the controllers of Flux
          Clean,        \* those without High findings at first
          MaxDays,      \* MAX_EXCEPTION_DAYS
          Horizon,      \* bound: the last day
          MaxEdits,     \* bound: edits of the tree
          MaxReviews,   \* bound: approvals of the owner
          None          \* no entry, no record, no approval

VARIABLES tree,         \* the files and the constants of the scripts
          day,          \* the UTC date
          edits, reviews,
          grants        \* history: what the owner approved last, and until when

vars == <<tree, day, edits, reviews, grants>>

Days       == 0..Horizon
Pair       == {"polaris", "postgresql"}
Releases   == Pair \cup {"seaweedfs", "polaris-admin"}
Components == Controllers \cup Releases
Digests    == {"reviewed", "newer"}
Reference  == Components \X (Digests \cup {"tag"})
Released(c) == <<c, "reviewed">>
Immutable(ref) == ref[2] \in Digests

Edition == {"reviewed", "reissued", "other", "broken"}
Says(edition) == edition \in {"reviewed", "reissued"}

\* A Trivy report: the image, its High vulnerabilities, the gravest of the rest, the
\* day it was taken and the vulnerability database.
Highs    == {"h1", "h2"}
Beyond   == {"nothing", "critical", "misconfiguration"}
Report   == [of: Reference, high: SUBSET Highs, beyond: Beyond, taken: Days, db: 0..1]
Reviewed(c) == [of |-> Released(c), high |-> {}, beyond |-> "nothing", taken |-> 0, db |-> 0]
File     == Components \cup {"other"}     \* paths of retained reports

\* The evidence files of each component but its reports.
Papers ==
  {"sbom"} \X Components
    \cup {"admission", "release", "publication"} \X {"polaris", "polaris-admin"}
    \cup {<<"retained", "postgresql">>, <<"contract", "polaris-admin">>, <<"manifest", "polaris-admin">>,
          <<"manifest", "pair">>, <<"receipt", "pair">>}

Ref(t, c)    == <<c, t.digest[c]>>
Ledger(t)    == { c \in Components : t.digest[c] # None }
ScanOf(t, c) == t.scan[t.pointer[c]]

\* The images that the cluster would run: kubectl kustomize renders the generated
\* components with the images that the customization puts in; the other manifests
\* name theirs.  The reviewed customization names the reviewed digests.
Customized(t, c) == IF t.customization = "reviewed" THEN Released(c) ELSE <<c, "newer">>
Rendered(t)      == { Customized(t, c) : c \in Controllers }
-----------------------------------------------------------------------------
(* verify_gitops_image_admission.py *)

CandidatesAgree(t) ==
  \A c \in Controllers : t.candidate[c] \in Digests /\ t.inventory[c] = t.candidate[c]
LedgerAgrees(t) == \A c \in Controllers : t.digest[c] = t.candidate[c]
Customizes(t)   == t.customization = "reviewed"
Generated(t)    == t.components = "reviewed"
SyncsMain(t)    == t.sync = "reviewed"

FluxAdmits(t) ==
  /\ CandidatesAgree(t) /\ LedgerAgrees(t)
  /\ Customizes(t) /\ Generated(t) /\ SyncsMain(t)
  /\ \A c \in Controllers : Customized(t, c) = <<c, t.candidate[c]>>
  /\ Rendered(t) = { <<c, t.candidate[c]>> : c \in Controllers }

Deployed(t) == { <<c, t.candidate[c]>> : c \in Controllers } \cup t.manifests
-----------------------------------------------------------------------------
(* verify_supply_chain.py: reports and exceptions *)

\* allowed is None without an exception for the image.
CheckTrivy(report, ref, allowed) ==
  /\ report # None
  /\ report.of = ref
  /\ report.beyond # "critical"
  /\ \/ allowed = None /\ report.high = {} /\ report.beyond = "nothing"
     \/ allowed # None /\ report.beyond = "nothing" /\ report.high = allowed

WithinDays(from, until, today) ==
  from <= today /\ today < until /\ until <= from + MaxDays

OwnerAuthorization(t, today) ==
  /\ t.authorization.set = t.approved
  /\ WithinDays(t.authorization.from, t.authorization.until, today)

\* The entry is about the report that the ledger names, byte for byte, and about the
\* metadata of its scanner, whose database is the ledger's and older than the report.
ScanEvidence(t, c, today) ==
  LET entry == t.exceptions[c] report == ScanOf(t, c)
  IN  /\ entry.path = t.pointer[c]
      /\ report # None /\ entry.scan = report
      /\ entry.metadata = t.metadata
      /\ t.metadata.db = t.db[c]
      /\ report.taken <= today
      /\ t.metadata.downloaded <= report.taken
      /\ report.of = entry.of

\* Mutant: the entries are taken as they are written; the approved set is not asked.
LabExceptionsAsWritten(t, today) ==
  \A c \in Controllers : t.exceptions[c] # None =>
    /\ c \in Ledger(t) /\ t.exceptions[c].of = Ref(t, c)
    /\ WithinDays(t.exceptions[c].from, t.exceptions[c].until, today)
    /\ ScanEvidence(t, c, today)
    /\ t.exceptions[c].high # {}

LabExceptions(t, today) ==
  /\ OwnerAuthorization(t, today)
  /\ t.exceptions = t.authorization.set /\ t.exceptions = t.approved
  /\ \A c \in Controllers : t.exceptions[c] # None =>
       /\ c \in Ledger(t) /\ t.exceptions[c].of = Ref(t, c)
       /\ WithinDays(t.exceptions[c].from, t.exceptions[c].until, today)
       /\ t.exceptions[c].from = t.authorization.from
       /\ t.exceptions[c].until = t.authorization.until
       /\ ScanEvidence(t, c, today)
       /\ t.exceptions[c].high # {}

Allowed(t, c, profile) ==
  IF profile = "local-lab" /\ c \in Controllers /\ t.exceptions[c] # None
  THEN t.exceptions[c].high ELSE None
-----------------------------------------------------------------------------
(* verify_supply_chain.py: the evidence of where an image comes from *)

\* A file whose bytes the script or a record names.
IsBound(t, paper, edition) == t.paper[paper] # "broken" /\ t.paper[paper] = edition

\* The seven files behind the pair's receipt, at their own paths.
PrimaryEvidence(t) ==
  /\ IsBound(t, <<"manifest", "pair">>, "reviewed")
  /\ \A c \in Pair : t.scan[c] = Reviewed(c) /\ IsBound(t, <<"sbom", c>>, "reviewed")

AtomicReceipt(t) ==
  /\ IsBound(t, <<"receipt", "pair">>, t.receipt.chain)
  /\ Says(t.paper[<<"receipt", "pair">>])
  /\ \A c \in Pair : t.record[c] # None /\ t.record[c].of = Released(c)
  /\ PrimaryEvidence(t)

\* The receipt is there or a component of the pair is: then both are, as released.
AtomicLedger(t) ==
  \/ t.paper[<<"receipt", "pair">>] = "broken" /\ Pair \cap Ledger(t) = {}
  \/ \A c \in Pair : Ref(t, c) = Released(c)

SignedIndex(t, c) ==
  /\ t.record[c].subject = t.digest[c]
  /\ c = "postgresql" =>
       /\ Ref(t, c) = Released(c)
       /\ IsBound(t, <<"retained", c>>, "reviewed")
       /\ IsBound(t, <<"sbom", c>>, "reviewed")

\* The decision to admit polaris names the receipt, which may have been reissued with it;
\* the release evidence, whose bytes are fixed, names the reviewed one.
DecisionNamesReceipt(t, c) ==
  Says(t.paper[<<"admission", c>>]) /\ t.receipt.admission = t.receipt.chain

ReleaseEvidence(t, c) ==
  /\ IsBound(t, <<"release", c>>, "reviewed") /\ t.receipt.chain = "reviewed"
  /\ IsBound(t, <<"publication", c>>, "reviewed")
  /\ IsBound(t, <<"sbom", c>>, "reviewed") /\ ScanOf(t, c) = Reviewed(c)

ReviewedPublication(t, c) ==
  /\ c = "polaris" /\ Ref(t, c) = Released(c)
  /\ DecisionNamesReceipt(t, c) /\ ReleaseEvidence(t, c)

AdminEvidence(t, c) ==
  /\ Says(t.paper[<<"admission", c>>])
  /\ IsBound(t, <<"sbom", c>>, "reviewed") /\ ScanOf(t, c) = Reviewed(c)
  /\ t.db[c] = Reviewed(c).db

AdminPublication(t, c) ==
  /\ c = "polaris-admin" /\ Ref(t, c) = Released(c)
  /\ \A kind \in {"contract", "release", "publication", "manifest"} : IsBound(t, <<kind, c>>, "reviewed")
  /\ AdminEvidence(t, c)

\* The record names the two decisions by their bytes, and the resident copies and their
\* sources by theirs, which are the same; and both decisions certify them.
BoundSources(t, c) ==
  /\ t.bound.admission = t.build.admission /\ t.bound.release = t.build.release
  /\ t.bound.scan = ScanOf(t, c) /\ t.bound.scan = t.build.scan
  /\ t.bound.sbom = t.paper[<<"sbom", c>>] /\ t.bound.sbom = t.build.sbom

Certified(t, c) ==
  /\ \A decision \in {t.build.admission, t.build.release} :
       /\ Says(decision.edition) /\ decision.scan = t.build.scan /\ decision.sbom = t.build.sbom
  /\ t.build.scan.high = {} /\ t.build.scan.beyond # "critical"
  /\ t.db[c] = t.build.scan.db

SourceBuild(t, c) ==
  c = "seaweedfs" /\ Ref(t, c) = Released(c) /\ BoundSources(t, c) /\ Certified(t, c)

\* The two components of the pair share a document of records.
NeedsReceipt(t) ==
  \/ t.record["postgresql"] # None
  \/ t.record["polaris"] # None /\ t.record["polaris"].mode = "reviewed_repository_publication"

SupplyChain(t, c, today) ==
  /\ c \in Pair /\ NeedsReceipt(t) => AtomicReceipt(t)
  /\ t.record[c] # None
  /\ t.record[c].of = Ref(t, c)
  /\ t.record[c].on <= today
  /\ \/ t.record[c].mode = "signed_oci_index" /\ SignedIndex(t, c)
     \/ t.record[c].mode = "repository_source_build" /\ SourceBuild(t, c)
     \/ t.record[c].mode = "reviewed_repository_publication" /\ NeedsReceipt(t) /\ ReviewedPublication(t, c)
     \/ t.record[c].mode = "reviewed_repository_admin_publication" /\ AdminPublication(t, c)

CheckImages(t, profile, today) ==
  /\ \A c \in Ledger(t) :
       /\ Immutable(Ref(t, c))
       /\ t.lapses[c] = None \/ today < t.lapses[c]
  /\ AtomicLedger(t)
  /\ profile = "local-lab" => LabExceptions(t, today)
  /\ \A c \in Ledger(t) :
       /\ t.paper[<<"sbom", c>>] # "broken"
       /\ CheckTrivy(ScanOf(t, c), Ref(t, c), Allowed(t, c, profile))
       /\ SupplyChain(t, c, today)
  /\ FluxAdmits(t)
  /\ \A ref \in Deployed(t) : \E c \in Ledger(t) : ref = Ref(t, c)
-----------------------------------------------------------------------------
(* verify_trivyignore.py *)

\* The document that the constants of the script make.
Canonical(t) == [until |-> t.approval.until, wide |-> FALSE]

\* What stands for the clock when --now is not given, as the Makefile and the workflow
\* of the repository call the script: a day after the approval.
Now(t) == t.approval.from + 1

AuthorizationWindow(approval) ==
  approval.from < approval.until /\ approval.until <= approval.from + MaxDays

ValidDocument(t, now) ==
  /\ t.ignore = Canonical(t)
  /\ AuthorizationWindow(t.approval)
  /\ t.approval.from <= now /\ now < t.approval.until

ValidManifest(t) == t.components = "reviewed"

\* The findings are the approved ones, rule by rule.
ReportSays(report) == report # None /\ report.of = "reviewed"
ValidEvidence(t) == t.rbac = t.approval.report /\ ReportSays(t.rbac)

IgnoreAccepted(t) == ValidDocument(t, Now(t)) /\ ValidManifest(t) /\ ValidEvidence(t)
-----------------------------------------------------------------------------
(* The tree, and what happens to it *)

Mode(c) ==
  CASE c = "seaweedfs"     -> "repository_source_build"
    [] c = "polaris"       -> "reviewed_repository_publication"
    [] c = "polaris-admin" -> "reviewed_repository_admin_publication"
    [] OTHER               -> "signed_oci_index"
Modes == { Mode(c) : c \in Components }

\* The exceptions for the High findings of the reports that are there, from today.
Exceptions(t, from, until) ==
  [c \in Controllers |->
     IF ScanOf(t, c) = None \/ ScanOf(t, c).high = {} THEN None
     ELSE [of |-> Ref(t, c), path |-> t.pointer[c], scan |-> ScanOf(t, c), metadata |-> t.metadata,
           high |-> ScanOf(t, c).high, from |-> from, until |-> until]]

\* The owner's decision, written into the two documents and the constants of the scripts.
Grant(t, from, until) ==
  LET set == Exceptions(t, from, until)
      rbac == [of |-> t.components, taken |-> from]
  IN  [t EXCEPT !.exceptions = set, !.approved = set,
                !.authorization = [set |-> set, from |-> from, until |-> until],
                !.approval = [from |-> from, until |-> until, report |-> rbac],
                !.rbac = rbac,
                !.ignore = [until |-> until, wide |-> FALSE]]

Certifies(c) == [edition |-> "reviewed", scan |-> Reviewed(c), sbom |-> "reviewed"]

Start ==
  [digest |-> [c \in Components |-> "reviewed"],
   pointer |-> [c \in Components |-> c],
   db |-> [c \in Components |-> 0],
   lapses |-> [c \in Components |-> None],
   scan |-> [f \in File |->
              IF f = "other" THEN None
              ELSE IF f \in Controllers \ Clean THEN [Reviewed(f) EXCEPT !.high = {"h1"}] ELSE Reviewed(f)],
   metadata |-> [db |-> 0, downloaded |-> 0],
   paper |-> [p \in Papers |-> "reviewed"],
   record |-> [c \in Components |-> [of |-> Released(c), subject |-> "reviewed", mode |-> Mode(c), on |-> 0]],
   receipt |-> [chain |-> "reviewed", admission |-> "reviewed"],
   build |-> [admission |-> Certifies("seaweedfs"), release |-> Certifies("seaweedfs"),
              scan |-> Reviewed("seaweedfs"), sbom |-> "reviewed"],
   bound |-> [admission |-> Certifies("seaweedfs"), release |-> Certifies("seaweedfs"),
              scan |-> Reviewed("seaweedfs"), sbom |-> "reviewed"],
   candidate |-> [c \in Controllers |-> "reviewed"],
   inventory |-> [c \in Controllers |-> "reviewed"],
   customization |-> "reviewed", components |-> "reviewed", sync |-> "reviewed",
   manifests |-> { Released(c) : c \in Releases },
   exceptions |-> None, authorization |-> None, approved |-> None,
   approval |-> None, rbac |-> None, ignore |-> None]

Init ==
  /\ tree = Grant(Start, 0, MaxDays)
  /\ grants = tree.exceptions
  /\ day = 0 /\ edits = 0 /\ reviews = 0

Edit(t) ==
  /\ edits < MaxEdits
  /\ edits' = edits + 1 /\ tree' = t /\ t # tree
  /\ UNCHANGED <<day, reviews, grants>>

\* The ledger: an upgrade or a removal, another report, another database, a fallback.
EditLedger ==
  \E c \in Components :
    \/ \E d \in Digests \cup {"tag", None} : Edit([tree EXCEPT !.digest[c] = d])
    \/ \E f \in {c, "other"} : Edit([tree EXCEPT !.pointer[c] = f])
    \/ \E n \in 0..1 : Edit([tree EXCEPT !.db[c] = n])
    \/ \E d \in {1, None} : Edit([tree EXCEPT !.lapses[c] = d])

\* The scanner writes a report of an image over a retained one, or a file is lost; then
\* the metadata of its database.
Scan ==
  \/ \E c \in Components, high \in {{}, {"h1"}, {"h2"}}, beyond \in Beyond :
       /\ tree.digest[c] # None
       /\ high = {} \/ beyond = "nothing"
       /\ \E f \in {c, "other"} :
            Edit([tree EXCEPT !.scan[f] = [of |-> Ref(tree, c), high |-> high, beyond |-> beyond,
                                           taken |-> day, db |-> 1]])
  \/ \E f \in File : Edit([tree EXCEPT !.scan[f] = None])
  \/ Edit([tree EXCEPT !.metadata = [db |-> 1, downloaded |-> day]])

EditPapers ==
  \/ \E p \in Papers, e \in Edition \ {"reviewed"} : Edit([tree EXCEPT !.paper[p] = e])
  \/ \E which \in {"chain", "admission"} : Edit([tree EXCEPT !.receipt[which] = tree.paper[<<"receipt", "pair">>]])

EditRecords ==
  \E c \in Components :
    \/ Edit([tree EXCEPT !.record[c] = None])
    \/ /\ tree.record[c] # None
       /\ \/ Edit([tree EXCEPT !.record[c].of = Ref(tree, c)])
          \/ \E d \in Digests : Edit([tree EXCEPT !.record[c].subject = d])
          \/ \E mode \in Modes : Edit([tree EXCEPT !.record[c].mode = mode])
          \/ Edit([tree EXCEPT !.record[c].on = day + 1])

EditBuild ==
  \/ \E which \in {"admission", "release"} :
       \/ \E e \in Edition : Edit([tree EXCEPT !.build[which].edition = e])
       \/ tree.scan["seaweedfs"] # None /\ Edit([tree EXCEPT !.build[which].scan = tree.scan["seaweedfs"]])
  \/ tree.scan["seaweedfs"] # None /\ Edit([tree EXCEPT !.build.scan = tree.scan["seaweedfs"]])
  \/ \E which \in {"admission", "release", "scan", "sbom"} :
       Edit([tree EXCEPT !.bound[which] = tree.build[which]])

EditFlux ==
  \/ \E c \in Controllers, d \in Digests \cup {"tag"} :
       \/ Edit([tree EXCEPT !.candidate[c] = d])
       \/ Edit([tree EXCEPT !.inventory[c] = d])
  \/ \E e \in {"reviewed", "other"} :
       \/ Edit([tree EXCEPT !.customization = e])
       \/ Edit([tree EXCEPT !.components = e])
       \/ Edit([tree EXCEPT !.sync = e])
  \/ \E c \in Releases, d \in Digests \cup {"tag"} : Edit([tree EXCEPT !.manifests = @ \cup {<<c, d>>}])
  \/ \E ref \in tree.manifests : Edit([tree EXCEPT !.manifests = @ \ {ref}])

\* Corrections of the documents of exceptions, without the owner.
EditExceptions ==
  \/ \E c \in Controllers :
       \/ Edit([tree EXCEPT !.exceptions[c] = None])
       \/ /\ tree.exceptions[c] # None
          /\ \/ \E high \in SUBSET Highs : Edit([tree EXCEPT !.exceptions[c].high = high])
             \/ Edit([tree EXCEPT !.exceptions[c].until = @ + 1])
             \/ Edit([tree EXCEPT !.exceptions[c].of = Ref(tree, c)])
             \/ ScanOf(tree, c) # None /\ Edit([tree EXCEPT !.exceptions[c].scan = ScanOf(tree, c)])
             \/ Edit([tree EXCEPT !.exceptions[c].metadata = tree.metadata])
  \/ Edit([tree EXCEPT !.authorization.until = @ + 1])
  \/ Edit([tree EXCEPT !.authorization.set = tree.exceptions])
  \/ Edit([tree EXCEPT !.ignore.until = @ + 1])
  \/ Edit([tree EXCEPT !.ignore.wide = TRUE])
  \/ Edit([tree EXCEPT !.rbac = [of |-> tree.components, taken |-> day]])

\* One change of everything that belongs together: the pair is retired, or SeaweedFS is
\* scanned and certified again.
RetirePair ==
  Edit([tree EXCEPT !.digest = [c \in Components |-> IF c \in Pair THEN None ELSE tree.digest[c]],
                    !.manifests = { ref \in @ : ref[1] \notin Pair },
                    !.paper[<<"receipt", "pair">>] = "broken"])

Recertify ==
  LET report   == [Reviewed("seaweedfs") EXCEPT !.taken = day, !.db = 1]
      decision == [edition |-> "reissued", scan |-> report, sbom |-> "reviewed"]
      files    == [admission |-> decision, release |-> decision, scan |-> report, sbom |-> "reviewed"]
  IN  Edit([tree EXCEPT !.scan["seaweedfs"] = report, !.db["seaweedfs"] = 1,
                        !.build = files, !.bound = files])

Edits ==
  \/ RetirePair \/ Recertify
  \/ EditLedger \/ Scan \/ EditPapers \/ EditRecords
  \/ EditBuild \/ EditFlux \/ EditExceptions

\* The owner approves the findings that are there, possibly for too long.
Review ==
  /\ reviews < MaxReviews
  /\ \E until \in {day + MaxDays, day + MaxDays + 1} :
       /\ tree' = Grant(tree, day, until)
       /\ grants' = tree'.exceptions
  /\ reviews' = reviews + 1
  /\ UNCHANGED <<day, edits>>

NextDay ==
  /\ day < Horizon
  /\ day' = day + 1
  /\ UNCHANGED <<tree, edits, reviews, grants>>

Next == Edits \/ Review \/ NextDay

Spec == Init /\ [][Next]_vars
-----------------------------------------------------------------------------
(* Properties *)

\* The High findings of c are those the owner has seen in this very report, on this
\* image, and has accepted until a day that is still ahead and not too far.
Accepted(c) ==
  /\ c \in Controllers /\ grants[c] # None
  /\ grants[c].scan = ScanOf(tree, c) /\ grants[c].of = Ref(tree, c)
  /\ grants[c].from <= day /\ day < grants[c].until
  /\ grants[c].until <= grants[c].from + MaxDays

\* What is deployed is in the ledger under an exact digest, with a report about that very
\* image that has nothing critical; and without High findings, but for those that the
\* owner accepts in the lab.
AdmittedIsScanned(profile) ==
  CheckImages(tree, profile, day) =>
    \A ref \in Rendered(tree) \cup tree.manifests :
      \E c \in Ledger(tree) :
        LET report == ScanOf(tree, c)
        IN  /\ ref = Ref(tree, c) /\ Immutable(ref)
            /\ report # None /\ report.of = ref /\ report.beyond = "nothing"
            /\ report.high # {} => profile = "local-lab" /\ Accepted(c)

\* Of the pair both are admitted or none, on the reviewed receipt; and what the scripts
\* name byte for byte has not drifted behind a record that is still the same.
AdmittedTogether(profile) ==
  CheckImages(tree, profile, day) =>
    /\ Pair \subseteq Ledger(tree) \/ Pair \cap Ledger(tree) = {}
    /\ \A c \in Pair \cap Ledger(tree) : tree.scan[c] = Reviewed(c)
    /\ "polaris" \in Ledger(tree) /\ tree.record["polaris"].mode = Mode("polaris") =>
         tree.paper[<<"receipt", "pair">>] = "reviewed"
    /\ "seaweedfs" \in Ledger(tree) /\ tree.record["seaweedfs"].mode = Mode("seaweedfs") =>
         /\ ScanOf(tree, "seaweedfs") = tree.build.scan
         /\ ScanOf(tree, "seaweedfs") = tree.build.release.scan

\* Findings are hidden from the blocking scan in the manifest the owner has seen only,
\* and never under an approval for too long.
HidesWhatWasSeen ==
  IgnoreAccepted(tree) =>
    /\ tree.components = "reviewed" /\ ~tree.ignore.wide
    /\ tree.ignore.until <= tree.approval.from + MaxDays

\* A tree that passes its checks admits only what was scanned, accepted and released
\* together, and hides no finding the owner has not seen (check_images, main of the
\* Flux and Trivy checks).
AdmissionInv ==
  /\ \A profile \in {"strict", "local-lab"} : AdmittedIsScanned(profile) /\ AdmittedTogether(profile)
  /\ HidesWhatWasSeen

\* docs/design/04_Development/049_Supply_Chain_Security.md:89: the approval fails closed at
\* the instant it expires; :98-99: then make verify-security fails.
ExpiredIsRefused == IgnoreAccepted(tree) => day < tree.approval.until
=============================================================================
