-------------------------------- MODULE Endpoint --------------------------------
(***************************************************************************)
(* warehouse_resident.serve_endpoint in shared mode: Trino's protocol, page *)
(* by page.  Every answer names the paths a client goes on with, and the    *)
(* endpoint remembers whose they are in an ordered map of a limited size,   *)
(* which other clients crowd.  Requests are served by threads of their own, *)
(* each authenticated for itself; a page may be asked for again; the        *)
(* warehouse may be chilled and the endpoint restart in between.            *)
(***************************************************************************)
EXTENDS Naturals, FiniteSets, SequencesExt

CONSTANTS User,       \* names in the authentication file
          Conn,       \* requests that are served at the same time
          Posts,      \* bound: the statements ever posted
          Pages,      \* how many pages a result has
          Limit,      \* entries of the map: 4096 in the code
          None

VARIABLES up,         \* whether the warehouse has a replica
          query,      \* Trino's: who posted a statement, and the page it would produce next
          owners,     \* continuation_owners
          conn,       \* the requests
          after       \* history: the new paths entered since a path was

vars == <<up, query, owners, conn, after>>

Statement == 1..Posts
Path == [of : Statement, page : 1..Pages, key : {"nextUri", "partialCancelUri"}]
NoRequest == [pc |-> "idle", user |-> None, path |-> None, page |-> <<>>]

TypeOK ==
  /\ up \in BOOLEAN
  /\ query \in [Statement -> [user : User \cup {None}, at : 0..Pages + 1]]
  /\ \A i \in 1..Len(owners) : owners[i] \in [path : Path, user : User]
  /\ \A c \in Conn : /\ conn[c].pc \in {"idle", "follow", "enter"}
                     /\ conn[c].user \in User \cup {None}
                     /\ conn[c].path \in Path \cup {None} /\ ToSet(conn[c].page) \subseteq Path
  /\ after \in [Path -> (SUBSET Path) \cup {None}]

Init ==
  /\ up = FALSE
  /\ query = [s \in Statement |-> [user |-> None, at |-> 0]]
  /\ owners = <<>> /\ conn = [c \in Conn |-> NoRequest]
  /\ after = [p \in Path |-> None]

-----------------------------------------------------------------------------
(* A request *)

Serves(c, request) == conn' = [conn EXCEPT ![c] = request]

Owner(path) == { owners[i].user : i \in { j \in 1..Len(owners) : owners[j].path = path } }

\* A page is only passed on for the one it was given to.
Follow(c, u, path) ==
  /\ conn[c].pc = "idle"
  /\ Owner(path) = {u}
  /\ Serves(c, [NoRequest EXCEPT !.pc = "follow", !.user = u, !.path = path])
  /\ UNCHANGED <<up, query, owners, after>>

\* The policy refuses the statement, Trino cannot be reached or answers with an error, or
\* the client has gone: there is no page, and nothing is entered.
Fails(c) ==
  /\ conn[c].pc # "idle"
  /\ Serves(c, NoRequest)
  /\ UNCHANGED <<up, query, owners, after>>

\* The paths a page names, in the order of the keys.
Names(s, n) ==
  IF n > Pages THEN { <<>> }
  ELSE { <<[of |-> s, page |-> n, key |-> "nextUri"]>>,
         <<[of |-> s, page |-> n, key |-> "nextUri"], [of |-> s, page |-> n, key |-> "partialCancelUri"]>> }

\* A statement wakes the warehouse; Trino takes it and answers with its first page.
Post(c, u) ==
  /\ conn[c].pc = "idle"
  /\ \E s \in Statement :
       /\ \A t \in Statement : query[t].user = None <=> t >= s
       /\ query' = [query EXCEPT ![s] = [user |-> u, at |-> 1]]
       /\ \E page \in Names(s, 1) : Serves(c, [NoRequest EXCEPT !.pc = "enter", !.user = u, !.page = page])
  /\ up' = TRUE
  /\ UNCHANGED <<owners, after>>

\* Trino produces the page it would next, or repeats the one before; a page does not wake it.
Fetch(c) ==
  /\ conn[c].pc = "follow" /\ up /\ conn[c].path.key = "nextUri"
  /\ LET s == conn[c].path.of
         n == conn[c].path.page
     IN  /\ query[s].at \in {n, n + 1}
         /\ query' = [query EXCEPT ![s].at = n + 1]
         /\ \E page \in Names(s, n + 1) : Serves(c, [conn[c] EXCEPT !.pc = "enter", !.page = page])
  /\ UNCHANGED <<up, owners, after>>

\* DELETE of a page, or of a stage: Trino answers without a page.
Cancel(c) ==
  /\ conn[c].pc = "follow" /\ up
  /\ query' = [query EXCEPT ![conn[c].path.of].at = Pages + 1]
  /\ Serves(c, NoRequest)
  /\ UNCHANGED <<up, owners, after>>

\* A key that is there keeps its place in the map.
Put(map, path, u) ==
  IF \E i \in 1..Len(map) : map[i].path = path
    THEN [i \in 1..Len(map) |-> IF map[i].path = path THEN [map[i] EXCEPT !.user = u] ELSE map[i]]
    ELSE Append(map, [path |-> path, user |-> u])

\* Mutant: the map forgets what it entered last.
TrimNewest(map) == SubSeq(map, 1, IF Len(map) > Limit THEN Limit ELSE Len(map))
Trim(map) == SubSeq(map, IF Len(map) > Limit THEN Len(map) - Limit + 1 ELSE 1, Len(map))

\* The path under nextUri, then that under partialCancelUri.
PutPage(map, page, u) ==
  LET first == IF page = <<>> THEN map ELSE Put(map, page[1], u)
  IN  IF Len(page) = 2 THEN Put(first, page[2], u) ELSE first

Enter(c) ==
  /\ conn[c].pc = "enter"
  /\ LET page == conn[c].page
         new  == { p \in ToSet(page) : Owner(p) = {} }
     IN  /\ owners' = Trim(PutPage(owners, page, conn[c].user))
         /\ after' = [p \in Path |-> IF p \in new THEN new \ {p}
                                     ELSE IF after[p] = None THEN None ELSE after[p] \cup new]
  /\ Serves(c, NoRequest)
  /\ UNCHANGED <<up, query>>

-----------------------------------------------------------------------------
(* The others *)

\* Each page holds the gate only while it is served: a chill between two of them ends the query.
Chill ==
  /\ up /\ \A c \in Conn : conn[c].pc = "idle"
  /\ up' = FALSE
  /\ query' = [s \in Statement |-> IF query[s].user = None THEN query[s] ELSE [query[s] EXCEPT !.at = Pages + 1]]
  /\ UNCHANGED <<owners, conn, after>>

Restart ==
  /\ owners' = <<>> /\ conn' = [c \in Conn |-> NoRequest] /\ after' = [p \in Path |-> None]
  /\ UNCHANGED <<up, query>>

Next ==
  \/ \E c \in Conn :
       \/ \E u \in User : Post(c, u) \/ \E path \in Path : Follow(c, u, path)
       \/ Fails(c) \/ Fetch(c) \/ Cancel(c) \/ Enter(c)
  \/ Chill \/ Restart

Spec == Init /\ [][Next]_vars

-----------------------------------------------------------------------------
(* Properties *)

\* What a request follows, and the paths it is answered with, are of a statement that
\* its user posted, whoever shares the endpoint.
PagesToTheirOwner ==
  \A c \in Conn : \A p \in ToSet(conn[c].page) \cup ({conn[c].path} \ {None}) :
    query[p.of].user = conn[c].user

\* A path stays good for the one it was given to until as many other paths as the map
\* holds came after it, even if the answer is repeated meanwhile.
GoodUntilCrowdedOut ==
  \A p \in Path : after[p] # None /\ Cardinality(after[p]) < Limit => Owner(p) = {query[p.of].user}

\* Types; continuations belong to the one they were given to (serve_endpoint).
EndpointInv == TypeOK /\ PagesToTheirOwner /\ GoodUntilCrowdedOut
=============================================================================
