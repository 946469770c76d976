------------------------- MODULE ClientCredentials -------------------------
(***************************************************************************)
(* The credentials of the clients: the table clients, the authorized_keys  *)
(* file that sshd reads, and the handlers of the dashboard that create a   *)
(* client, rotate its credentials or delete it, each of which then         *)
(* rewrites the file from a listing of the table.  Handlers run            *)
(* concurrently and share no lock: a store call is one step, the rename    *)
(* that puts a new file in place is another.                               *)
(*                                                                         *)
(* A key and a token are generated together and stored by one statement,   *)
(* so one number stands for both.                                          *)
(***************************************************************************)
EXTENDS Naturals

CONSTANTS
    Name,     \* client names; numbers, because listings are ordered by name
    Slug,     \* model.Slug: a name's directory and place in URLs
    Request,  \* handlers that can be under way at once
    MaxCred   \* bound on the credentials ever generated

ASSUME NameAssumption == Name \subseteq Nat
ASSUME SlugAssumption == DOMAIN Slug = Name
ASSUME RequestAssumption == Request \cap {"written", "lost"} = {}
ASSUME MaxCredAssumption == MaxCred \in Nat

Cred == 1..MaxCred
NoCred == 0

\* The columns of clients that matter here.  Every client is enabled.
Row == [id: Cred, name: Name, cred: Cred, version: Cred]

\* A line of authorized_keys: the directory a key is confined to.
Entry == [dir: {Slug[n] : n \in Name}, cred: Cred]

VARIABLES
    clients,  \* the table
    lastId,   \* the last id AUTOINCREMENT gave
    issued,   \* the last credential that was stored
    file,     \* authorized_keys
    req,      \* the handlers
    listing   \* history: the request whose listing is the latest one, or
              \* what became of that listing

vars == <<clients, lastId, issued, file, req, listing>>

\* row is the client a handler has read; for the handler of a creation it
\* stays unused.  list is what ListClients gave it.
Idle == [pc |-> "idle", row |-> {}, list |-> {}]

Init ==
    /\ clients = {} /\ lastId = 0 /\ issued = 0
    /\ file = {}
    /\ req = [q \in Request |-> Idle]
    /\ listing = "written"

EntryOf(x) == [dir |-> Slug[x.name], cred |-> x.cred]

Render(S) == {EntryOf(x) : x \in S}

-----------------------------------------------------------------------------
(* The handlers.                                                           *)

\* CreateClient: the row of a new client.
Created(n) == [id |-> lastId + 1, name |-> n, cred |-> issued + 1, version |-> 1]

\* Mutant: a name may be taken.
PostClientsAnyName(q) ==
    /\ req[q].pc = "idle"
    /\ issued < MaxCred
    /\ \E n \in Name :
        clients' = clients \cup {Created(n)}
    /\ lastId' = lastId + 1
    /\ issued' = issued + 1
    /\ req' = [req EXCEPT ![q].pc = "list"]
    /\ UNCHANGED <<file, listing>>

\* Names are UNIQUE.  The key is generated before, and of no
\* use to anybody unless the insert succeeds.
PostClients(q) ==
    /\ req[q].pc = "idle"
    /\ issued < MaxCred
    /\ \E n \in Name :
        /\ \A x \in clients : x.name # n
        /\ clients' = clients \cup {Created(n)}
    /\ lastId' = lastId + 1
    /\ issued' = issued + 1
    /\ req' = [req EXCEPT ![q].pc = "list"]
    /\ UNCHANGED <<file, listing>>

\* GetClientBySlug: the first by name among those of one slug.
BySlug(x) ==
    /\ x \in clients
    /\ \A y \in clients : Slug[y.name] = Slug[x.name] => x.name <= y.name

PostRotateReads(q) ==
    /\ req[q].pc = "idle"
    /\ \E x \in clients :
        /\ BySlug(x)
        /\ req' = [req EXCEPT ![q].pc = "rotate", ![q].row = {x}]
    /\ UNCHANGED <<clients, lastId, issued, file, listing>>

PostDeleteReads(q) ==
    /\ req[q].pc = "idle"
    /\ \E x \in clients :
        /\ BySlug(x)
        /\ req' = [req EXCEPT ![q].pc = "delete", ![q].row = {x}]
    /\ UNCHANGED <<clients, lastId, issued, file, listing>>

\* Mutant: the statement names the client alone.
SameClient(x, read) == x.id = read.id

\* WHERE id = ? AND version = ?
SameVersion(x, read) == x.id = read.id /\ x.version = read.version

\* RotateClientCreds: a compare-and-swap on the version.
PostRotate(q) ==
    /\ req[q].pc = "rotate"
    /\ issued < MaxCred
    /\ \E x \in clients, read \in req[q].row :
        /\ SameVersion(x, read)
        /\ clients' = (clients \ {x}) \cup
            {[x EXCEPT !.cred = issued + 1, !.version = x.version + 1]}
    /\ issued' = issued + 1
    /\ req' = [req EXCEPT ![q].pc = "list", ![q].row = {}]
    /\ UNCHANGED <<lastId, file, listing>>

\* Mutant: a rotation that meets a conflict puts back the row it has read.
PostRotateRestores(q) ==
    /\ req[q].pc = "rotate"
    /\ \A x \in clients, read \in req[q].row : ~SameVersion(x, read)
    /\ clients' = {x \in clients : \A read \in req[q].row : x.name # read.name}
                    \cup req[q].row
    /\ req' = [req EXCEPT ![q].pc = "list", ![q].row = {}]
    /\ UNCHANGED <<lastId, issued, file, listing>>

\* ErrConflict, or the client is gone: the handler ends without rewriting.
PostRotateConflicts(q) ==
    /\ req[q].pc = "rotate"
    /\ \A x \in clients, read \in req[q].row : ~SameVersion(x, read)
    /\ req' = [req EXCEPT ![q] = Idle]
    /\ UNCHANGED <<clients, lastId, issued, file, listing>>

\* Mutant: the file is not rewritten after a deletion.
PostDeleteNoRewrite(q) ==
    /\ req[q].pc = "delete"
    /\ \E x \in clients, read \in req[q].row :
        /\ x.id = read.id
        /\ clients' = clients \ {x}
    /\ req' = [req EXCEPT ![q] = Idle]
    /\ UNCHANGED <<lastId, issued, file, listing>>

\* DeleteClient: by id, whatever its version.
PostDelete(q) ==
    /\ req[q].pc = "delete"
    /\ \E x \in clients, read \in req[q].row :
        /\ x.id = read.id
        /\ clients' = clients \ {x}
    /\ req' = [req EXCEPT ![q].pc = "list", ![q].row = {}]
    /\ UNCHANGED <<lastId, issued, file, listing>>

PostDeleteNotFound(q) ==
    /\ req[q].pc = "delete"
    /\ \A x \in clients, read \in req[q].row : x.id # read.id
    /\ req' = [req EXCEPT ![q] = Idle]
    /\ UNCHANGED <<clients, lastId, issued, file, listing>>

\* A store error before anything is written ends the handler.
PostFails(q) ==
    /\ req[q].pc \in {"rotate", "delete"}
    /\ req' = [req EXCEPT ![q] = Idle]
    /\ UNCHANGED <<clients, lastId, issued, file, listing>>

-----------------------------------------------------------------------------
(* regenAuthorizedKeys: ListClients, then Render and WriteAtomic.  An      *)
(* error is logged, and shown after a rotation; nobody tries again.        *)

RegenList(q) ==
    /\ req[q].pc = "list"
    /\ req' = [req EXCEPT ![q].pc = "write", ![q].list = clients]
    /\ listing' = q
    /\ UNCHANGED <<clients, lastId, issued, file>>

RegenWrite(q) ==
    /\ req[q].pc = "write"
    /\ file' = Render(req[q].list)
    /\ req' = [req EXCEPT ![q] = Idle]
    /\ listing' = CASE listing = q -> "written"
                    [] listing = "written" -> "lost"
                    [] OTHER -> listing
    /\ UNCHANGED <<clients, lastId, issued>>

\* The listing, a directory or the temporary file cannot be made: the file in
\* place stays as it was.
RegenFails(q) ==
    /\ req[q].pc \in {"list", "write"}
    /\ req' = [req EXCEPT ![q] = Idle]
    /\ listing' = IF req[q].pc = "list" \/ listing = q THEN "lost" ELSE listing
    /\ UNCHANGED <<clients, lastId, issued, file>>

\* The server dies and is started again.  SyncAuthorizedKeys runs before it
\* serves requests, and the server serves them even if that failed.
Restart(synced) ==
    /\ req' = [q \in Request |-> Idle]
    /\ file' = IF synced THEN Render(clients) ELSE file
    /\ listing' = IF synced THEN "written" ELSE "lost"
    /\ UNCHANGED <<clients, lastId, issued>>

Handler(q) ==
    \/ PostClients(q)
    \/ PostRotateReads(q) \/ PostRotate(q) \/ PostRotateConflicts(q)
    \/ PostDeleteReads(q) \/ PostDelete(q) \/ PostDeleteNotFound(q)
    \/ PostFails(q)
    \/ RegenList(q) \/ RegenWrite(q) \/ RegenFails(q)

Next ==
    \/ \E q \in Request : Handler(q)
    \/ \E synced \in BOOLEAN : Restart(synced)

Spec == Init /\ [][Next]_vars

-----------------------------------------------------------------------------
(* Properties.                                                             *)

\* Rows, lines and what handlers hold are of their types; names and ids are
\* unique.
TypeOK ==
    /\ clients \subseteq Row
    /\ \A x, y \in clients : x.id = y.id \/ x.name = y.name => x = y
    /\ lastId \in 0..MaxCred /\ issued \in 0..MaxCred
    /\ file \subseteq Entry
    /\ req \in [Request ->
        [pc: {"idle", "rotate", "delete", "list", "write"},
         row: SUBSET Row, list: SUBSET Row]]
    /\ listing \in Request \cup {"written", "lost"}

\* Of rotations that overlap one wins: what a rotation replaces is the
\* credential its handler read, in spite of rotations, deletions and
\* re-creations under the same name in between.
NoBlindRotation ==
    [][\A x \in clients, y \in clients', q \in Request :
        (/\ x.id = y.id /\ x.cred # y.cred
         /\ req[q].pc = "rotate" /\ req'[q].pc = "list")
            => \E read \in req[q].row : read.cred = x.cred]_vars

Quiet == \A q \in Request : req[q].pc \notin {"list", "write"}

\* sshd admits the present credentials and no others once no rewriting is
\* under way, however handlers overlapped, unless an older listing was written
\* after the latest one or the latest one was not written at all.
FileFollowsLatestListing ==
    Quiet /\ listing = "written" => file = Render(clients)

\* A credential that a client had and has no more.
Retired(k) == k \in 1..issued /\ \A x \in clients : x.cred # k

\* No line of the file, and no row of a listing that a handler is about to
\* write, has the credential.
Forgotten(k) ==
    /\ Retired(k)
    /\ \A e \in file : e.cred # k
    /\ \A q \in Request : \A x \in req[q].list : x.cred # k

\* The race of two rewritings can bring a retired credential back only while a
\* handler still holds a listing from before its retirement: once none does and
\* the file is without it, no later rotation, creation, failed rewriting or
\* restart makes sshd admit it again.
ForgottenForGood == [][\A k \in Cred : Forgotten(k) => Forgotten(k)']_vars

\* The old credentials of a rotation or a deletion are gone for good once
\* they have left the file.
NoCredentialReturns ==
    [][\A k \in Cred :
        (Retired(k) /\ \A e \in file : e.cred # k)
            => \A e \in file' : e.cred # k]_vars

\* Every key is confined to a directory of its client's own.
DirectoriesApart ==
    \A x, y \in clients : Slug[x.name] = Slug[y.name] => x = y
=============================================================================
