---------------------- MODULE ClientCredentialsProofs ----------------------
(***************************************************************************)
(* What ClientCredentials keeps for any names and slugs, any number of     *)
(* handlers at once and any number of credentials.                         *)
(***************************************************************************)
EXTENDS ClientCredentials, TLAPS

\* Ids and versions grow with what was issued.
Counted ==
    /\ lastId <= issued
    /\ \A x \in clients : x.id <= lastId /\ x.version <= issued

\* A handler that is about to rotate has read an older version of its row, or
\* the present one with the present credential.
ReadsPast ==
    \A q \in Request : req[q].pc = "rotate" =>
        \A read \in req[q].row :
            /\ read.id <= lastId
            /\ \A x \in clients : x.id = read.id =>
                /\ read.version <= x.version
                /\ read.version = x.version => read.cred = x.cred

\* A request that has changed the table and not listed it yet.
Dirty == \E q \in Request : req[q].pc = "list"

\* The latest listing is waiting to be written, and shows the table unless a
\* request has yet to list it; or it was written, and the file shows it.
Followed ==
    /\ listing \in Request =>
        /\ req[listing].pc = "write"
        /\ ~Dirty => req[listing].list = clients
    /\ listing = "written" => (~Dirty => file = Render(clients))

IInv == TypeOK /\ Counted /\ ReadsPast /\ Followed

State == [pc: {"idle", "rotate", "delete", "list", "write"},
          row: SUBSET Row, list: SUBSET Row]

-----------------------------------------------------------------------------
LEMMA IdleState == Idle \in State
  BY DEF Idle, State

LEMMA RenderType == ASSUME NEW S \in SUBSET Row PROVE Render(S) \subseteq Entry
  <1> SUFFICES ASSUME NEW x \in S PROVE EntryOf(x) \in Entry
    BY DEF Render
  <1>1. x \in Row
    OBVIOUS
  <1> QED  BY <1>1 DEF EntryOf, Entry, Row

LEMMA InitIInv == Init => IInv
  <1> SUFFICES ASSUME Init PROVE IInv
      OBVIOUS
  <1>1. TypeOK
    BY IdleState, MaxCredAssumption DEF Init, TypeOK, State
  <1>2. Counted /\ ReadsPast
    BY DEF Init, Counted, ReadsPast, Idle
  <1>3. Followed
    BY RequestAssumption DEF Init, Followed, Render
  <1> QED  BY <1>1, <1>2, <1>3 DEF IInv

-----------------------------------------------------------------------------
(* A step of a handler changes its own state only.                         *)

Moves(q, s) == req' = [req EXCEPT ![q] = s]

\* The type of the handlers after a step of one of them.
LEMMA MovesType ==
  ASSUME TypeOK, NEW q \in Request, NEW s \in State, Moves(q, s)
  PROVE  /\ req' \in [Request -> State]
         /\ req'[q] = s
         /\ \A p \in Request : p # q => req'[p] = req[p]
  BY DEF TypeOK, Moves, State

\* Steps that leave the table alone keep everything about it.
LEMMA TableKept ==
  ASSUME IInv, UNCHANGED <<clients, lastId, issued>>,
         NEW q \in Request, NEW s \in State, Moves(q, s),
         s.pc = "rotate" => \A read \in s.row : read \in clients
  PROVE  Counted' /\ ReadsPast'
  <1>1. Counted'
    BY DEF IInv, Counted
  <1>2. ReadsPast'
    <2> SUFFICES ASSUME NEW p \in Request, req'[p].pc = "rotate",
                        NEW read \in req'[p].row
                 PROVE  /\ read.id <= lastId
                        /\ \A x \in clients : x.id = read.id =>
                            /\ read.version <= x.version
                            /\ read.version = x.version => read.cred = x.cred
      BY DEF ReadsPast
    <2>1. CASE p # q
      BY <2>1, MovesType DEF IInv, ReadsPast
    <2>2. CASE p = q
      <3>1. read \in clients
        BY <2>2, MovesType DEF IInv
      <3>2. \A x \in clients : x.id = read.id => x = read
        BY <3>1 DEF IInv, TypeOK
      <3>3. read.version \in Nat
        BY <3>1, MaxCredAssumption DEF IInv, TypeOK, Row, Cred
      <3> QED  BY <3>1, <3>2, <3>3 DEF IInv, Counted
    <2> QED  BY <2>1, <2>2
  <1> QED  BY <1>1, <1>2

\* Steps that leave the table, the file and the latest listing alone, of a
\* handler that is not and does not become one that rewrites the file.
LEMMA QuietStep ==
  ASSUME IInv, UNCHANGED <<clients, lastId, issued, file, listing>>,
         NEW q \in Request, NEW s \in State, Moves(q, s),
         req[q].pc \notin {"list", "write"}, s.pc \notin {"list", "write"},
         s.pc = "rotate" => \A read \in s.row : read \in clients
  PROVE  IInv'
  <1>1. TypeOK'
    BY MovesType DEF IInv, TypeOK, State
  <1>2. Counted' /\ ReadsPast'
    BY TableKept
  <1>3. Followed'
    <2>1. Dirty' <=> Dirty
      BY MovesType DEF IInv, Dirty
    <2>2. listing \in Request => req'[listing] = req[listing]
      BY MovesType DEF IInv, Followed
    <2> QED  BY <2>1, <2>2 DEF IInv, Followed
  <1> QED  BY <1>1, <1>2, <1>3 DEF IInv

\* Steps that change the table end with a handler that has yet to list it.
LEMMA TableChanged ==
  ASSUME IInv, NEW q \in Request, NEW s \in State, Moves(q, s), s.pc = "list",
         UNCHANGED <<file, listing>>, req[q].pc # "write"
  PROVE  Followed'
  <1>1. Dirty'
    BY MovesType DEF IInv, Dirty
  <1>2. listing \in Request => req'[listing] = req[listing]
    BY MovesType DEF IInv, Followed
  <1> QED  BY <1>1, <1>2 DEF IInv, Followed

LEMMA Create ==
  ASSUME IInv, NEW q \in Request, PostClients(q)
  PROVE  IInv'
  <1> DEFINE s == [req[q] EXCEPT !.pc = "list"]
  <1>1. s \in State /\ s.pc = "list" /\ Moves(q, s)
    BY DEF IInv, TypeOK, PostClients, Moves, State
  <1>2. PICK n \in Name : /\ \A x \in clients : x.name # n
                          /\ clients' = clients \cup {Created(n)}
    BY DEF PostClients
  <1>3. lastId' = lastId + 1 /\ issued' = issued + 1 /\ issued < MaxCred
    BY DEF PostClients
  <1>4. lastId \in Nat /\ issued \in Nat /\ lastId <= issued
    BY MaxCredAssumption DEF IInv, TypeOK, Counted
  <1>5. Created(n) \in Row
    BY <1>3, <1>4, MaxCredAssumption DEF Created, Row, Cred
  <1>6. TypeOK'
    <2>1. req' \in [Request -> State]
      BY <1>1, MovesType DEF IInv
    <2>2. clients' \subseteq Row
      BY <1>2, <1>5 DEF IInv, TypeOK
    <2>3. \A x, y \in clients' : x.id = y.id \/ x.name = y.name => x = y
      <3>1. \A x \in clients : x.id # Created(n).id /\ x.name # Created(n).name
        BY <1>2, <1>4, MaxCredAssumption DEF IInv, TypeOK, Counted, Created, Row, Cred
      <3> QED  BY <1>2, <3>1 DEF IInv, TypeOK
    <2>4. lastId' \in 0..MaxCred /\ issued' \in 0..MaxCred
      BY <1>3, <1>4, MaxCredAssumption
    <2> QED  BY <2>1, <2>2, <2>3, <2>4 DEF IInv, TypeOK, PostClients, State
  <1>7. Counted'
    <2> SUFFICES ASSUME NEW x \in clients'
                 PROVE  x.id <= lastId' /\ x.version <= issued'
      BY <1>3, <1>4 DEF Counted
    <2>1. CASE x \in clients
      BY <2>1, <1>3, <1>4, MaxCredAssumption DEF IInv, TypeOK, Counted, Row, Cred
    <2>2. CASE x = Created(n)
      BY <2>2, <1>3, <1>4 DEF Created
    <2> QED  BY <1>2, <2>1, <2>2
  <1>8. ReadsPast'
    <2> SUFFICES ASSUME NEW p \in Request, req'[p].pc = "rotate",
                        NEW read \in req'[p].row
                 PROVE  /\ read.id <= lastId'
                        /\ \A x \in clients' : x.id = read.id =>
                            /\ read.version <= x.version
                            /\ read.version = x.version => read.cred = x.cred
      BY DEF ReadsPast
    <2>1. p # q /\ req[p] = req'[p]
      BY <1>1, MovesType DEF IInv
    <2>2. read \in Row /\ read.id <= lastId
      BY <2>1 DEF IInv, TypeOK, ReadsPast
    <2>3. read.id # Created(n).id /\ read.id <= lastId'
      BY <2>2, <1>3, <1>4, MaxCredAssumption DEF Created, Row, Cred
    <2> QED  BY <1>2, <2>1, <2>3 DEF IInv, ReadsPast
  <1>9. Followed'
    BY <1>1, TableChanged DEF PostClients
  <1> QED  BY <1>6, <1>7, <1>8, <1>9 DEF IInv

LEMMA Rotate ==
  ASSUME IInv, NEW q \in Request, PostRotate(q)
  PROVE  IInv'
  <1> DEFINE s == [req[q] EXCEPT !.pc = "list", !.row = {}]
  <1>1. s \in State /\ s.pc = "list" /\ Moves(q, s)
    BY DEF IInv, TypeOK, PostRotate, Moves, State
  <1>2. PICK x \in clients :
          clients' = (clients \ {x}) \cup
            {[x EXCEPT !.cred = issued + 1, !.version = x.version + 1]}
    BY DEF PostRotate
  <1> DEFINE z == [x EXCEPT !.cred = issued + 1, !.version = x.version + 1]
  <1>3. lastId' = lastId /\ issued' = issued + 1 /\ issued < MaxCred
    BY DEF PostRotate
  <1>4. lastId \in Nat /\ issued \in Nat /\ lastId <= issued
    BY MaxCredAssumption DEF IInv, TypeOK, Counted
  <1>5. x \in Row /\ x.version \in Nat /\ x.version <= issued /\ x.id <= lastId
    BY MaxCredAssumption DEF IInv, TypeOK, Counted, Row, Cred
  <1>6. /\ z \in Row
        /\ z.id = x.id /\ z.name = x.name
        /\ z.version = x.version + 1
    <2>1. issued + 1 \in Cred /\ x.version + 1 \in Cred
      BY <1>3, <1>4, <1>5, MaxCredAssumption DEF Cred
    <2>2. x \in [id: Cred, name: Name, cred: Cred, version: Cred]
      BY <1>5 DEF Row
    <2> HIDE DEF s
    <2>3. z \in [id: Cred, name: Name, cred: Cred, version: Cred]
      BY <2>1, <2>2
    <2>4. z.id = x.id /\ z.name = x.name /\ z.version = x.version + 1
      BY <2>2
    <2> QED  BY <2>3, <2>4 DEF Row
  <1>7. TypeOK'
    <2>1. req' \in [Request -> State]
      BY <1>1, MovesType DEF IInv
    <2>2. clients' \subseteq Row
      BY <1>2, <1>6 DEF IInv, TypeOK
    <2>3. \A u, v \in clients' : u.id = v.id \/ u.name = v.name => u = v
      <3>1. \A u \in clients \ {x} : u.id # z.id /\ u.name # z.name
        BY <1>6 DEF IInv, TypeOK
      <3> QED  BY <1>2, <3>1 DEF IInv, TypeOK
    <2>4. lastId' \in 0..MaxCred /\ issued' \in 0..MaxCred
      BY <1>3, <1>4, MaxCredAssumption DEF IInv, TypeOK
    <2> QED  BY <2>1, <2>2, <2>3, <2>4 DEF IInv, TypeOK, PostRotate, State
  <1>8. Counted'
    <2> SUFFICES ASSUME NEW u \in clients'
                 PROVE  u.id <= lastId' /\ u.version <= issued'
      BY <1>3, <1>4 DEF Counted
    <2>1. CASE u \in clients
      BY <2>1, <1>3, <1>4, MaxCredAssumption DEF IInv, TypeOK, Counted, Row, Cred
    <2>2. CASE u = z
      BY <2>2, <1>3, <1>4, <1>5, <1>6
    <2> QED  BY <1>2, <2>1, <2>2
  <1>9. ReadsPast'
    <2> SUFFICES ASSUME NEW p \in Request, req'[p].pc = "rotate",
                        NEW read \in req'[p].row
                 PROVE  /\ read.id <= lastId'
                        /\ \A u \in clients' : u.id = read.id =>
                            /\ read.version <= u.version
                            /\ read.version = u.version => read.cred = u.cred
      BY DEF ReadsPast
    <2>1. p # q /\ req[p] = req'[p]
      BY <1>1, MovesType DEF IInv
    <2>2. read \in Row /\ read.version \in Nat /\ read.id <= lastId
      BY <2>1, MaxCredAssumption DEF IInv, TypeOK, ReadsPast, Row, Cred
    <2>3. ASSUME NEW u \in clients, u.id = read.id
          PROVE  read.version <= u.version /\ (read.version = u.version => read.cred = u.cred)
      BY <2>1, <2>3 DEF IInv, ReadsPast
    <2>4. z.id = read.id => read.version < z.version
      BY <1>5, <1>6, <2>2, <2>3
    <2>5. ASSUME NEW u \in clients', u.id = read.id
          PROVE  read.version <= u.version /\ (read.version = u.version => read.cred = u.cred)
      <3>1. CASE u \in clients
        BY <2>3, <2>5, <3>1
      <3>2. CASE u = z
        BY <1>5, <1>6, <2>2, <2>4, <2>5, <3>2
      <3> QED  BY <1>2, <3>1, <3>2
    <2> QED  BY <1>3, <2>2, <2>5
  <1>10. Followed'
    BY <1>1, TableChanged DEF PostRotate
  <1> QED  BY <1>7, <1>8, <1>9, <1>10 DEF IInv

LEMMA Delete ==
  ASSUME IInv, NEW q \in Request, PostDelete(q)
  PROVE  IInv'
  <1> DEFINE s == [req[q] EXCEPT !.pc = "list", !.row = {}]
  <1>1. s \in State /\ s.pc = "list" /\ Moves(q, s)
    BY DEF IInv, TypeOK, PostDelete, Moves, State
  <1>2. clients' \subseteq clients /\ UNCHANGED <<lastId, issued, file, listing>>
    BY DEF PostDelete
  <1>3. TypeOK'
    <2>1. req' \in [Request -> State]
      BY <1>1, MovesType DEF IInv
    <2> QED  BY <1>2, <2>1 DEF IInv, TypeOK, State
  <1>4. Counted'
    BY <1>2 DEF IInv, Counted
  <1>5. ReadsPast'
    <2>1. \A p \in Request : req'[p].pc = "rotate" => req'[p] = req[p]
      BY <1>1, MovesType DEF IInv
    <2> QED  BY <1>2, <2>1 DEF IInv, ReadsPast
  <1>6. Followed'
    BY <1>1, <1>2, TableChanged DEF PostDelete
  <1> QED  BY <1>3, <1>4, <1>5, <1>6 DEF IInv

-----------------------------------------------------------------------------
(* The rewriting of the file.                                              *)

LEMMA List ==
  ASSUME IInv, NEW q \in Request, RegenList(q)
  PROVE  IInv'
  <1> DEFINE s == [req[q] EXCEPT !.pc = "write", !.list = clients]
  <1>1. s \in State /\ s.pc = "write" /\ s.list = clients /\ Moves(q, s)
    BY DEF IInv, TypeOK, RegenList, Moves, State
  <1>2. TypeOK'
    BY <1>1, MovesType DEF IInv, TypeOK, RegenList, State
  <1>3. Counted' /\ ReadsPast'
    BY <1>1, TableKept DEF RegenList
  <1>4. Followed'
    BY <1>1, MovesType, RequestAssumption DEF IInv, Followed, RegenList
  <1> QED  BY <1>2, <1>3, <1>4 DEF IInv

LEMMA Write ==
  ASSUME IInv, NEW q \in Request, RegenWrite(q)
  PROVE  IInv'
  <1>1. Idle \in State /\ Idle.pc = "idle" /\ Moves(q, Idle)
    BY IdleState DEF RegenWrite, Moves, Idle
  <1>2. req[q] \in State
    BY DEF IInv, TypeOK, State
  <1>3. listing' \in Request \cup {"written", "lost"}
    BY DEF IInv, TypeOK, RegenWrite
  <1>4. TypeOK'
    <2>1. req' \in [Request -> State]
      BY <1>1, MovesType DEF IInv
    <2>2. file' \subseteq Entry
      BY <1>2, RenderType DEF RegenWrite, State
    <2> QED  BY <1>3, <2>1, <2>2 DEF IInv, TypeOK, RegenWrite, State
  <1>5. Counted' /\ ReadsPast'
    BY <1>1, TableKept DEF RegenWrite
  <1>6. Followed'
    <2>1. Dirty' <=> Dirty
      BY <1>1, MovesType DEF IInv, Dirty, RegenWrite
    <2>2. CASE listing = q
      <3>1. listing' = "written"
        BY <2>2, RequestAssumption DEF RegenWrite
      <3>2. ~Dirty => file' = Render(clients)
        BY <2>2 DEF IInv, Followed, RegenWrite
      <3> QED  BY <2>1, <3>1, <3>2, RequestAssumption DEF Followed, RegenWrite
    <2>3. CASE listing = "written"
      <3>1. listing' = "lost"
        BY <2>3, RequestAssumption DEF RegenWrite
      <3> QED  BY <3>1, RequestAssumption DEF Followed
    <2>4. CASE listing # q /\ listing # "written"
      <3>1. listing' = listing
        BY <2>4 DEF RegenWrite
      <3>2. listing \in Request => req'[listing] = req[listing]
        BY <1>1, <2>4, MovesType DEF IInv
      <3> QED  BY <2>1, <2>4, <3>1, <3>2 DEF IInv, Followed, RegenWrite
    <2> QED  BY <2>2, <2>3, <2>4
  <1> QED  BY <1>4, <1>5, <1>6 DEF IInv

LEMMA Fail ==
  ASSUME IInv, NEW q \in Request, RegenFails(q)
  PROVE  IInv'
  <1>1. Idle \in State /\ Idle.pc = "idle" /\ Moves(q, Idle)
    BY IdleState DEF RegenFails, Moves, Idle
  <1>2. TypeOK'
    BY <1>1, MovesType DEF IInv, TypeOK, RegenFails, State
  <1>3. Counted' /\ ReadsPast'
    BY <1>1, TableKept DEF RegenFails
  <1>4. Followed'
    <2>1. CASE listing' = "lost"
      BY <2>1, RequestAssumption DEF Followed
    <2>2. CASE req[q].pc = "write" /\ listing # q /\ listing' = listing
      <3>1. Dirty' <=> Dirty
        BY <1>1, <2>2, MovesType DEF IInv, Dirty
      <3>2. listing \in Request => req'[listing] = req[listing]
        BY <1>1, <2>2, MovesType DEF IInv
      <3> QED  BY <2>2, <3>1, <3>2 DEF IInv, Followed, RegenFails
    <2> QED  BY <2>1, <2>2 DEF RegenFails
  <1> QED  BY <1>2, <1>3, <1>4 DEF IInv

LEMMA Restarted ==
  ASSUME IInv, NEW synced \in BOOLEAN, Restart(synced)
  PROVE  IInv'
  <1>1. req' = [q \in Request |-> Idle]
    BY DEF Restart
  <1>2. TypeOK'
    <2>1. file' \subseteq Entry
      BY RenderType DEF IInv, TypeOK, Restart
    <2>2. req' \in [Request -> State]
      BY <1>1, IdleState
    <2> QED  BY <2>1, <2>2 DEF IInv, TypeOK, Restart, State
  <1>3. Counted' /\ ReadsPast'
    BY <1>1 DEF IInv, Counted, ReadsPast, Restart, Idle
  <1>4. Followed'
    BY RequestAssumption DEF Followed, Restart
  <1> QED  BY <1>2, <1>3, <1>4 DEF IInv

LEMMA HandlerIInv ==
  ASSUME IInv, NEW q \in Request, Handler(q)
  PROVE  IInv'
  <1>0. req[q] \in State
    BY DEF IInv, TypeOK, State
  <1>1. CASE PostClients(q)
    BY <1>1, Create
  <1>2. CASE PostRotateReads(q) \/ PostDeleteReads(q)
    <2>1. PICK x \in clients, pc \in {"rotate", "delete"} :
            req' = [req EXCEPT ![q].pc = pc, ![q].row = {x}]
      <3>1. CASE PostRotateReads(q)
        BY <3>1 DEF PostRotateReads
      <3>2. CASE PostDeleteReads(q)
        BY <3>2 DEF PostDeleteReads
      <3> QED  BY <1>2, <3>1, <3>2
    <2> DEFINE s == [req[q] EXCEPT !.pc = pc, !.row = {x}]
    <2>2. s \in State /\ s.pc = pc /\ s.row = {x} /\ Moves(q, s)
      <3>1. x \in Row
        BY DEF IInv, TypeOK
      <3>2. s \in State /\ s.pc = pc /\ s.row = {x}
        BY <1>0, <3>1 DEF State
      <3>3. req' = [req EXCEPT ![q] = s]
        BY <2>1 DEF IInv, TypeOK
      <3> QED  BY <3>2, <3>3 DEF Moves
    <2>3. req[q].pc = "idle" /\ UNCHANGED <<clients, lastId, issued, file, listing>>
      BY <1>2 DEF PostRotateReads, PostDeleteReads
    <2> HIDE DEF s
    <2> QED  BY <2>2, <2>3, QuietStep
  <1>3. CASE PostRotate(q)
    BY <1>3, Rotate
  <1>4. CASE PostDelete(q)
    BY <1>4, Delete
  <1>5. CASE PostRotateConflicts(q) \/ PostDeleteNotFound(q) \/ PostFails(q)
    <2>1. Moves(q, Idle) /\ req[q].pc \in {"rotate", "delete"}
      BY <1>5 DEF PostRotateConflicts, PostDeleteNotFound, PostFails, Moves
    <2>2. UNCHANGED <<clients, lastId, issued, file, listing>>
      BY <1>5 DEF PostRotateConflicts, PostDeleteNotFound, PostFails
    <2>3. Idle.pc = "idle"
      BY DEF Idle
    <2> QED  BY <2>1, <2>2, <2>3, IdleState, QuietStep
  <1>6. CASE RegenList(q)
    BY <1>6, List
  <1>7. CASE RegenWrite(q)
    BY <1>7, Write
  <1>8. CASE RegenFails(q)
    BY <1>8, Fail
  <1> QED  BY <1>1, <1>2, <1>3, <1>4, <1>5, <1>6, <1>7, <1>8 DEF Handler

LEMMA NextIInv == IInv /\ [Next]_vars => IInv'
  <1> SUFFICES ASSUME IInv, [Next]_vars PROVE IInv'
      OBVIOUS
  <1>1. CASE UNCHANGED vars
    BY <1>1 DEF IInv, TypeOK, Counted, ReadsPast, Followed, Dirty, vars
  <1> QED  BY <1>1, HandlerIInv, Restarted DEF Next

LEMMA Invariant == Spec => []IInv
  <1> QED  BY InitIInv, NextIInv, PTL DEF Spec

-----------------------------------------------------------------------------
\* Rows, lines and what handlers hold are of their types; names and ids are
\* unique (store.go:147-169, clients.go:46-110).
THEOREM TypeCorrect == Spec => []TypeOK
  <1>1. IInv => TypeOK
    BY DEF IInv
  <1> QED  BY <1>1, Invariant, PTL

\* Once no rewriting is under way, authorized_keys is the table, unless an
\* older listing was written after the latest one or that was not written at
\* all (regenAuthorizedKeys, clients.go:638-670).
THEOREM FileFollows == Spec => []FileFollowsLatestListing
  <1>1. IInv => FileFollowsLatestListing
    BY RequestAssumption DEF IInv, FileFollowsLatestListing, Followed, Quiet, Dirty
  <1> QED  BY <1>1, Invariant, PTL

\* A rotation replaces the credential that its handler read: the
\* compare-and-swap on version (store.go:784-807) is enough, whatever other
\* handlers do in between.
THEOREM RotationsSee == Spec => NoBlindRotation
  <1> DEFINE A == \A x \in clients, y \in clients', q \in Request :
                    (/\ x.id = y.id /\ x.cred # y.cred
                     /\ req[q].pc = "rotate" /\ req'[q].pc = "list")
                        => \E read \in req[q].row : read.cred = x.cred
  <1>1. IInv /\ [Next]_vars => [A]_vars
    <2> SUFFICES ASSUME IInv, Next, NEW x \in clients, NEW y \in clients',
                        NEW q \in Request, x.id = y.id, x.cred # y.cred,
                        req[q].pc = "rotate", req'[q].pc = "list"
                 PROVE  \E read \in req[q].row : read.cred = x.cred
      OBVIOUS
    <2>1. PostRotate(q)
      <3>1. ASSUME NEW synced \in BOOLEAN, Restart(synced) PROVE FALSE
        BY <3>1 DEF Restart, Idle
      <3>2. PICK p \in Request : Handler(p)
        BY <3>1 DEF Next
      <3>3. p = q
        BY <3>2 DEF IInv, TypeOK, Handler, PostClients, PostRotateReads, PostRotate,
              PostRotateConflicts, PostDeleteReads, PostDelete, PostDeleteNotFound,
              PostFails, RegenList, RegenWrite, RegenFails
      <3> QED  BY <3>2, <3>3
            DEF IInv, TypeOK, Handler, PostClients, PostRotateReads, PostRotateConflicts,
              PostDeleteReads, PostDelete, PostDeleteNotFound,
              PostFails, RegenList, RegenWrite, RegenFails, Idle
    <2>2. PICK x0 \in clients, read \in req[q].row :
            /\ SameVersion(x0, read)
            /\ clients' = (clients \ {x0}) \cup
                {[x0 EXCEPT !.cred = issued + 1, !.version = x0.version + 1]}
      BY <2>1 DEF PostRotate
    <2>3. x = x0
      <3>1. clients \subseteq Row /\ \A u, v \in clients : u.id = v.id => u = v
        BY DEF IInv, TypeOK
      <3>2. y \in (clients \ {x0}) \cup
                    {[x0 EXCEPT !.cred = issued + 1, !.version = x0.version + 1]}
        BY <2>2
      <3>3. CASE y \in clients
        BY <3>1, <3>3
      <3>4. CASE y = [x0 EXCEPT !.cred = issued + 1, !.version = x0.version + 1]
        <4>1. y.id = x0.id
          BY <3>1, <3>4 DEF Row
        <4> QED  BY <3>1, <4>1
      <3> QED  BY <3>2, <3>3, <3>4
    <2>4. read.cred = x.cred
      BY <2>2, <2>3 DEF IInv, ReadsPast, SameVersion
    <2> QED  BY <2>4
  <1> QED  BY <1>1, Invariant, PTL DEF Spec, NoBlindRotation

\* Every handler's step leaves each client its credential or gives it one that
\* was never issued, and hands out no listing but one of the table.
LEMMA HandlerForgets ==
    ASSUME TypeOK, NEW q \in Request, Handler(q), NEW k \in Cred, Forgotten(k)
    PROVE  Forgotten(k)'
  <1> DEFINE Without(S) == \A x \in S : x.cred # k
  <1>1. /\ k \in 1..issued /\ issued \in Nat /\ req \in [Request -> State]
        /\ Without(clients) /\ Without(file) /\ \A p \in Request : Without(req[p].list)
    BY MaxCredAssumption DEF Forgotten, Retired, TypeOK, State
  <1>2. ASSUME issued' \in Nat, issued <= issued', Without(clients'), Without(file'),
               \A p \in Request : Without(req'[p].list)
        PROVE  Forgotten(k)'
    BY <1>1, <1>2 DEF Forgotten, Retired
  <1>3. Without(Idle.list)
    BY DEF Idle
  <1>4. CASE PostClients(q)
    <2>1. PICK n \in Name : clients' = clients \cup {Created(n)}
      BY <1>4 DEF PostClients
    <2>2. Created(n).cred # k
      BY <1>1 DEF Created
    <2>3. \A p \in Request : req'[p].list = req[p].list
      BY <1>1, <1>4 DEF PostClients, State
    <2> QED  BY <1>1, <1>2, <1>4, <2>1, <2>2, <2>3 DEF PostClients
  <1>5. CASE PostRotate(q)
    <2>1. PICK x \in clients : clients' = (clients \ {x}) \cup
                {[x EXCEPT !.cred = issued + 1, !.version = x.version + 1]}
      BY <1>5 DEF PostRotate
    <2>2. [x EXCEPT !.cred = issued + 1, !.version = x.version + 1].cred # k
      <3>1. x \in Row
        BY DEF TypeOK
      <3> QED  BY <1>1, <3>1 DEF Row
    <2>3. \A p \in Request : req'[p].list = req[p].list
      BY <1>1, <1>5 DEF PostRotate, State
    <2>4. Without(clients')
      BY <1>1, <2>1, <2>2
    <2>5. issued' = issued + 1 /\ file' = file
      BY <1>5 DEF PostRotate
    <2> QED  BY <1>1, <1>2, <2>3, <2>4, <2>5
  <1>6. CASE PostDelete(q)
    <2>1. clients' \subseteq clients
      BY <1>6 DEF PostDelete
    <2>2. \A p \in Request : req'[p].list = req[p].list
      BY <1>1, <1>6 DEF PostDelete, State
    <2> QED  BY <1>1, <1>2, <1>6, <2>1, <2>2 DEF PostDelete
  <1>7. CASE PostRotateReads(q) \/ PostDeleteReads(q)
    <2>1. \A p \in Request : req'[p].list = req[p].list
      BY <1>1, <1>7 DEF PostRotateReads, PostDeleteReads, State
    <2> QED  BY <1>1, <1>2, <1>7, <2>1 DEF PostRotateReads, PostDeleteReads
  <1>8. CASE PostRotateConflicts(q) \/ PostDeleteNotFound(q) \/ PostFails(q) \/ RegenFails(q)
    <2>1. \A p \in Request : Without(req'[p].list)
      BY <1>1, <1>3, <1>8 DEF PostRotateConflicts, PostDeleteNotFound, PostFails, RegenFails
    <2> QED  BY <1>1, <1>2, <1>8, <2>1
          DEF PostRotateConflicts, PostDeleteNotFound, PostFails, RegenFails
  <1>9. CASE RegenList(q)
    <2>1. \A p \in Request : req'[p].list \in {req[p].list, clients}
      BY <1>1, <1>9 DEF RegenList, State
    <2> QED  BY <1>1, <1>2, <1>9, <2>1 DEF RegenList
  <1>10. CASE RegenWrite(q)
    <2>1. Without(file')
      BY <1>1, <1>10 DEF RegenWrite, Render, EntryOf
    <2>2. \A p \in Request : Without(req'[p].list)
      BY <1>1, <1>3, <1>10 DEF RegenWrite
    <2> QED  BY <1>1, <1>2, <1>10, <2>1, <2>2 DEF RegenWrite
  <1> QED  BY <1>4, <1>5, <1>6, <1>7, <1>8, <1>9, <1>10 DEF Handler

LEMMA RestartForgets ==
    ASSUME TypeOK, NEW synced \in BOOLEAN, Restart(synced), NEW k \in Cred, Forgotten(k)
    PROVE  Forgotten(k)'
  <1>1. \A x \in clients' : x.cred # k
    BY DEF Restart, Forgotten, Retired
  <1>2. \A e \in file' : e.cred # k
    BY <1>1 DEF Restart, Forgotten, Render, EntryOf
  <1>3. \A p \in Request : \A x \in req'[p].list : x.cred # k
    BY DEF Restart, Idle
  <1> QED  BY <1>1, <1>2, <1>3 DEF Restart, Forgotten, Retired

\* A credential that was retired, has left the file and is in no listing under
\* way is never admitted again, however rotations, deletions, rewritings, their
\* failures and restarts go on (clients.go:284-361, 638-670).
THEOREM StaysForgotten == Spec => ForgottenForGood
  <1> DEFINE A == \A k \in Cred : Forgotten(k) => Forgotten(k)'
  <1>1. IInv /\ [Next]_vars => [A]_vars
    BY HandlerForgets, RestartForgets DEF IInv, Next
  <1> QED  BY <1>1, Invariant, PTL DEF Spec, ForgottenForGood
=============================================================================
